------------------------ MODULE ExsatStakingProofs ------------------------
(***************************************************************************)
(* Proofs about ExsatStaking, for any validators and stakers, any tokens   *)
(* and any base stakes, rates and weights.                                 *)
(*                                                                         *)
(* The first part says what each function of endrmng.xsat does to its      *)
(* tables (StakeChanged, XsatChanged, CreditChanged, RowsFollow), the next *)
(* which of them a step is (StepKinds), and then one part follows a        *)
(* promise at a time through these few kinds of steps: credit and rounds,  *)
(* tokens, native stakes, what stakers are due, sums and debts.            *)
(***************************************************************************)
EXTENDS FoldTheorems, StakeHistory

\* A quotient of naturals is a natural, it grows with the dividend, and less than
\* the divisor remains.
LEMMA Quotient ==
  ASSUME NEW n \in Nat, NEW d \in Nat \ {0}
  PROVE  /\ n \div d \in Nat /\ \A m \in Nat : m <= n => m \div d <= n \div d
         /\ d * (n \div d) <= n /\ n - d * (n \div d) <= d - 1
<1>1. ASSUME NEW m \in Nat, m <= n PROVE m \div d <= n \div d
  BY <1>1, Z3
<1>2. d * (n \div d) <= n /\ n - d * (n \div d) <= d - 1
  BY Z3
<1> QED
  BY <1>1, <1>2

\* What an amount earned is a natural.
LEMMA EarnedType ==
  ASSUME NEW a \in Nat, NEW acc \in Nat
  PROVE  Earned(a, acc) \in Nat
<1>1. PICK n \in Nat : n = a * acc
  OBVIOUS
<1> QED
  BY <1>1, Quotient, EndorseManageAssumption DEF Earned

\* What a stake counts for with a weight is a natural.
LEMMA WeightedType ==
  ASSUME NEW a \in Nat, NEW w \in Nat
  PROVE  Weighted(a, w) \in Nat
<1>1. PICK n \in Nat : n = a * w
  OBVIOUS
<1> QED
  BY <1>1, Quotient, EndorseManageAssumption DEF Weighted

\* Settling the rewards of a stake touches its row and nothing else.
LEMMA UpdateReward ==
  ASSUME NEW t \in TablesType, NEW u \in Stakers, NEW v \in Validators, t.validator[v] \in ValidatorRow,
         NEW pre \in Nat, NEW now \in Nat, NEW s \in update_staking_reward(t, u, v, pre, now)
  PROVE  /\ s \in TablesType /\ s.validator = t.validator /\ s.stat = t.stat
         /\ \A x \in Stakers, w \in Validators : x # u \/ w # v => s.staker[x][w] = t.staker[x][w]
         /\ s.staker[u][v].quantity = now
         /\ s.staker[u][v].xsat_quantity = t.staker[u][v].xsat_quantity
         /\ \A k \in RewardKinds :
              LET acc == t.validator[v].acc_per_share[k] IN
              /\ s.staker[u][v].debt[k] = Earned(now, acc)
              /\ s.staker[u][v].unclaimed[k]
                   = t.staker[u][v].unclaimed[k] + Earned(pre, acc) - t.staker[u][v].debt[k]
<1> DEFINE row == t.staker[u][v]
           acc == t.validator[v].acc_per_share
<1>1. PICK n : n = Settled(row, acc, pre, now)
  OBVIOUS
<1>2. /\ \A k \in RewardKinds : Earned(pre, acc[k]) >= row.debt[k]
      /\ s = [t EXCEPT !.staker[u][v] = n]
  BY <1>1 DEF update_staking_reward
<1>3. row \in StakeRow /\ acc \in RewardType
  <2>1. t.staker \in [Stakers -> [Validators -> StakeRow]]
    BY DEF TablesType
  <2>2. t.validator[v].acc_per_share \in RewardType
    BY DEF ValidatorRow
  <2> QED
    BY <2>1, <2>2
<1>4. \A k \in RewardKinds : Earned(now, acc[k]) \in Nat /\ Earned(pre, acc[k]) \in Nat
  BY <1>3, EarnedType DEF RewardType
<1>5. \A k \in RewardKinds : row.unclaimed[k] + Earned(pre, acc[k]) - row.debt[k] \in Nat
  BY <1>2, <1>3, <1>4 DEF RewardType, StakeRow
<1>6. /\ n \in StakeRow /\ n.quantity = now /\ n.xsat_quantity = row.xsat_quantity
      /\ \A k \in RewardKinds :
           /\ n.debt[k] = Earned(now, acc[k])
           /\ n.unclaimed[k] = row.unclaimed[k] + Earned(pre, acc[k]) - row.debt[k]
  BY <1>1, <1>3, <1>4, <1>5 DEF RewardType, StakeRow, Settled
<1>7. /\ s \in TablesType /\ s.validator = t.validator /\ s.stat = t.stat
      /\ s.staker[u][v] = n
      /\ \A x \in Stakers, w \in Validators : x # u \/ w # v => s.staker[x][w] = t.staker[x][w]
  BY <1>2, <1>6 DEF TablesType
<1> QED
  BY <1>6, <1>7

\* What a stake counts for is a natural.
LEMMA CountedType ==
  ASSUME NEW t \in TablesType, NEW u \in Stakers, NEW v \in Validators, t.validator[v] \in ValidatorRow
  PROVE  /\ Counted(t, u, v) \in Nat
         /\ validator_weight(t.validator[v]) \in 1..RATE_BASE_10000
         /\ ~IsCredit(u) => Counted(t, u, v) = t.staker[u][v].quantity
<1>1. t.staker[u][v].quantity \in Nat
  <2>1. t.staker \in [Stakers -> [Validators -> StakeRow]]
    BY DEF TablesType
  <2> QED
    BY <2>1 DEF StakeRow
<1>2. RATE_BASE_10000 \in Nat \ {0} /\ t.validator[v].credit_weight \in 0..RATE_BASE_10000
  BY EndorseManageAssumption DEF ValidatorRow
<1>3. validator_weight(t.validator[v]) \in 1..RATE_BASE_10000
  BY <1>2 DEF validator_weight
<1>4. Weighted(t.staker[u][v].quantity, validator_weight(t.validator[v])) \in Nat
  <2>1. validator_weight(t.validator[v]) \in Nat
    BY <1>2, <1>3
  <2> QED
    BY <1>1, <2>1, WeightedType
<1> QED
  BY <1>1, <1>3, <1>4 DEF Counted

\* The rest of the row of a validator, apart from its stakes, its credit
\* weight and the balance.
KeepsRow(r, n) ==
  /\ n.registered = r.registered /\ n.role = r.role /\ n.stake_address = r.stake_address
  /\ n.disabled_staking = r.disabled_staking /\ n.acc_per_share = r.acc_per_share
  /\ n.unclaimed = r.unclaimed
KeepsWeight(r, n) ==
  n.credit_weight = r.credit_weight /\ n.credit_weight_block = r.credit_weight_block

\* A stake of u with v becomes another, the totals change by q and x.
Moved(t, s, u, v, q, x) ==
  /\ s \in TablesType
  /\ s.validator[v] \in ValidatorRow /\ KeepsRow(t.validator[v], s.validator[v])
  /\ \A y \in Stakers, w \in Validators : y # u \/ w # v => s.staker[y][w] = t.staker[y][w]
  /\ \A w \in Validators : w # v => s.validator[w] = t.validator[w]
  /\ s.validator[v].quantity = t.validator[v].quantity + q
  /\ s.validator[v].xsat_quantity = t.validator[v].xsat_quantity + x
  /\ s.stat.total_staking = t.stat.total_staking + q
  /\ s.stat.xsat_total_staking = t.stat.xsat_total_staking + x

\* The rewards of the stake are settled, and the next begin with the amount now.
RewardsSettled(t, s, u, v, now) ==
  \A k \in RewardKinds :
    LET acc == t.validator[v].acc_per_share[k] IN
    /\ s.staker[u][v].debt[k] = Earned(now, acc)
    /\ s.staker[u][v].unclaimed[k]
         = t.staker[u][v].unclaimed[k] + Earned(Counted(t, u, v), acc) - t.staker[u][v].debt[k]

\* What staking_change does to the tables.
StakeChanged(t, s, u, v, q) ==
  /\ Moved(t, s, u, v, q, 0) /\ KeepsWeight(t.validator[v], s.validator[v])
  /\ s.validator[v].balance = t.validator[v].balance
  /\ s.staker[u][v].quantity = Counted(t, u, v) + q
  /\ s.staker[u][v].xsat_quantity = t.staker[u][v].xsat_quantity
  /\ RewardsSettled(t, s, u, v, Counted(t, u, v) + q)

\* staking_change: the stake becomes what it counted for and the quantity.
LEMMA StakingChange ==
  ASSUME NEW t \in TablesType, NEW u \in Stakers, NEW v \in Validators, t.validator[v] \in ValidatorRow,
         NEW q \in Int, NEW ql \in Int, NEW flag \in {0, 1}, Counted(t, u, v) + q >= 0,
         NEW s \in staking_change(t, u, v, q, ql, flag)
  PROVE  StakeChanged(t, s, u, v, q)
<1> DEFINE row == t.validator[v]
           pre == Counted(t, u, v)
<1>1. PICK n : n = [row EXCEPT !.quantity = @ + q, !.qualification = @ + ql, !.active_flag = flag]
  OBVIOUS
<1>2. PICK m : m = [t EXCEPT !.validator[v] = n, !.stat.total_staking = @ + q]
  OBVIOUS
<1>3. /\ row.quantity + q >= 0 /\ row.qualification + ql >= 0
      /\ s \in update_staking_reward(m, u, v, pre, pre + q)
  BY <1>1, <1>2 DEF staking_change
<1>4. pre \in Nat /\ pre + q \in Nat
  BY CountedType
<1>5. /\ n \in ValidatorRow /\ KeepsRow(row, n) /\ KeepsWeight(row, n) /\ n.balance = row.balance
      /\ n.quantity = row.quantity + q /\ n.xsat_quantity = row.xsat_quantity + 0
  <2>1. row.quantity + q \in Nat /\ row.qualification + ql \in Nat /\ row.xsat_quantity \in Int
    <3>1. row.quantity \in Nat /\ row.qualification \in Nat /\ row.xsat_quantity \in Int
      BY DEF ValidatorRow
    <3> HIDE DEF row
    <3> QED
      BY <1>3, <3>1
  <2>2. n \in ValidatorRow
    BY <1>1, <2>1 DEF ValidatorRow
  <2>3. KeepsRow(row, n) /\ KeepsWeight(row, n) /\ n.balance = row.balance
    BY <1>1 DEF ValidatorRow, KeepsRow, KeepsWeight
  <2>4. n.quantity = row.quantity + q /\ n.xsat_quantity = row.xsat_quantity + 0
    BY <1>1, <2>1 DEF ValidatorRow
  <2> QED
    BY <2>2, <2>3, <2>4
<1>6. /\ m \in TablesType /\ m.staker = t.staker /\ m.validator[v] = n
      /\ \A w \in Validators : w # v => m.validator[w] = t.validator[w]
      /\ m.stat.total_staking = t.stat.total_staking + q
      /\ m.stat.xsat_total_staking = t.stat.xsat_total_staking + 0
  <2>1. /\ t.validator \in [Validators -> {Unregistered} \cup ValidatorRow]
        /\ t.stat \in [total_staking : Int, xsat_total_staking : Int]
        /\ t.staker \in [Stakers -> [Validators -> StakeRow]]
    BY DEF TablesType
  <2>2. /\ m.validator = [t.validator EXCEPT ![v] = n] /\ m.staker = t.staker
        /\ m.stat = [t.stat EXCEPT !.total_staking = @ + q]
    BY <1>2 DEF TablesType
  <2>3. m = [validator |-> m.validator, staker |-> m.staker, stat |-> m.stat]
    BY <1>2 DEF TablesType
  <2>4. m.validator \in [Validators -> {Unregistered} \cup ValidatorRow]
    BY <1>5, <2>1, <2>2
  <2>5. m.stat \in [total_staking : Int, xsat_total_staking : Int]
        /\ m.stat.total_staking = t.stat.total_staking + q
        /\ m.stat.xsat_total_staking = t.stat.xsat_total_staking + 0
    BY <2>1, <2>2
  <2>6. m \in TablesType
    BY <2>1, <2>2, <2>3, <2>4, <2>5 DEF TablesType
  <2> QED
    BY <2>1, <2>2, <2>5, <2>6
<1>7. /\ s \in TablesType /\ s.validator = m.validator /\ s.stat = m.stat
      /\ \A x \in Stakers, w \in Validators : x # u \/ w # v => s.staker[x][w] = m.staker[x][w]
      /\ s.staker[u][v].quantity = pre + q
      /\ s.staker[u][v].xsat_quantity = m.staker[u][v].xsat_quantity
      /\ \A k \in RewardKinds :
           LET acc == m.validator[v].acc_per_share[k] IN
           /\ s.staker[u][v].debt[k] = Earned(pre + q, acc)
           /\ s.staker[u][v].unclaimed[k]
                = m.staker[u][v].unclaimed[k] + Earned(pre, acc) - m.staker[u][v].debt[k]
  <2>1. m.validator[v] \in ValidatorRow /\ m \in TablesType
    BY <1>5, <1>6
  <2> HIDE DEF pre
  <2> QED
    BY <1>3, <1>4, <2>1, UpdateReward
<1>8. m.validator[v].acc_per_share = row.acc_per_share
  BY <1>5, <1>6 DEF KeepsRow
<1> HIDE DEF pre
<1>9. RewardsSettled(t, s, u, v, pre + q)
  BY <1>6, <1>7, <1>8 DEF RewardsSettled, pre
<1> QED
  BY <1>5, <1>6, <1>7, <1>9 DEF Moved, StakeChanged, pre

\* A registered validator has a row, and a row is of a registered validator.
LEMMA RowOfRegistered ==
  ASSUME NEW t \in TablesType, NEW v \in Validators
  PROVE  t.validator[v].registered <=> t.validator[v] \in ValidatorRow
<1>1. t.validator[v] \in {Unregistered} \cup ValidatorRow
  BY DEF TablesType
<1>2. \A r \in ValidatorRow : r.registered
  BY DEF ValidatorRow
<1>3. ~Unregistered.registered
  BY DEF Unregistered
<1> QED
  BY <1>1, <1>2, <1>3

\* The flag a stake leaves is one.
LEMMA FlagType ==
  /\ \A b \in BOOLEAN : Flag(b) \in {0, 1}
  /\ \A r \in ValidatorRow : r.active_flag \in {0, 1}
  BY DEF Flag, ValidatorRow

\* What the EVM stakes or the custody adds to a stake.
LEMMA EvmStake ==
  ASSUME NEW t \in TablesType, NEW u \in Stakers, NEW v \in Validators,
         NEW q \in Int, NEW ql \in Int, Counted(t, u, v) + q >= 0,
         NEW s \in evm_stake_without_auth(t, u, v, q, ql)
  PROVE  t.validator[v].registered /\ StakeChanged(t, s, u, v, q)
<1> DEFINE row == t.validator[v]
           qualifies == IsDeposit(u) \/ IsCredit(u)
           stake_quantity == IF IsCredit(u) THEN row.qualification + ql
                                            ELSE t.staker[u][v].quantity + q
<1>1. PICK a, f : /\ a = (IF xsat_active /\ ~qualifies THEN 0 ELSE ql)
                  /\ f = (IF qualifies THEN Flag(stake_quantity >= base_stake.btc) ELSE row.active_flag)
  OBVIOUS
<1>2. Open(row, 0) /\ s \in staking_change(t, u, v, q, a, f)
  BY <1>1 DEF evm_stake_without_auth
<1>3. row \in ValidatorRow /\ row.registered
  BY <1>2, RowOfRegistered DEF Open
<1>4. a \in Int /\ f \in {0, 1}
  BY <1>1, <1>3, FlagType DEF Flag
<1> QED
  BY <1>2, <1>3, <1>4, StakingChange

\* What the EVM unstakes or the custody takes from a stake.
LEMMA EvmUnstake ==
  ASSUME NEW t \in TablesType, NEW u \in Stakers, NEW v \in Validators, t.validator[v] \in ValidatorRow,
         NEW q \in Int, NEW ql \in Int, Counted(t, u, v) - q >= 0,
         NEW s \in evm_unstake_without_auth(t, u, v, q, ql)
  PROVE  t.staker[u][v].quantity >= q /\ StakeChanged(t, s, u, v, -q)
<1> DEFINE row == t.validator[v]
           qualifies == IsDeposit(u) \/ IsCredit(u)
           left == t.staker[u][v].quantity - (IF IsCredit(u) THEN ql ELSE q)
<1>1. PICK a, f : /\ a = (IF xsat_active /\ ~qualifies THEN 0 ELSE -ql)
                  /\ f = (IF qualifies THEN Flag(left >= base_stake.btc) ELSE row.active_flag)
  OBVIOUS
<1>2. t.staker[u][v].quantity >= q /\ s \in staking_change(t, u, v, -q, a, f)
  BY <1>1 DEF evm_unstake_without_auth
<1>3. a \in Int /\ f \in {0, 1}
  BY <1>1, FlagType DEF Flag
<1>4. -q \in Int /\ Counted(t, u, v) + (-q) >= 0
  BY CountedType
<1> QED
  BY <1>2, <1>3, <1>4, StakingChange

\* A stake is added to what the staker has with a registered validator.
LEMMA StakedMoves ==
  ASSUME NEW t \in TablesType, NEW u \in Stakers, ~IsCredit(u), NEW v \in Validators,
         NEW q \in Nat, NEW s \in Staked(t, u, v, q)
  PROVE  t.validator[v].registered /\ StakeChanged(t, s, u, v, q)
<1>1. t.validator[v] \in ValidatorRow => Counted(t, u, v) + q >= 0
  BY CountedType
<1>2. CASE u \in NativeStakers
  <2> DEFINE row == t.validator[v]
  <2>1. PICK a, f : a = (IF xsat_active THEN 0 ELSE q) /\ f = row.active_flag
    OBVIOUS
  <2>2. Open(row, 0) /\ s \in staking_change(t, u, v, q, a, f)
    BY <1>2, <2>1 DEF Staked, stake_without_auth
  <2>3. row \in ValidatorRow /\ row.registered
    BY <2>2, RowOfRegistered DEF Open
  <2>4. a \in Int /\ f \in {0, 1}
    BY <2>1, <2>3, FlagType
  <2> QED
    BY <1>1, <2>2, <2>3, <2>4, StakingChange
<1>3. CASE u \notin NativeStakers
  <2>1. s \in evm_stake_without_auth(t, u, v, q, q)
    BY <1>3 DEF Staked
  <2>2. t.validator[v] \in ValidatorRow
    BY <2>1, RowOfRegistered DEF evm_stake_without_auth, Open
  <2> QED
    BY <1>1, <2>1, <2>2, EvmStake
<1> QED
  BY <1>2, <1>3

\* A stake is taken from what the staker has.
LEMMA UnstakedMoves ==
  ASSUME NEW t \in TablesType, NoStrayStake(t), NEW u \in Stakers, ~IsCredit(u), NEW v \in Validators,
         NEW q \in Nat \ {0}, NEW s \in Unstaked(t, u, v, q)
  PROVE  /\ t.validator[v].registered /\ StakeChanged(t, s, u, v, -q)
         /\ t.staker[u][v].quantity >= q
<1> DEFINE row == t.validator[v]
<1>1. t.staker[u][v].quantity >= q
  BY DEF Unstaked, unstake_without_auth, evm_unstake_without_auth
<1>2. row.registered /\ row \in ValidatorRow
  BY <1>1, RowOfRegistered DEF NoStrayStake
<1>3. Counted(t, u, v) + (-q) >= 0 /\ Counted(t, u, v) - q >= 0
  BY <1>1, <1>2, CountedType
<1>4. CASE u \in NativeStakers
  <2>1. PICK a, f : a = (IF xsat_active THEN 0 ELSE -q) /\ f = row.active_flag
    OBVIOUS
  <2>2. s \in staking_change(t, u, v, -q, a, f)
    BY <1>4, <2>1 DEF Unstaked, unstake_without_auth
  <2>3. a \in Int /\ f \in {0, 1} /\ -q \in Int
    BY <1>2, <2>1, FlagType
  <2> QED
    BY <1>1, <1>2, <1>3, <2>2, <2>3, StakingChange
<1>5. CASE u \notin NativeStakers
  <2>1. s \in evm_unstake_without_auth(t, u, v, q, q)
    BY <1>5 DEF Unstaked
  <2> QED
    BY <1>1, <1>2, <1>3, <2>1, EvmUnstake
<1> QED
  BY <1>4, <1>5

\* The parts of the tables.
LEMMA TablesParts ==
  ASSUME NEW t \in TablesType
  PROVE  /\ t.validator \in [Validators -> {Unregistered} \cup ValidatorRow]
         /\ t.stat \in [total_staking : Int, xsat_total_staking : Int]
         /\ t.staker \in [Stakers -> [Validators -> StakeRow]]
  BY DEF TablesType

\* A stake leaves no stake with a validator that is not registered.
LEMMA NoStrayAfterMove ==
  ASSUME NEW t, NoStrayStake(t), NEW s, NEW u \in Stakers, NEW v \in Validators,
         NEW q, NEW x, t.validator[v].registered, Moved(t, s, u, v, q, x)
  PROVE  NoStrayStake(s)
<1> SUFFICES ASSUME NEW w \in Validators, ~s.validator[w].registered, NEW y \in Stakers
             PROVE  s.staker[y][w].quantity = 0 /\ s.staker[y][w].xsat_quantity = 0
  BY DEF NoStrayStake
<1>1. w # v
  BY DEF Moved, KeepsRow
<1>2. s.validator[w] = t.validator[w] /\ s.staker[y][w] = t.staker[y][w]
  BY <1>1 DEF Moved
<1> QED
  BY <1>2 DEF NoStrayStake

\* What a stake of XSAT does to the tables.
XsatChanged(t, s, u, v, q) ==
  /\ Moved(t, s, u, v, 0, q) /\ KeepsWeight(t.validator[v], s.validator[v])
  /\ s.validator[v].balance = t.validator[v].balance
  /\ s.staker[u][v].quantity = t.staker[u][v].quantity
  /\ s.staker[u][v].xsat_quantity = t.staker[u][v].xsat_quantity + q
  /\ s.staker[u][v].debt = t.staker[u][v].debt
  /\ s.staker[u][v].unclaimed = t.staker[u][v].unclaimed

\* Stakes of XSAT are added and taken.
LEMMA XsatChange ==
  ASSUME NEW t \in TablesType, NEW u \in Stakers, NEW v \in Validators, t.validator[v] \in ValidatorRow,
         NEW q \in Int, t.staker[u][v].xsat_quantity + q >= 0
  PROVE  XsatChanged(t, xsat_change(t, u, v, q), u, v, q)
<1> DEFINE row == t.validator[v]
           old == t.staker[u][v]
           now == old.xsat_quantity + q
<1>1. PICK n : n = [row EXCEPT !.xsat_quantity = @ + q, !.active_flag = XsatFlag(u, row, now)]
  OBVIOUS
<1>2. PICK st : st = [old EXCEPT !.xsat_quantity = now]
  OBVIOUS
<1>3. PICK s : s = xsat_change(t, u, v, q)
  OBVIOUS
<1>4. XsatFlag(u, row, now) \in {0, 1}
  BY FlagType DEF XsatFlag, Flag
<1>5. /\ n \in ValidatorRow /\ KeepsRow(row, n) /\ KeepsWeight(row, n) /\ n.balance = row.balance
      /\ n.quantity = row.quantity + 0 /\ n.xsat_quantity = row.xsat_quantity + q
  <2>1. row.xsat_quantity \in Int /\ row.quantity \in Nat
    BY DEF ValidatorRow
  <2>2. row.xsat_quantity + q \in Int
    BY <2>1
  <2>3. n \in ValidatorRow
    BY <1>1, <1>4, <2>2 DEF ValidatorRow
  <2>4. KeepsRow(row, n) /\ KeepsWeight(row, n) /\ n.balance = row.balance
    BY <1>1 DEF ValidatorRow, KeepsRow, KeepsWeight
  <2>5. n.quantity = row.quantity + 0 /\ n.xsat_quantity = row.xsat_quantity + q
    BY <1>1, <2>1 DEF ValidatorRow
  <2> QED
    BY <2>3, <2>4, <2>5
<1>6. /\ st \in StakeRow /\ st.quantity = old.quantity /\ st.xsat_quantity = now
      /\ st.debt = old.debt /\ st.unclaimed = old.unclaimed
  <2>1. old \in StakeRow
    BY TablesParts
  <2> QED
    BY <1>2, <2>1 DEF StakeRow
<1>7. s = [t EXCEPT !.staker[u][v] = st, !.validator[v] = n, !.stat.xsat_total_staking = @ + q]
  BY <1>1, <1>2, <1>3 DEF xsat_change
<1>8. /\ s \in TablesType /\ s.staker[u][v] = st /\ s.validator[v] = n
      /\ \A y \in Stakers, w \in Validators : y # u \/ w # v => s.staker[y][w] = t.staker[y][w]
      /\ \A w \in Validators : w # v => s.validator[w] = t.validator[w]
      /\ s.stat.total_staking = t.stat.total_staking + 0
      /\ s.stat.xsat_total_staking = t.stat.xsat_total_staking + q
  <2>1. /\ s.validator = [t.validator EXCEPT ![v] = n] /\ s.staker = [t.staker EXCEPT ![u][v] = st]
        /\ s.stat = [t.stat EXCEPT !.xsat_total_staking = @ + q]
        /\ s = [validator |-> s.validator, staker |-> s.staker, stat |-> s.stat]
    BY <1>7 DEF TablesType
  <2>2. s.validator \in [Validators -> {Unregistered} \cup ValidatorRow]
    BY <1>5, <2>1, TablesParts
  <2>3. s.stat \in [total_staking : Int, xsat_total_staking : Int]
        /\ s.stat.total_staking = t.stat.total_staking + 0
        /\ s.stat.xsat_total_staking = t.stat.xsat_total_staking + q
    BY <2>1, TablesParts
  <2>4. /\ s.staker \in [Stakers -> [Validators -> StakeRow]] /\ s.staker[u][v] = st
        /\ \A y \in Stakers, w \in Validators : y # u \/ w # v => s.staker[y][w] = t.staker[y][w]
    BY <1>6, <2>1, TablesParts
  <2>5. s \in TablesType
    BY <2>1, <2>2, <2>3, <2>4 DEF TablesType
  <2> QED
    BY <2>1, <2>3, <2>4, <2>5, TablesParts
<1> QED
  BY <1>3, <1>5, <1>6, <1>8 DEF XsatChanged, Moved

\* XSAT is staked with a registered validator.
LEMMA XsatStakedMoves ==
  ASSUME NEW t \in TablesType, NEW u \in Stakers, NEW v \in Validators,
         NEW q \in Nat, NEW s \in XsatStaked(t, u, v, q)
  PROVE  t.validator[v].registered /\ XsatChanged(t, s, u, v, q)
<1>1. t.validator[v].registered /\ s = xsat_change(t, u, v, q)
  BY DEF XsatStaked
<1>2. t.staker[u][v].xsat_quantity \in Nat
  BY TablesParts DEF StakeRow
<1> QED
  BY <1>1, <1>2, RowOfRegistered, XsatChange

\* XSAT is taken from what the staker has.
LEMMA XsatUnstakedMoves ==
  ASSUME NEW t \in TablesType, NoStrayStake(t), NEW u \in Stakers, NEW v \in Validators,
         NEW q \in Nat \ {0}, NEW s \in XsatUnstaked(t, u, v, q)
  PROVE  /\ t.validator[v].registered /\ XsatChanged(t, s, u, v, -q)
         /\ t.staker[u][v].xsat_quantity >= q
<1>1. t.staker[u][v].xsat_quantity >= q /\ s = xsat_change(t, u, v, -q)
  BY DEF XsatUnstaked
<1>2. t.staker[u][v].xsat_quantity \in Nat
  BY TablesParts DEF StakeRow
<1>3. t.validator[v].registered
  BY <1>1, <1>2 DEF NoStrayStake
<1>4. t.staker[u][v].xsat_quantity + (-q) >= 0 /\ -q \in Int
  BY <1>1, <1>2
<1> QED
  BY <1>1, <1>3, <1>4, RowOfRegistered, XsatChange

\* What _creditstake does to the tables: the stake of the custody counts with
\* the weight of the height, and its rewards are settled unless it counts for
\* what it did.
CreditChanged(t, s, u, v, quantity, weight) ==
  /\ Moved(t, s, u, v, Weighted(quantity, weight) - Counted(t, u, v), 0)
  /\ s.validator[v].balance = t.validator[v].balance
  /\ validator_weight(s.validator[v]) = weight
  /\ Counted(s, u, v) = Weighted(quantity, weight)
  /\ s.staker[u][v].quantity = quantity
  /\ s.staker[u][v].xsat_quantity = t.staker[u][v].xsat_quantity
  /\ \/ RewardsSettled(t, s, u, v, Weighted(quantity, weight))
     \/ /\ Weighted(quantity, weight) = Counted(t, u, v)
        /\ s.staker[u][v].debt = t.staker[u][v].debt
        /\ s.staker[u][v].unclaimed = t.staker[u][v].unclaimed

\* The stake of the custody becomes the quantity, at the weight of the height.
LEMMA CreditMoves ==
  ASSUME NEW t \in TablesType, NEW u \in Stakers, IsCredit(u), NEW v \in Validators,
         NEW quantity \in Nat, NEW height \in Nat, base_stake.btc \in Nat,
         get_credit_weight(height) \in 0..RATE_BASE_10000,
         get_credit_weight(height) = 0 => t.staker[u][v].quantity = 0,
         NEW s \in CreditStaked(t, u, v, quantity, height)
  PROVE  /\ t.validator[v].registered /\ get_credit_weight(height) # 0
         /\ CreditChanged(t, s, u, v, quantity, get_credit_weight(height))
<1> DEFINE row == t.validator[v]
           old == t.staker[u][v].quantity
<1>1. PICK weight : weight = get_credit_weight(height)
  OBVIOUS
<1>2. PICK counts : counts = Weighted(quantity, weight)
  OBVIOUS
<1>3. PICK pre : pre = Weighted(old, validator_weight(row))
  OBVIOUS
<1>4. row.registered /\ row \in ValidatorRow
  BY RowOfRegistered DEF CreditStaked
<1>5. RATE_BASE_10000 \in Nat \ {0} /\ weight \in Nat /\ old \in Nat
      /\ (weight = 0 => old = 0) /\ weight \in 0..RATE_BASE_10000
  <2>1. old \in Nat
    BY TablesParts DEF StakeRow
  <2> QED
    BY <1>1, <2>1, EndorseManageAssumption
<1>6. counts \in Nat /\ pre \in Nat /\ pre = Counted(t, u, v)
  <2>1. pre = Counted(t, u, v)
    BY <1>3 DEF Counted
  <2> QED
    BY <1>2, <1>4, <1>5, <2>1, WeightedType, CountedType
<1>7. weight = 0 => counts = 0 /\ pre = 0
  <2>1. ASSUME NEW w \in Nat PROVE Weighted(0, w) = 0 /\ Weighted(w, 0) = 0
    BY <1>5 DEF Weighted
  <2>2. validator_weight(row) \in Nat
    BY <1>4, <1>5, CountedType
  <2> QED
    BY <1>2, <1>3, <1>5, <2>1, <2>2
<1> DEFINE changed ==
      CASE counts - pre > 0 -> evm_stake_without_auth(t, u, v, counts - pre,
                               IF old = 0 THEN base_stake.btc ELSE 0)
        [] counts - pre < 0 -> evm_unstake_without_auth(t, u, v, -(counts - pre),
                               IF quantity = 0 THEN base_stake.btc ELSE 0)
        [] OTHER -> IF weight = 0 THEN {} ELSE {t}
<1>8. PICK c \in changed :
        s = [c EXCEPT !.staker[u][v].quantity = quantity,
                      !.validator[v] = IF weight = validator_weight(row) THEN @
                         ELSE [@ EXCEPT !.credit_weight = weight,
                                        !.credit_weight_block = height]]
  BY <1>1, <1>2, <1>3 DEF CreditStaked
<1>9. /\ Moved(t, c, u, v, counts - pre, 0) /\ KeepsWeight(row, c.validator[v])
      /\ c.validator[v].balance = row.balance
      /\ c.staker[u][v].xsat_quantity = t.staker[u][v].xsat_quantity
      /\ \/ RewardsSettled(t, c, u, v, counts)
         \/ counts = pre /\ c = t
      /\ weight # 0
  <2>1. CASE counts - pre > 0
    <3>1. PICK a : a = (IF old = 0 THEN base_stake.btc ELSE 0)
      OBVIOUS
    <3>2. c \in evm_stake_without_auth(t, u, v, counts - pre, a)
      BY <1>6, <1>8, <2>1, <3>1
    <3>3. a \in Int /\ counts - pre \in Int /\ pre + (counts - pre) = counts /\ counts >= 0 /\ weight # 0
      BY <1>6, <1>7, <2>1, <3>1
    <3>4. StakeChanged(t, c, u, v, counts - pre)
      BY <1>6, <3>2, <3>3, EvmStake
    <3> QED
      BY <1>6, <3>3, <3>4 DEF StakeChanged
  <2>2. CASE counts - pre < 0
    <3>1. PICK a : a = (IF quantity = 0 THEN base_stake.btc ELSE 0)
      OBVIOUS
    <3>2. c \in evm_unstake_without_auth(t, u, v, -(counts - pre), a)
      BY <1>6, <1>8, <2>2, <3>1
    <3>3. /\ a \in Int /\ -(counts - pre) \in Int /\ pre - (-(counts - pre)) = counts /\ counts >= 0
          /\ weight # 0 /\ -(-(counts - pre)) = counts - pre /\ pre + (counts - pre) = counts
      BY <1>6, <1>7, <2>2, <3>1
    <3>4. StakeChanged(t, c, u, v, -(-(counts - pre)))
      BY <1>4, <1>6, <3>2, <3>3, EvmUnstake
    <3>5. StakeChanged(t, c, u, v, counts - pre)
      BY <3>3, <3>4
    <3> QED
      BY <1>6, <3>3, <3>5 DEF StakeChanged
  <2>3. CASE counts - pre = 0
    <3>1. c \in IF weight = 0 THEN {} ELSE {t}
      BY <1>6, <1>8, <2>3
    <3>2. c = t /\ weight # 0 /\ counts - pre = 0 /\ counts = pre
      BY <1>6, <2>3, <3>1
    <3>3. row.quantity + 0 = row.quantity /\ row.xsat_quantity + 0 = row.xsat_quantity
      <4>1. row.quantity \in Nat /\ row.xsat_quantity \in Int
        BY <1>4 DEF ValidatorRow
      <4> HIDE DEF row
      <4> QED
        BY <4>1
    <3>4. t.stat.total_staking + 0 = t.stat.total_staking /\ t.stat.xsat_total_staking + 0 = t.stat.xsat_total_staking
      BY TablesParts
    <3>5. Moved(t, t, u, v, 0, 0)
      BY <1>4, <3>3, <3>4 DEF Moved, KeepsRow
    <3> QED
      BY <1>5, <3>2, <3>5 DEF KeepsWeight
  <2> QED
    BY <1>6, <2>1, <2>2, <2>3
<1>10. PICK n : n = IF weight = validator_weight(row) THEN c.validator[v]
                      ELSE [c.validator[v] EXCEPT !.credit_weight = weight, !.credit_weight_block = height]
  OBVIOUS
<1>11. /\ n \in ValidatorRow /\ KeepsRow(c.validator[v], n) /\ n.balance = c.validator[v].balance
       /\ n.quantity = c.validator[v].quantity /\ n.xsat_quantity = c.validator[v].xsat_quantity
  <2>1. c.validator[v] \in ValidatorRow
    BY <1>9 DEF Moved
  <2>2. CASE weight = validator_weight(row)
    BY <1>10, <2>1, <2>2 DEF KeepsRow
  <2>3. CASE weight # validator_weight(row)
    <3>1. n = [c.validator[v] EXCEPT !.credit_weight = weight, !.credit_weight_block = height]
      BY <1>10, <2>3
    <3>2. n \in ValidatorRow
      BY <1>5, <2>1, <3>1 DEF ValidatorRow
    <3> QED
      BY <2>1, <3>1, <3>2 DEF KeepsRow, ValidatorRow
  <2> QED
    BY <2>2, <2>3
<1>12. validator_weight(n) = weight
  <2>1. CASE weight = validator_weight(row)
    BY <1>9, <1>10, <2>1 DEF KeepsWeight, validator_weight
  <2>2. CASE weight # validator_weight(row)
    <3>1. n.credit_weight = weight
      BY <1>9, <1>10, <2>2 DEF Moved, ValidatorRow
    <3> QED
      BY <1>5, <1>9, <3>1 DEF validator_weight
  <2> QED
    BY <2>1, <2>2
<1>13. PICK st : st = [c.staker[u][v] EXCEPT !.quantity = quantity]
  OBVIOUS
<1>14. /\ st \in StakeRow /\ st.quantity = quantity /\ st.xsat_quantity = c.staker[u][v].xsat_quantity
       /\ st.debt = c.staker[u][v].debt /\ st.unclaimed = c.staker[u][v].unclaimed
  <2>1. c.staker[u][v] \in StakeRow
    BY <1>9, TablesParts DEF Moved
  <2> QED
    BY <1>13, <2>1 DEF StakeRow
<1>15. /\ s.validator = [c.validator EXCEPT ![v] = n] /\ s.staker = [c.staker EXCEPT ![u][v] = st]
       /\ s.stat = c.stat /\ s = [validator |-> s.validator, staker |-> s.staker, stat |-> s.stat]
  <2>1. c \in TablesType
    BY <1>9 DEF Moved
  <2>2. s = [c EXCEPT !.staker[u][v] = st, !.validator[v] = n]
    BY <1>8, <1>10, <1>13
  <2> QED
    BY <2>1, <2>2 DEF TablesType
<1>16. /\ s \in TablesType /\ s.staker[u][v] = st /\ s.validator[v] = n
       /\ \A y \in Stakers, w \in Validators : y # u \/ w # v => s.staker[y][w] = c.staker[y][w]
       /\ \A w \in Validators : w # v => s.validator[w] = c.validator[w]
  <2>1. c \in TablesType
    BY <1>9 DEF Moved
  <2>2. s.validator \in [Validators -> {Unregistered} \cup ValidatorRow]
    BY <1>11, <1>15, <2>1, TablesParts
  <2>3. /\ s.staker \in [Stakers -> [Validators -> StakeRow]] /\ s.staker[u][v] = st
        /\ \A y \in Stakers, w \in Validators : y # u \/ w # v => s.staker[y][w] = c.staker[y][w]
    BY <1>14, <1>15, <2>1, TablesParts
  <2>4. s \in TablesType
    BY <1>15, <2>1, <2>2, <2>3, TablesParts DEF TablesType
  <2> QED
    BY <1>15, <2>1, <2>3, <2>4, TablesParts
<1>17. Moved(t, s, u, v, counts - pre, 0) /\ s.validator[v].balance = row.balance
  BY <1>9, <1>11, <1>15, <1>16 DEF Moved, KeepsRow
<1>18. Counted(s, u, v) = counts
  BY <1>2, <1>12, <1>14, <1>16 DEF Counted
<1>19. RewardsSettled(t, c, u, v, counts) => RewardsSettled(t, s, u, v, counts)
  BY <1>14, <1>16 DEF RewardsSettled
<1>20. s.staker[u][v].debt = c.staker[u][v].debt /\ s.staker[u][v].unclaimed = c.staker[u][v].unclaimed
       /\ s.staker[u][v].xsat_quantity = c.staker[u][v].xsat_quantity /\ s.staker[u][v].quantity = quantity
  BY <1>14, <1>16
<1>21. \/ RewardsSettled(t, s, u, v, counts)
       \/ /\ counts = pre /\ s.staker[u][v].debt = t.staker[u][v].debt
          /\ s.staker[u][v].unclaimed = t.staker[u][v].unclaimed
  BY <1>9, <1>19, <1>20
<1>22. CreditChanged(t, s, u, v, quantity, weight)
  BY <1>2, <1>6, <1>9, <1>12, <1>16, <1>17, <1>18, <1>20, <1>21 DEF CreditChanged
<1> QED
  BY <1>1, <1>4, <1>9, <1>22

-----------------------------------------------------------------------------
(* The actions of EndorseManage. *)

\* A call leaves one of its outcomes.
LEMMA CallLeaves ==
  ASSUME NEW outcomes, Call(outcomes), \A t \in outcomes : t \in TablesType
  PROVE  /\ \E t \in outcomes : Tables' = t
         /\ UNCHANGED <<credit_config, base_stake, chainVars>>
<1>1. PICK t \in outcomes : Become(t)
  BY DEF Call
<1>2. t = [validator |-> t.validator, staker |-> t.staker, stat |-> t.stat]
  BY DEF TablesType
<1>3. Tables' = t
  BY <1>1, <1>2 DEF Become, Tables
<1> QED
  BY <1>3 DEF Call

\* The weight of a height is none only before the first is set.
LEMMA WeightOfHeight ==
  ASSUME CreditWeightsOK, NEW height \in Nat
  PROVE  /\ get_credit_weight(height) \in 0..RATE_BASE_10000
         /\ get_credit_weight(height) = 0 => credit_config.next_credit_weight = 0
  BY EndorseManageAssumption DEF CreditWeightsOK, get_credit_weight

\* The weights stay as they are and credit is kept, or there are weights.
LEMMA TypesAfterCall ==
  ASSUME EndorseManageTypeOK, Tables' \in TablesType, NoStrayStake(Tables)',
         UNCHANGED <<credit_config, base_stake, chainVars>>,
         \/ credit_config.next_credit_weight # 0
         \/ \A u \in EvmStakers, v \in Validators :
              IsCredit(u) => Tables'.staker[u][v].quantity = Tables.staker[u][v].quantity
  PROVE  EndorseManageTypeOK'
<1>1. CreditWeightsOK'
  BY DEF EndorseManageTypeOK, CreditWeightsOK, Tables
<1> QED
  BY <1>1 DEF EndorseManageTypeOK, chainVars

\* What is held for the stakers of a validator, and what their shares have earned
\* more is not more than what is held more.
Left(r, k) == r.balance[k] - r.unclaimed[k]
Funded(r, n) ==
  \A k \in RewardKinds :
    RATE_BASE * (Left(n, k) - Left(r, k)) >= r.quantity * (n.acc_per_share[k] - r.acc_per_share[k])

\* No validator's stakes change, nor its registration and its credit weight, and
\* what it has earned per share only grows, with the funds for it.
Follows(r, n) ==
  /\ n.registered = r.registered
  /\ r.registered =>
       /\ n.quantity = r.quantity /\ n.xsat_quantity = r.xsat_quantity
       /\ n.credit_weight = r.credit_weight
       /\ \A k \in RewardKinds : n.acc_per_share[k] >= r.acc_per_share[k]
       /\ Funded(r, n)

\* Only rows of validators change, and each follows.
RowsFollow(t, s) ==
  /\ s \in TablesType /\ s.staker = t.staker /\ s.stat = t.stat
  /\ \A v \in Validators : Follows(t.validator[v], s.validator[v])

\* A row that earns nothing needs no funds.
LEMMA FundsStay ==
  ASSUME NEW r \in ValidatorRow, NEW n, n.acc_per_share = r.acc_per_share,
         \A k \in RewardKinds : Left(n, k) = Left(r, k)
  PROVE  Funded(r, n)
<1>1. SUFFICES ASSUME NEW k \in RewardKinds
               PROVE  RATE_BASE * (Left(n, k) - Left(r, k))
                        >= r.quantity * (n.acc_per_share[k] - r.acc_per_share[k])
  BY DEF Funded
<1>2. PICK a, q \in Nat, b \in Int : a = r.acc_per_share[k] /\ q = r.quantity /\ b = Left(r, k)
  <2>1. /\ r.acc_per_share[k] \in Nat /\ r.quantity \in Nat
        /\ r.balance[k] \in Int /\ r.unclaimed[k] \in Nat
    BY DEF ValidatorRow, RewardType
  <2>2. \A x \in Int, y \in Nat : x - y \in Int
    OBVIOUS
  <2>3. Left(r, k) \in Int
    BY <2>1, <2>2 DEF Left
  <2> QED
    BY <2>1, <2>3
<1>3. n.acc_per_share[k] = a /\ Left(n, k) = b
  BY <1>2
<1>4. RATE_BASE * (b - b) >= q * (a - a)
  BY <1>2, EndorseManageAssumption
<1> QED
  BY <1>2, <1>3, <1>4

\* A row that stays follows itself.
LEMMA FollowsSelf ==
  ASSUME NEW t \in TablesType, NEW v \in Validators
  PROVE  Follows(t.validator[v], t.validator[v])
<1>1. CASE t.validator[v].registered
  <2>1. t.validator[v].acc_per_share \in RewardType
    BY <1>1, RowOfRegistered DEF ValidatorRow
  <2>2. \A k \in RewardKinds : t.validator[v].acc_per_share[k] >= t.validator[v].acc_per_share[k]
    BY <2>1 DEF RewardType
  <2>3. Funded(t.validator[v], t.validator[v])
    BY <1>1, RowOfRegistered, FundsStay
  <2> QED
    BY <2>2, <2>3 DEF Follows
<1>2. CASE ~t.validator[v].registered
  BY <1>2 DEF Follows
<1> QED
  BY <1>1, <1>2

\* The tables with another row of a validator.
LEMMA RowChanged ==
  ASSUME NEW t \in TablesType, NEW v \in Validators, NEW n \in ValidatorRow
  PROVE  LET s == [t EXCEPT !.validator[v] = n] IN
         /\ s \in TablesType /\ s.staker = t.staker /\ s.stat = t.stat
         /\ s.validator[v] = n
         /\ \A w \in Validators : w # v => s.validator[w] = t.validator[w]
         /\ Follows(t.validator[v], n) => RowsFollow(t, s)
<1>1. PICK s : s = [t EXCEPT !.validator[v] = n]
  OBVIOUS
<1>2. /\ s.validator = [t.validator EXCEPT ![v] = n] /\ s.staker = t.staker /\ s.stat = t.stat
      /\ s = [validator |-> s.validator, staker |-> s.staker, stat |-> s.stat]
  BY <1>1 DEF TablesType
<1>3. s.validator \in [Validators -> {Unregistered} \cup ValidatorRow]
  BY <1>2, TablesParts
<1>4. s \in TablesType
  BY <1>2, <1>3, TablesParts DEF TablesType
<1>5. s.validator[v] = n /\ \A w \in Validators : w # v => s.validator[w] = t.validator[w]
  BY <1>2, TablesParts
<1>6. Follows(t.validator[v], n) => RowsFollow(t, s)
  BY <1>2, <1>4, <1>5, FollowsSelf DEF RowsFollow
<1> QED
  BY <1>1, <1>2, <1>4, <1>5, <1>6

\* Where only rows of validators change and each follows, the types are kept.
LEMMA TypesAfterRows ==
  ASSUME EndorseManageTypeOK, RowsFollow(Tables, Tables'),
         UNCHANGED <<credit_config, base_stake, chainVars>>
  PROVE  EndorseManageTypeOK'
<1>1. Tables' \in TablesType /\ NoStrayStake(Tables)'
  BY DEF RowsFollow, Follows, EndorseManageTypeOK, NoStrayStake
<1>2. \A u \in EvmStakers, v \in Validators : Tables'.staker[u][v].quantity = Tables.staker[u][v].quantity
  BY DEF RowsFollow
<1> QED
  BY <1>1, <1>2, TypesAfterCall

\* evmconfigvald and setstatus.
LEMMA ConfigFollows ==
  ASSUME EndorseManageTypeOK, NEW v \in Validators,
         \/ \E c \in Commissions : evmconfigvald(v, c)
         \/ \E d \in BOOLEAN : setstatus(v, d)
  PROVE  RowsFollow(Tables, Tables') /\ UNCHANGED <<credit_config, base_stake, chainVars>>
<1> DEFINE row == Tables.validator[v]
<1>1. Tables \in TablesType
  BY DEF EndorseManageTypeOK
<1>2. row \in ValidatorRow /\ row.registered
  <2>1. row.registered
    BY DEF evmconfigvald, setstatus, Registered, Tables
  <2> QED
    BY <1>1, <2>1, RowOfRegistered
<1>3. ASSUME NEW n \in ValidatorRow, Follows(row, n), Call({[Tables EXCEPT !.validator[v] = n]})
      PROVE  RowsFollow(Tables, Tables') /\ UNCHANGED <<credit_config, base_stake, chainVars>>
  BY <1>1, <1>3, RowChanged, CallLeaves
<1>4. ASSUME NEW c \in Commissions, evmconfigvald(v, c)
      PROVE  RowsFollow(Tables, Tables') /\ UNCHANGED <<credit_config, base_stake, chainVars>>
  <2>1. PICK n : n = [row EXCEPT !.commission_rate = c]
    OBVIOUS
  <2>2. n \in ValidatorRow
    BY <1>2, <2>1, EndorseManageAssumption DEF ValidatorRow
  <2>3. Follows(row, n)
    <3>1. n.acc_per_share = row.acc_per_share /\ n.balance = row.balance /\ n.unclaimed = row.unclaimed
      BY <1>2, <2>1 DEF ValidatorRow
    <3>2. Funded(row, n)
      BY <1>2, <2>1, <3>1, FundsStay DEF Left
    <3> QED
      BY <1>1, <1>2, <2>1, <3>2, FollowsSelf DEF Follows, ValidatorRow
  <2>4. Call({[Tables EXCEPT !.validator[v] = n]})
    BY <1>4, <2>1 DEF evmconfigvald
  <2> QED
    BY <1>3, <2>2, <2>3, <2>4
<1>5. ASSUME NEW d \in BOOLEAN, setstatus(v, d)
      PROVE  RowsFollow(Tables, Tables') /\ UNCHANGED <<credit_config, base_stake, chainVars>>
  <2>1. PICK n : n = [row EXCEPT !.disabled_staking = d]
    OBVIOUS
  <2>2. n \in ValidatorRow
    BY <1>2, <2>1 DEF ValidatorRow
  <2>3. Follows(row, n)
    <3>1. n.acc_per_share = row.acc_per_share /\ n.balance = row.balance /\ n.unclaimed = row.unclaimed
      BY <1>2, <2>1 DEF ValidatorRow
    <3>2. Funded(row, n)
      BY <1>2, <2>1, <3>1, FundsStay DEF Left
    <3> QED
      BY <1>1, <1>2, <2>1, <3>2, FollowsSelf DEF Follows, ValidatorRow
  <2>4. Call({[Tables EXCEPT !.validator[v] = n]})
    BY <1>5, <2>1 DEF setstatus
  <2> QED
    BY <1>3, <2>2, <2>3, <2>4
<1> QED
  BY <1>4, <1>5

\* Only the row of v changes.
OneRow(t, s, v) ==
  /\ s \in TablesType /\ s.staker = t.staker /\ s.stat = t.stat
  /\ \A w \in Validators : w # v => s.validator[w] = t.validator[w]

\* Where only the row of a validator changes, which stays registered, the types
\* are kept.
LEMMA TypesAfterRow ==
  ASSUME EndorseManageTypeOK, NEW v \in Validators, OneRow(Tables, Tables', v),
         Tables'.validator[v].registered,
         UNCHANGED <<credit_config, base_stake, chainVars>>
  PROVE  EndorseManageTypeOK'
<1>1. NoStrayStake(Tables)'
  BY DEF OneRow, EndorseManageTypeOK, NoStrayStake
<1>2. \A u \in EvmStakers, w \in Validators : Tables'.staker[u][w].quantity = Tables.staker[u][w].quantity
  BY DEF OneRow
<1> QED
  BY <1>1, <1>2, TypesAfterCall DEF OneRow

\* The call that gives a validator another row.
LEMMA CallRow ==
  ASSUME EndorseManageTypeOK, NEW v \in Validators, NEW n \in ValidatorRow,
         Call({[Tables EXCEPT !.validator[v] = n]})
  PROVE  /\ OneRow(Tables, Tables', v) /\ Tables'.validator[v] = n
         /\ UNCHANGED <<credit_config, base_stake, chainVars>>
         /\ EndorseManageTypeOK'
<1>1. Tables \in TablesType
  BY DEF EndorseManageTypeOK
<1>2. /\ OneRow(Tables, Tables', v) /\ Tables'.validator[v] = n
      /\ UNCHANGED <<credit_config, base_stake, chainVars>>
  <2>1. PICK s : s = [Tables EXCEPT !.validator[v] = n]
    OBVIOUS
  <2>2. /\ s \in TablesType /\ s.staker = Tables.staker /\ s.stat = Tables.stat /\ s.validator[v] = n
        /\ \A w \in Validators : w # v => s.validator[w] = Tables.validator[w]
    BY <1>1, <2>1, RowChanged
  <2>3. Tables' = s /\ UNCHANGED <<credit_config, base_stake, chainVars>>
    <3>1. Call({s}) /\ \A x \in {s} : x \in TablesType
      BY <2>1, <2>2
    <3> QED
      BY <3>1, CallLeaves
  <2> QED
    BY <2>2, <2>3 DEF OneRow
<1>3. n.registered
  BY DEF ValidatorRow
<1> QED
  BY <1>2, <1>3, TypesAfterRow

\* A total of naturals is a natural.
LEMMA TotalType ==
  ASSUME NEW S, IsFiniteSet(S), NEW f, DOMAIN f = S, \A x \in S : f[x] \in Nat
  PROVE  Total(f) \in Nat /\ \A x \in S : f[x] <= Total(f)
  BY SumBound DEF Total, SumFunction

\* The finite sets that are summed over.
LEMMA StakersFinite ==
  IsFiniteSet(Stakers) /\ IsFiniteSet(EvmStakers) /\ IsFiniteSet(Validators) /\ IsFiniteSet(Registered)
<1>1. IsFiniteSet(Stakers) /\ IsFiniteSet(EvmStakers) /\ IsFiniteSet(Validators)
  BY EndorseManageAssumption, FS_Union DEF Stakers
<1> QED
  BY <1>1, FS_Subset DEF Registered

\* newregvldtor.
LEMMA NewRow ==
  ASSUME EndorseManageTypeOK, NEW v \in Validators, NEW role \in {0, 1}, NEW a \in Addresses,
         NEW c \in Commissions, newregvldtor(v, role, a, c)
  PROVE  /\ ~Tables.validator[v].registered
         /\ OneRow(Tables, Tables', v) /\ Tables'.validator[v] \in ValidatorRow
         /\ Tables'.validator[v].quantity = 0 /\ Tables'.validator[v].xsat_quantity = 0
         /\ Tables'.validator[v].acc_per_share = NoReward
         /\ Tables'.validator[v].balance = NoReward /\ Tables'.validator[v].unclaimed = NoReward
         /\ UNCHANGED <<credit_config, base_stake, chainVars>>
         /\ EndorseManageTypeOK'
<1>1. PICK rate : rate = (IF role = 0 THEN c ELSE 0)
  OBVIOUS
<1>2. rate \in 0..RATE_BASE_10000 /\ RATE_BASE_10000 \in Nat
  BY <1>1, EndorseManageAssumption
<1>3. PICK n : n = NewValidator(role, a, rate)
  OBVIOUS
<1>4. NoReward \in RewardType /\ NoReward \in [RewardKinds -> Int]
  BY DEF NoReward, RewardType
<1>5. /\ n \in ValidatorRow /\ n.quantity = 0 /\ n.xsat_quantity = 0 /\ n.acc_per_share = NoReward
      /\ n.balance = NoReward /\ n.unclaimed = NoReward
  BY <1>2, <1>3, <1>4 DEF NewValidator, ValidatorRow
<1>6. Call({[Tables EXCEPT !.validator[v] = n]}) /\ ~Tables.validator[v].registered
  BY <1>1, <1>3 DEF newregvldtor, Tables
<1> QED
  BY <1>5, <1>6, CallRow

\* vdrclaim.
LEMMA VdrClaimFollows ==
  ASSUME EndorseManageTypeOK, NEW v \in Validators, vdrclaim(v)
  PROVE  RowsFollow(Tables, Tables') /\ UNCHANGED <<credit_config, base_stake, chainVars>>
<1> DEFINE row == Tables.validator[v]
<1>1. Tables \in TablesType
  BY DEF EndorseManageTypeOK
<1>2. row \in ValidatorRow /\ row.registered
  <2>1. row.registered
    BY DEF vdrclaim, Registered, Tables
  <2> QED
    BY <1>1, <2>1, RowOfRegistered
<1>3. PICK left : left = TakeFrom(row.balance, row.unclaimed)
  OBVIOUS
<1>4. left \in [RewardKinds -> Int] /\ NoReward \in RewardType
  <2>1. row.balance \in [RewardKinds -> Int] /\ row.unclaimed \in RewardType
    BY <1>2 DEF ValidatorRow
  <2> QED
    BY <1>3, <2>1 DEF TakeFrom, RewardType, NoReward
<1>5. PICK n : n = [row EXCEPT !.unclaimed = NoReward, !.balance = left]
  OBVIOUS
<1>6. n \in ValidatorRow
  BY <1>2, <1>4, <1>5 DEF ValidatorRow
<1>7. Follows(row, n)
  <2>1. /\ n.acc_per_share = row.acc_per_share /\ n.balance = left /\ n.unclaimed = NoReward
        /\ row.balance \in [RewardKinds -> Int] /\ row.unclaimed \in RewardType
    BY <1>2, <1>5 DEF ValidatorRow
  <2>2. ASSUME NEW k \in RewardKinds PROVE Left(n, k) = Left(row, k)
    <3>1. PICK b \in Int, c \in Nat : b = row.balance[k] /\ c = row.unclaimed[k]
      BY <2>1 DEF RewardType
    <3>2. left[k] = b - c /\ NoReward[k] = 0
      BY <1>3, <3>1 DEF TakeFrom, NoReward
    <3>3. Left(n, k) = (b - c) - 0 /\ Left(row, k) = b - c
      BY <2>1, <3>1, <3>2 DEF Left
    <3> QED
      BY <3>1, <3>3
  <2>3. Funded(row, n)
    BY <1>2, <2>1, <2>2, FundsStay
  <2> QED
    BY <1>1, <1>2, <1>5, <2>3, FollowsSelf DEF Follows, ValidatorRow
<1>8. Call({[Tables EXCEPT !.validator[v] = n]})
  <2>1. row = validator[v]
    BY DEF Tables
  <2> QED
    BY <1>3, <1>5, <2>1 DEF vdrclaim
<1> QED
  BY <1>1, <1>6, <1>7, <1>8, RowChanged, CallLeaves

\* The deposits of an address.
LEMMA QualificationType ==
  ASSUME EndorseManageTypeOK, NEW v \in Validators, NEW a
  PROVE  /\ get_qualification(v, a) \in Nat
         /\ validator[v].role = 1 /\ (\A u \in Stakers : staker[u][v].xsat_quantity = 0) =>
              get_qualification(v, a) = 0
<1> DEFINE X == {u \in EvmStakers : u.address = a /\ IsXsatDeposit(u)}
           B == {u \in EvmStakers : u.address = a /\ IsDeposit(u)}
           x == [u \in X |-> staker[u][v].xsat_quantity]
           b == [u \in B |-> staker[u][v].quantity]
<1>1. IsFiniteSet(X) /\ IsFiniteSet(B)
  BY StakersFinite, FS_Subset
<1>2. (\A u \in X : x[u] \in Nat) /\ (\A u \in B : b[u] \in Nat)
  <2>1. \A u \in EvmStakers : staker[u][v].quantity \in Nat /\ staker[u][v].xsat_quantity \in Nat
    BY TablesParts DEF EndorseManageTypeOK, Tables, StakeRow, Stakers
  <2> QED
    BY <2>1
<1>3. Total(x) \in Nat /\ Total(b) \in Nat
  BY <1>1, <1>2, TotalType
<1>4. get_qualification(v, a) = IF validator[v].role = 1 THEN Total(x) ELSE Total(b)
  BY DEF get_qualification
<1>5. ASSUME \A u \in Stakers : staker[u][v].xsat_quantity = 0 PROVE Total(x) = 0
  <2>1. \A u \in X : x[u] = 0
    BY <1>5 DEF Stakers
  <2>2. SumFunctionOnSet(x, X) = 0 * Cardinality(X)
    BY <1>1, <2>1, SumConstant
  <2>3. Cardinality(X) \in Nat
    BY <1>1, FS_CardinalityType
  <2> QED
    BY <2>2, <2>3 DEF Total, SumFunction
<1> HIDE DEF x, b
<1> QED
  BY <1>3, <1>4, <1>5

\* evmsetstaker.
LEMMA SetStakerRow ==
  ASSUME EndorseManageTypeOK, NEW v \in Validators, NEW a \in Addresses, evmsetstaker(v, a)
  PROVE  LET row == Tables.validator[v]
             n == Tables'.validator[v] IN
         /\ OneRow(Tables, Tables', v) /\ row.registered /\ n.registered
         /\ n.quantity = row.quantity /\ n.credit_weight = row.credit_weight
         /\ n.acc_per_share = row.acc_per_share
         /\ n.balance = row.balance /\ n.unclaimed = row.unclaimed
         /\ \/ n.xsat_quantity = row.xsat_quantity
            \/ /\ row.role = 1 /\ row.xsat_quantity = 0
               /\ n.xsat_quantity = get_qualification(v, a)
         /\ UNCHANGED <<credit_config, base_stake, chainVars>>
         /\ EndorseManageTypeOK'
<1> DEFINE row == Tables.validator[v]
<1>1. Tables \in TablesType /\ row = validator[v]
  BY DEF EndorseManageTypeOK, Tables
<1>2. row \in ValidatorRow /\ row.registered
  <2>1. row.registered
    BY DEF evmsetstaker, Registered, Tables
  <2> QED
    BY <1>1, <2>1, RowOfRegistered
<1>3. PICK q \in Nat : q = get_qualification(v, a)
  BY QualificationType
<1>4. PICK f : f = (IF row.role = 1 THEN Flag(q >= base_stake.xsat) ELSE Flag(q >= base_stake.btc))
  OBVIOUS
<1>5. f \in {0, 1}
  BY <1>4 DEF Flag
<1>6. PICK n : n = IF row.role = 1 THEN [row EXCEPT !.stake_address = a, !.xsat_quantity = q, !.active_flag = f]
                                   ELSE [row EXCEPT !.stake_address = a, !.qualification = q, !.active_flag = f]
  OBVIOUS
<1>7. n \in ValidatorRow
  <2>1. CASE row.role = 1
    <3>1. n = [row EXCEPT !.stake_address = a, !.xsat_quantity = q, !.active_flag = f] /\ q \in Int
      BY <1>6, <2>1
    <3> QED
      BY <1>2, <1>5, <3>1 DEF ValidatorRow
  <2>2. CASE row.role # 1
    BY <1>2, <1>3, <1>5, <1>6, <2>2 DEF ValidatorRow
  <2> QED
    BY <2>1, <2>2
<1>8. /\ n.quantity = row.quantity /\ n.credit_weight = row.credit_weight
      /\ n.acc_per_share = row.acc_per_share /\ n.registered
      /\ n.balance = row.balance /\ n.unclaimed = row.unclaimed
      /\ n.xsat_quantity = IF row.role = 1 THEN q ELSE row.xsat_quantity
  BY <1>2, <1>6 DEF ValidatorRow
<1>9. /\ Call({[Tables EXCEPT !.validator[v] = n]})
      /\ row.role = 1 => row.xsat_quantity = 0
  BY <1>1, <1>3, <1>4, <1>6 DEF evmsetstaker
<1> QED
  BY <1>2, <1>3, <1>7, <1>8, <1>9, CallRow

\* updcreditstk.
LEMMA UpdCreditRow ==
  ASSUME EndorseManageTypeOK, NEW v \in Validators, NEW is_close \in BOOLEAN, updcreditstk(v, is_close)
  PROVE  LET row == Tables.validator[v]
             n == Tables'.validator[v] IN
         /\ OneRow(Tables, Tables', v) /\ row.registered /\ n.registered
         /\ n.xsat_quantity = row.xsat_quantity /\ n.credit_weight = row.credit_weight
         /\ n.acc_per_share = row.acc_per_share
         /\ n.balance = row.balance /\ n.unclaimed = row.unclaimed
         /\ n.quantity = Total([u \in EvmStakers |-> Counted(Tables, u, v)])
         /\ UNCHANGED <<credit_config, base_stake, chainVars>>
         /\ EndorseManageTypeOK'
<1> DEFINE row == Tables.validator[v]
           deposit == {u \in EvmStakers : u.address = validator[v].stake_address /\ IsDeposit(u)}
           S == IF is_close THEN deposit ELSE EvmStakers
           g == [u \in EvmStakers |-> Counted(Tables, u, v)]
           b == [u \in S |-> staker[u][v].quantity]
<1>1. Tables \in TablesType /\ row = validator[v]
  BY DEF EndorseManageTypeOK, Tables
<1>2. row \in ValidatorRow /\ row.registered
  <2>1. row.registered
    BY DEF updcreditstk, Registered, Tables
  <2> QED
    BY <1>1, <2>1, RowOfRegistered
<1>3. PICK q \in Nat : q = Total(b)
  <2>1. IsFiniteSet(S) /\ S \subseteq EvmStakers
    BY StakersFinite, FS_Subset
  <2>2. \A u \in EvmStakers : staker[u][v].quantity \in Nat
    BY <1>1, TablesParts DEF Tables, StakeRow, Stakers
  <2>3. \A u \in S : b[u] \in Nat
    BY <2>1, <2>2
  <2> QED
    BY <2>1, <2>3, TotalType
<1>4. PICK c \in Nat : c = Total(g)
  <2>1. \A u \in EvmStakers : g[u] \in Nat
    BY <1>1, <1>2, CountedType DEF Stakers
  <2> QED
    BY <2>1, StakersFinite, TotalType
<1>5. PICK f : f = Flag(q >= base_stake.btc)
  OBVIOUS
<1>6. f \in {0, 1}
  BY <1>5 DEF Flag
<1>7. PICK n : n = [row EXCEPT !.quantity = c, !.qualification = q, !.active_flag = f]
  OBVIOUS
<1>8. n \in ValidatorRow
  BY <1>2, <1>3, <1>4, <1>6, <1>7 DEF ValidatorRow
<1>9. /\ n.xsat_quantity = row.xsat_quantity /\ n.credit_weight = row.credit_weight
      /\ n.acc_per_share = row.acc_per_share /\ n.registered /\ n.quantity = c
      /\ n.balance = row.balance /\ n.unclaimed = row.unclaimed
  BY <1>2, <1>7 DEF ValidatorRow
<1>10. Call({[Tables EXCEPT !.validator[v] = n]})
  BY <1>1, <1>3, <1>4, <1>5, <1>7 DEF updcreditstk
<1> QED
  BY <1>2, <1>4, <1>8, <1>9, <1>10, CallRow

\* A reward is divided by the stakes, and what they earned per share only grows.
LEMMA RewardedFollows ==
  ASSUME NEW row \in ValidatorRow, NEW height \in Nat, NEW rewards \in RewardType
  PROVE  Rewarded(row, height, rewards) \in ValidatorRow /\ Follows(row, Rewarded(row, height, rewards))
<1> DEFINE commission == [k \in RewardKinds |->
             IF row.quantity > 0 THEN (rewards[k] * row.commission_rate) \div RATE_BASE_10000 ELSE rewards[k]]
           part(k) == ((rewards[k] - commission[k]) * RATE_BASE) \div row.quantity
           acc == [k \in RewardKinds |-> IF row.quantity > 0
                     THEN row.acc_per_share[k] + part(k) ELSE row.acc_per_share[k]]
           own == [k \in RewardKinds |-> row.unclaimed[k] + commission[k]]
           balance == [k \in RewardKinds |-> row.balance[k] + rewards[k]]
<1>1. /\ row.quantity \in Nat /\ row.commission_rate \in 0..RATE_BASE_10000
      /\ row.acc_per_share \in RewardType /\ row.unclaimed \in RewardType
      /\ row.balance \in [RewardKinds -> Int] /\ row.registered
  BY DEF ValidatorRow
<1>2. RATE_BASE \in Nat \ {0} /\ RATE_BASE_10000 \in Nat \ {0}
  BY EndorseManageAssumption
<1>3. ASSUME NEW k \in RewardKinds
      PROVE  commission[k] \in Nat /\ commission[k] <= rewards[k] /\ rewards[k] \in Nat
  <2>1. rewards[k] \in Nat
    BY DEF RewardType
  <2>2. CASE ~(row.quantity > 0)
    BY <2>1, <2>2
  <2>3. CASE row.quantity > 0
    <3>1. PICK r \in Nat, c \in Nat : r = rewards[k] /\ c = row.commission_rate /\ c <= RATE_BASE_10000
      BY <1>1, <1>2, <2>1
    <3>2. r * c \in Nat /\ r * RATE_BASE_10000 \in Nat /\ r * c <= r * RATE_BASE_10000
      BY <1>2, <3>1
    <3>3. (r * RATE_BASE_10000) \div RATE_BASE_10000 = r
      BY <1>2, <3>1, Z3
    <3>4. (r * c) \div RATE_BASE_10000 \in Nat
          /\ (r * c) \div RATE_BASE_10000 <= (r * RATE_BASE_10000) \div RATE_BASE_10000
      BY <1>2, <3>2, Quotient
    <3>5. commission[k] = (r * c) \div RATE_BASE_10000
      BY <2>3, <3>1
    <3> QED
      BY <3>1, <3>3, <3>4, <3>5
  <2> QED
    BY <2>2, <2>3
<1>4. ASSUME NEW k \in RewardKinds, row.quantity > 0 PROVE part(k) \in Nat
  <2>1. PICK n \in Nat : n = (rewards[k] - commission[k]) * RATE_BASE
    <3>1. PICK d \in Nat : d = rewards[k] - commission[k]
      BY <1>3
    <3> HIDE DEF commission
    <3> QED
      BY <1>2, <3>1
  <2>2. n \div row.quantity \in Nat
    BY <1>1, <1>4, Quotient
  <2> HIDE DEF commission
  <2> QED
    BY <2>1, <2>2
<1> HIDE DEF part, commission
<1>5. acc \in RewardType /\ \A k \in RewardKinds : acc[k] >= row.acc_per_share[k]
  BY <1>1, <1>4 DEF RewardType
<1>6. own \in RewardType /\ balance \in [RewardKinds -> Int]
  BY <1>1, <1>3 DEF RewardType
<1>7. PICK n : n = [row EXCEPT !.acc_per_share = acc, !.unclaimed = own, !.balance = balance,
                               !.latest_reward_block = height]
  OBVIOUS
<1>8. n = Rewarded(row, height, rewards)
  BY <1>7 DEF Rewarded, part, commission
<1> HIDE DEF acc, own, balance
<1>9. n \in ValidatorRow
  BY <1>5, <1>6, <1>7 DEF ValidatorRow
<1>10. Funded(row, n)
  <2>1. SUFFICES ASSUME NEW k \in RewardKinds
                 PROVE  RATE_BASE * (Left(n, k) - Left(row, k))
                          >= row.quantity * (n.acc_per_share[k] - row.acc_per_share[k])
    BY DEF Funded
  <2>2. PICK b, a, w, c, r, q : /\ b = row.balance[k] /\ a = row.acc_per_share[k] /\ w = row.unclaimed[k]
                                /\ c = commission[k] /\ r = rewards[k] /\ q = row.quantity
    OBVIOUS
  <2>3. b \in Int /\ a \in Nat /\ w \in Nat /\ c \in Nat /\ r \in Nat /\ q \in Nat /\ c <= r
    BY <1>1, <1>3, <2>2 DEF RewardType
  <2>4. n.balance[k] = b + r /\ n.unclaimed[k] = w + c
        /\ n.acc_per_share[k] = IF q > 0 THEN a + part(k) ELSE a
    BY <1>7, <1>9, <2>2 DEF ValidatorRow, acc, own, balance
  <2>5. Left(n, k) - Left(row, k) = r - c
    <3>1. Left(n, k) = (b + r) - (w + c) /\ Left(row, k) = b - w
      BY <2>2, <2>4 DEF Left
    <3> QED
      BY <2>3, <3>1
  <2>6. CASE q > 0
    <3>1. PICK x \in Nat : x = (r - c) * RATE_BASE
      <4>1. PICK d \in Nat : d = r - c
        BY <2>3
      <4> QED
        BY <1>2, <4>1
    <3>2. part(k) = x \div q
      BY <2>2, <3>1 DEF part
    <3>3. x \div q \in Nat /\ q * (x \div q) <= x
      BY <2>3, <2>6, Quotient
    <3>4. n.acc_per_share[k] - a = x \div q
      BY <2>3, <2>4, <2>6, <3>2, <3>3
    <3>5. RATE_BASE * (r - c) = x
      BY <1>2, <2>3, <3>1
    <3> QED
      BY <2>2, <2>5, <3>1, <3>3, <3>4, <3>5
  <2>7. CASE ~(q > 0)
    <3>1. q = 0 /\ n.acc_per_share[k] - a = 0
      BY <2>3, <2>4, <2>7
    <3>2. RATE_BASE * (r - c) >= 0
      <4>1. PICK d \in Nat : d = r - c
        BY <2>3
      <4> QED
        BY <1>2, <4>1
    <3> QED
      BY <2>2, <2>5, <3>1, <3>2
  <2> QED
    BY <2>6, <2>7
<1>11. Follows(row, n)
  BY <1>5, <1>7, <1>10 DEF Follows, ValidatorRow
<1> QED
  BY <1>8, <1>9, <1>11

\* distribute.
LEMMA DistributeFollows ==
  ASSUME EndorseManageTypeOK, NEW height \in Nat, NEW P \in SUBSET Validators,
         NEW rewards \in [P -> Rewards], distribute(height, rewards)
  PROVE  RowsFollow(Tables, Tables') /\ UNCHANGED <<credit_config, base_stake, chainVars>>
<1> DEFINE paid == {v \in DOMAIN rewards : Claimable(rewards[v]) > 0}
<1>1. Tables \in TablesType /\ Tables.validator = validator
  BY DEF EndorseManageTypeOK, Tables
<1>2. PICK new : new = [v \in Validators |->
                          IF v \in paid THEN Rewarded(validator[v], height, rewards[v]) ELSE validator[v]]
  OBVIOUS
<1>3. PICK s : s = [Tables EXCEPT !.validator = new]
  OBVIOUS
<1>4. /\ \A v \in paid : v \in Registered
      /\ Call({s})
  <2>1. Call({[Tables EXCEPT !.validator = new]}) /\ \A v \in paid : v \in Registered
    BY <1>2 DEF distribute
  <2> QED
    BY <1>3, <2>1
<1>5. ASSUME NEW v \in Validators
      PROVE  new[v] \in {Unregistered} \cup ValidatorRow /\ Follows(validator[v], new[v])
  <2>1. CASE v \in paid
    <3>1. validator[v] \in ValidatorRow
      BY <1>1, <1>4, <2>1, RowOfRegistered DEF Registered
    <3>2. rewards[v] \in RewardType
      BY <2>1, EndorseManageAssumption DEF RewardType
    <3>3. new[v] = Rewarded(validator[v], height, rewards[v])
      BY <1>2, <2>1
    <3> QED
      BY <3>1, <3>2, <3>3, RewardedFollows
  <2>2. CASE v \notin paid
    <3>1. new[v] = validator[v]
      BY <1>2, <2>2
    <3> QED
      BY <1>1, <3>1, FollowsSelf, TablesParts
  <2> QED
    BY <2>1, <2>2
<1>6. /\ s.validator = new /\ s.staker = Tables.staker /\ s.stat = Tables.stat
      /\ s = [validator |-> s.validator, staker |-> s.staker, stat |-> s.stat]
  BY <1>1, <1>3 DEF TablesType
<1>7. s \in TablesType
  <2>1. new \in [Validators -> {Unregistered} \cup ValidatorRow]
    BY <1>2, <1>5
  <2> QED
    BY <1>1, <1>6, <2>1, TablesParts DEF TablesType
<1>8. RowsFollow(Tables, s)
  BY <1>1, <1>5, <1>6, <1>7 DEF RowsFollow
<1> QED
  BY <1>4, <1>7, <1>8, CallLeaves

\* A claim empties the stake of u with v, which the balance pays; whatever weight
\* it was counted with, the debt becomes what it earned with that weight.
Paid(t, s, u, v) ==
  \A k \in RewardKinds : \E e \in Nat :
    /\ s.staker[u][v].debt[k] = e /\ s.staker[u][v].unclaimed[k] = 0
    /\ s.validator[v].balance[k] =
         t.validator[v].balance[k] - (t.staker[u][v].unclaimed[k] + e - t.staker[u][v].debt[k])

\* claim: no amount changes.
LEMMA ClaimMoves ==
  ASSUME EndorseManageTypeOK, NEW u \in Stakers, NEW v \in Validators, claim(u, v)
  PROVE  /\ Tables.validator[v].registered
         /\ Paid(Tables, Tables', u, v)
         /\ Moved(Tables, Tables', u, v, 0, 0) /\ KeepsWeight(Tables.validator[v], Tables'.validator[v])
         /\ Tables'.staker[u][v].quantity = Tables.staker[u][v].quantity
         /\ Tables'.staker[u][v].xsat_quantity = Tables.staker[u][v].xsat_quantity
         /\ UNCHANGED <<credit_config, base_stake, chainVars>>
<1> DEFINE row == Tables.validator[v]
           q == staker[u][v].quantity
           weight == current_credit_weight
           amount == IF IsCredit(u) THEN Weighted(q, weight) ELSE q
           Claimed(s) == [s EXCEPT !.staker[u][v] = [s.staker[u][v] EXCEPT !.unclaimed = NoReward, !.quantity = q],
                                   !.validator[v].balance = TakeFrom(@, s.staker[u][v].unclaimed)]
           settled == {s \in update_staking_reward(Tables, u, v, amount, amount) :
                         Claimable(s.staker[u][v].unclaimed) > 0}
<1>1. Tables \in TablesType /\ Tables.staker = staker /\ Tables.validator = validator
  BY DEF EndorseManageTypeOK, Tables
<1>2. row \in ValidatorRow /\ row.registered
  <2>1. row.registered
    BY <1>1 DEF claim, Registered
  <2> QED
    BY <1>1, <2>1, RowOfRegistered
<1>3. q \in Nat /\ q = Tables.staker[u][v].quantity
  BY <1>1, TablesParts DEF StakeRow
<1>4. amount \in Nat
  <2>1. weight \in Nat
    BY EndorseManageAssumption DEF EndorseManageTypeOK, CreditWeightsOK, current_credit_weight
  <2> QED
    BY <1>3, <2>1, WeightedType
<1>5. Call({Claimed(s) : s \in settled})
  BY DEF claim
<1> HIDE DEF amount
<1>6. ASSUME NEW s \in settled
      PROVE  /\ Moved(Tables, Claimed(s), u, v, 0, 0) /\ KeepsWeight(row, Claimed(s).validator[v])
             /\ Claimed(s).staker[u][v].quantity = q
             /\ Claimed(s).staker[u][v].xsat_quantity = Tables.staker[u][v].xsat_quantity
             /\ Paid(Tables, Claimed(s), u, v)
  <2>1. /\ s \in TablesType /\ s.validator = Tables.validator /\ s.stat = Tables.stat
        /\ \A x \in Stakers, w \in Validators : x # u \/ w # v => s.staker[x][w] = Tables.staker[x][w]
        /\ s.staker[u][v].xsat_quantity = Tables.staker[u][v].xsat_quantity
        /\ \A k \in RewardKinds :
             /\ s.staker[u][v].debt[k] = Earned(amount, row.acc_per_share[k])
             /\ s.staker[u][v].unclaimed[k]
                  = Tables.staker[u][v].unclaimed[k] + Earned(amount, row.acc_per_share[k])
                      - Tables.staker[u][v].debt[k]
    BY <1>1, <1>2, <1>4, UpdateReward
  <2>2. PICK st : st = [s.staker[u][v] EXCEPT !.unclaimed = NoReward, !.quantity = q]
    OBVIOUS
  <2>3. s.staker[u][v] \in StakeRow
    BY <2>1, TablesParts
  <2>4. /\ st \in StakeRow /\ st.quantity = q /\ st.xsat_quantity = Tables.staker[u][v].xsat_quantity
    BY <1>3, <2>1, <2>2, <2>3 DEF StakeRow, NoReward, RewardType
  <2>5. PICK left : left = TakeFrom(row.balance, s.staker[u][v].unclaimed)
    OBVIOUS
  <2>6. left \in [RewardKinds -> Int]
    <3>1. row.balance \in [RewardKinds -> Int] /\ s.staker[u][v].unclaimed \in RewardType
      BY <1>2, <2>3 DEF ValidatorRow, StakeRow
    <3> QED
      BY <2>5, <3>1 DEF TakeFrom, RewardType
  <2>7. PICK n : n = [row EXCEPT !.balance = left]
    OBVIOUS
  <2>8. /\ n \in ValidatorRow /\ KeepsRow(row, n) /\ KeepsWeight(row, n)
        /\ n.quantity = row.quantity /\ n.xsat_quantity = row.xsat_quantity
    BY <1>2, <2>6, <2>7 DEF ValidatorRow, KeepsRow, KeepsWeight
  <2>9. PICK c : c = Claimed(s)
    OBVIOUS
  <2>10. c = [s EXCEPT !.staker[u][v] = st, !.validator[v] = n]
    BY <2>1, <2>2, <2>5, <2>7, <2>9
  <2>11. /\ c.validator = [s.validator EXCEPT ![v] = n] /\ c.staker = [s.staker EXCEPT ![u][v] = st]
         /\ c.stat = s.stat /\ c = [validator |-> c.validator, staker |-> c.staker, stat |-> c.stat]
    BY <2>1, <2>10 DEF TablesType
  <2>12. c.validator \in [Validators -> {Unregistered} \cup ValidatorRow] /\ c.validator[v] = n
         /\ \A w \in Validators : w # v => c.validator[w] = Tables.validator[w]
    BY <1>1, <2>1, <2>8, <2>11, TablesParts
  <2>13. /\ c.staker \in [Stakers -> [Validators -> StakeRow]] /\ c.staker[u][v] = st
         /\ \A y \in Stakers, w \in Validators : y # u \/ w # v => c.staker[y][w] = Tables.staker[y][w]
    BY <2>1, <2>4, <2>11, TablesParts
  <2>14. c \in TablesType
    BY <2>1, <2>11, <2>12, <2>13, TablesParts DEF TablesType
  <2>15. /\ n.quantity = row.quantity + 0 /\ n.xsat_quantity = row.xsat_quantity + 0
         /\ c.stat.total_staking = Tables.stat.total_staking + 0
         /\ c.stat.xsat_total_staking = Tables.stat.xsat_total_staking + 0
    <3>1. /\ row.quantity \in Int /\ row.xsat_quantity \in Int
          /\ c.stat.total_staking \in Int /\ c.stat.xsat_total_staking \in Int
          /\ n.quantity = row.quantity /\ n.xsat_quantity = row.xsat_quantity /\ c.stat = Tables.stat
      <4>1. row.quantity \in Int /\ row.xsat_quantity \in Int
        <5>1. row.quantity \in Nat /\ row.xsat_quantity \in Int
          BY <1>2 DEF ValidatorRow
        <5> HIDE DEF row
        <5> QED
          BY <5>1
      <4>2. c.stat.total_staking \in Int /\ c.stat.xsat_total_staking \in Int
        BY <2>14, TablesParts
      <4> QED
        BY <2>1, <2>8, <2>11, <4>1, <4>2
    <3> HIDE DEF row
    <3> QED
      BY <3>1
  <2>16. Moved(Tables, c, u, v, 0, 0)
    BY <2>8, <2>12, <2>13, <2>14, <2>15 DEF Moved
  <2>17. Paid(Tables, c, u, v)
    <3>1. SUFFICES ASSUME NEW k \in RewardKinds
                   PROVE  \E e \in Nat :
                            /\ c.staker[u][v].debt[k] = e /\ c.staker[u][v].unclaimed[k] = 0
                            /\ c.validator[v].balance[k] =
                                 row.balance[k] - (Tables.staker[u][v].unclaimed[k] + e
                                                     - Tables.staker[u][v].debt[k])
      BY DEF Paid
    <3>2. PICK e : e = Earned(amount, row.acc_per_share[k])
      OBVIOUS
    <3>3. st.debt[k] = s.staker[u][v].debt[k] /\ st.unclaimed[k] = 0
      BY <2>2, <2>3 DEF StakeRow, NoReward
    <3>4. n.balance[k] = row.balance[k] - s.staker[u][v].unclaimed[k]
      <4>1. n.balance = left
        BY <1>2, <2>7 DEF ValidatorRow
      <4> QED
        BY <2>5, <4>1 DEF TakeFrom
    <3>5. e \in Nat
      <4>1. row.acc_per_share[k] \in Nat
        BY <1>2 DEF ValidatorRow, RewardType
      <4> HIDE DEF row
      <4> QED
        BY <1>4, <3>2, <4>1, EarnedType
    <3> QED
      BY <2>1, <2>12, <2>13, <3>2, <3>3, <3>4, <3>5
  <2> QED
    BY <2>4, <2>8, <2>9, <2>12, <2>13, <2>16, <2>17
<1>7. \A t \in {Claimed(s) : s \in settled} : t \in TablesType
  BY <1>6 DEF Moved
<1>8. (\E s \in settled : Tables' = Claimed(s)) /\ UNCHANGED <<credit_config, base_stake, chainVars>>
  <2> HIDE DEF Claimed, settled
  <2> QED
    BY <1>5, <1>7, CallLeaves
<1> QED
  BY <1>2, <1>3, <1>6, <1>8

\* setstakebase.
LEMMA SetBaseFollows ==
  ASSUME EndorseManageTypeOK, NEW base \in BaseStakes, setstakebase(base)
  PROVE  RowsFollow(Tables, Tables') /\ EndorseManageTypeOK' /\ credit_config' = credit_config
<1>1. Tables \in TablesType /\ Tables.validator = validator
  BY DEF EndorseManageTypeOK, Tables
<1>2. PICK s : s = Tables'
  OBVIOUS
<1>3. /\ s.validator = [v \in Validators |-> IF v \in Registered
            THEN [validator[v] EXCEPT !.active_flag = Active(validator[v], base)] ELSE validator[v]]
      /\ s.staker = Tables.staker /\ s.stat = Tables.stat
      /\ s = [validator |-> s.validator, staker |-> s.staker, stat |-> s.stat]
  BY <1>2 DEF setstakebase, Tables
<1>4. ASSUME NEW v \in Validators
      PROVE  s.validator[v] \in {Unregistered} \cup ValidatorRow /\ Follows(validator[v], s.validator[v])
  <2>1. CASE v \in Registered
    <3>1. validator[v] \in ValidatorRow
      BY <1>1, <2>1, RowOfRegistered DEF Registered
    <3>2. PICK f : f = Active(validator[v], base)
      OBVIOUS
    <3>3. f \in {0, 1}
      BY <3>2 DEF Active, Flag
    <3>4. s.validator[v] = [validator[v] EXCEPT !.active_flag = f]
      BY <1>3, <2>1, <3>2
    <3>5. s.validator[v] \in ValidatorRow
      <4>1. PICK r, n : r = validator[v] /\ n = [r EXCEPT !.active_flag = f]
        OBVIOUS
      <4>2. n \in ValidatorRow
        BY <3>1, <3>3, <4>1 DEF ValidatorRow
      <4> QED
        BY <3>4, <4>1, <4>2
    <3>6. Follows(validator[v], s.validator[v])
      <4>1. s.validator[v].acc_per_share = validator[v].acc_per_share /\ s.validator[v].balance = validator[v].balance /\ s.validator[v].unclaimed = validator[v].unclaimed
        BY <3>1, <3>4 DEF ValidatorRow
      <4>2. Funded(validator[v], s.validator[v])
        BY <3>1, <3>4, <4>1, FundsStay DEF Left
      <4> QED
        BY <1>1, <3>1, <3>4, <4>2, FollowsSelf DEF Follows, ValidatorRow
    <3> QED
      BY <3>5, <3>6
  <2>2. CASE v \notin Registered
    <3>1. s.validator[v] = validator[v]
      BY <1>3, <2>2
    <3> QED
      BY <1>1, <3>1, FollowsSelf, TablesParts
  <2> QED
    BY <2>1, <2>2
<1>5. s \in TablesType
  <2>1. s.validator \in [Validators -> {Unregistered} \cup ValidatorRow]
    BY <1>3, <1>4
  <2> QED
    BY <1>1, <1>3, <2>1, TablesParts DEF TablesType
<1>6. RowsFollow(Tables, s)
  BY <1>1, <1>3, <1>4, <1>5 DEF RowsFollow
<1>7. NoStrayStake(s)
  BY <1>6 DEF RowsFollow, Follows, EndorseManageTypeOK, NoStrayStake
<1>8. /\ credit_config' = credit_config /\ xsat_active' = xsat_active /\ head_height' = head_height
      /\ base_stake' = base /\ staker' = staker
  BY DEF setstakebase, chainVars
<1>9. base_stake' \in [btc : Nat \ {0}, xsat : Nat \ {0}]
  BY <1>8, EndorseManageAssumption
<1>10. CreditWeightsOK'
  BY <1>8 DEF EndorseManageTypeOK, CreditWeightsOK
<1> QED
  BY <1>2, <1>5, <1>6, <1>7, <1>8, <1>9, <1>10 DEF EndorseManageTypeOK

\* setcreditwei.
LEMMA SetWeightKeeps ==
  ASSUME EndorseManageTypeOK, NEW weight \in Nat, NEW block \in Nat, setcreditwei(weight, block)
  PROVE  Tables' = Tables /\ EndorseManageTypeOK'
<1>1. /\ UNCHANGED <<validator, staker, stat, base_stake, xsat_active, head_height>>
      /\ weight \in 1..RATE_BASE_10000
      /\ credit_config' = [credit_config EXCEPT !.next_credit_weight = weight,
                                                !.next_credit_weight_block = block]
  BY DEF setcreditwei, tableVars, chainVars
<1>2. Tables' = Tables
  BY <1>1 DEF Tables
<1>3. CreditWeightsOK'
  <2>1. /\ credit_config' \in [next_credit_weight_block : Nat, next_credit_weight : 0..RATE_BASE_10000,
                               credit_weight : 0..RATE_BASE_10000]
        /\ credit_config'.next_credit_weight # 0
    <3>1. credit_config \in [next_credit_weight_block : Nat, next_credit_weight : 0..RATE_BASE_10000,
                             credit_weight : 0..RATE_BASE_10000]
      BY DEF EndorseManageTypeOK, CreditWeightsOK
    <3>2. weight \in 0..RATE_BASE_10000 /\ weight # 0
      BY <1>1, EndorseManageAssumption
    <3> QED
      BY <1>1, <3>1, <3>2
  <2> QED
    BY <2>1 DEF CreditWeightsOK
<1> QED
  BY <1>1, <1>2, <1>3 DEF EndorseManageTypeOK, NoStrayStake

\* The chain grows.
LEMMA HeadKeeps ==
  ASSUME EndorseManageTypeOK, head_moves
  PROVE  Tables' = Tables /\ EndorseManageTypeOK'
<1>1. /\ UNCHANGED <<validator, staker, stat, base_stake, credit_config>>
      /\ head_height' = head_height + 1 /\ xsat_active' \in {xsat_active, TRUE}
  BY DEF head_moves, tableVars
<1>2. Tables' = Tables
  BY <1>1 DEF Tables
<1>3. CreditWeightsOK'
  BY <1>1 DEF EndorseManageTypeOK, CreditWeightsOK
<1>4. head_height' \in Nat /\ base_stake' \in [btc : Nat \ {0}, xsat : Nat \ {0}]
  BY <1>1 DEF EndorseManageTypeOK
<1>5. xsat_active' \in BOOLEAN
  BY <1>1 DEF EndorseManageTypeOK
<1>6. Tables' \in TablesType /\ NoStrayStake(Tables)'
  BY <1>2 DEF EndorseManageTypeOK, NoStrayStake
<1> QED
  BY <1>2, <1>3, <1>4, <1>5, <1>6 DEF EndorseManageTypeOK, NoStrayStake

\* endorse: the vote counter of the row, and perhaps the weight of one credit stake.
LEMMA EndorseMoves ==
  ASSUME EndorseManageTypeOK, NEW v \in Validators, NEW height \in Nat, endorse(v, height)
  PROVE  /\ EndorseManageTypeOK'
         /\ \E m : /\ RowsFollow(Tables, m) /\ m.validator[v].registered
                   /\ m.validator[v] \in ValidatorRow
                   /\ \/ Tables' = m
                      \/ \E u \in EvmStakers :
                           /\ IsCredit(u) /\ m.staker[u][v].quantity # 0 /\ get_credit_weight(height) # 0
                           /\ CreditChanged(m, Tables', u, v, m.staker[u][v].quantity,
                                            get_credit_weight(height))
<1> DEFINE row == Tables.validator[v]
<1>1. Tables \in TablesType /\ Tables.staker = staker /\ Tables.validator = validator
      /\ NoStrayStake(Tables)
  BY DEF EndorseManageTypeOK, Tables
<1>2. row \in ValidatorRow /\ row.registered
  <2>1. row.registered
    BY <1>1 DEF endorse, Registered
  <2> QED
    BY <1>1, <2>1, RowOfRegistered
<1>3. PICK n : n = [row EXCEPT !.latest_consensus_block = height]
  OBVIOUS
<1>4. PICK m : m = [Tables EXCEPT !.validator[v].latest_consensus_block = height]
  OBVIOUS
<1>5. n \in ValidatorRow /\ n.registered
  BY <1>2, <1>3 DEF ValidatorRow
<1>6. Follows(row, n)
  <2>1. n.acc_per_share = row.acc_per_share /\ n.balance = row.balance /\ n.unclaimed = row.unclaimed
    BY <1>2, <1>3 DEF ValidatorRow
  <2>2. Funded(row, n)
    BY <1>2, <1>3, <2>1, FundsStay DEF Left
  <2> QED
    BY <1>1, <1>2, <1>3, <2>2, FollowsSelf DEF Follows, ValidatorRow
<1>7. m = [Tables EXCEPT !.validator[v] = n]
  BY <1>3, <1>4
<1>8. m \in TablesType /\ RowsFollow(Tables, m) /\ m.validator[v] = n /\ m.staker = staker
  BY <1>1, <1>5, <1>6, <1>7, RowChanged
<1>9. NoStrayStake(m)
  BY <1>1, <1>8 DEF RowsFollow, Follows, NoStrayStake
<1>10. /\ get_credit_weight(height) \in 0..RATE_BASE_10000
       /\ get_credit_weight(height) = 0 =>
            \A u \in EvmStakers, w \in Validators : IsCredit(u) => staker[u][w].quantity = 0
  BY WeightOfHeight DEF EndorseManageTypeOK, CreditWeightsOK
<1>11. UNCHANGED <<base_stake, xsat_active, head_height>>
  BY DEF endorse, chainVars
<1>12. PICK t : Become(t) /\
         \/ t = m /\ (credit_config' = credit_config \/
                      credit_config' = [credit_config EXCEPT !.credit_weight = get_credit_weight(height)])
         \/ /\ credit_config' = [credit_config EXCEPT !.credit_weight = get_credit_weight(height)]
            /\ \E u \in EvmStakers : /\ IsCredit(u) /\ staker[u][v].quantity # 0
                                     /\ t \in CreditStaked(m, u, v, staker[u][v].quantity, height)
  <2>1. /\ NeedsWeight(row, height) =>
             /\ credit_config' = [credit_config EXCEPT !.credit_weight = get_credit_weight(height)]
             /\ \E t \in IF {u \in EvmStakers : IsCredit(u) /\ staker[u][v].quantity # 0} = {} THEN {m} ELSE
                  UNION {CreditStaked(m, u, v, staker[u][v].quantity, height) :
                           u \in {u \in EvmStakers : IsCredit(u) /\ staker[u][v].quantity # 0}} : Become(t)
        /\ ~NeedsWeight(row, height) => Become(m) /\ credit_config' = credit_config
    BY <1>1, <1>4 DEF endorse
  <2> QED
    BY <2>1
<1>13. credit_config' = credit_config \/
       credit_config' = [credit_config EXCEPT !.credit_weight = get_credit_weight(height)]
  BY <1>12
<1>14. CASE t = m
  <2>1. Tables' = m
    BY <1>8, <1>12, <1>14 DEF Become, Tables, TablesType
  <2>2. staker' = staker
    BY <1>8, <2>1 DEF Tables
  <2>3. CreditWeightsOK'
    <3>1. CASE credit_config' = credit_config
      BY <2>2, <3>1 DEF EndorseManageTypeOK, CreditWeightsOK
    <3>2. CASE credit_config' = [credit_config EXCEPT !.credit_weight = get_credit_weight(height)]
      <4>1. CreditWeightsOK
        BY DEF EndorseManageTypeOK
      <4>2. credit_config.next_credit_weight = 0 => get_credit_weight(height) = 0
        BY <4>1 DEF CreditWeightsOK, get_credit_weight
      <4> QED
        BY <1>10, <2>2, <3>2, <4>1, <4>2 DEF CreditWeightsOK
    <3> QED
      BY <1>13, <3>1, <3>2
  <2>4. EndorseManageTypeOK'
    BY <1>8, <1>9, <1>11, <2>1, <2>3 DEF EndorseManageTypeOK
  <2> QED
    BY <1>5, <1>8, <2>1, <2>4
<1>15. ASSUME NEW u \in EvmStakers, IsCredit(u), staker[u][v].quantity # 0,
              t \in CreditStaked(m, u, v, staker[u][v].quantity, height),
              credit_config' = [credit_config EXCEPT !.credit_weight = get_credit_weight(height)]
       PROVE  EndorseManageTypeOK' /\ get_credit_weight(height) # 0
              /\ CreditChanged(m, Tables', u, v, m.staker[u][v].quantity, get_credit_weight(height))
  <2>1. u \in Stakers /\ staker[u][v].quantity \in Nat /\ base_stake.btc \in Nat
    <3>1. u \in Stakers
      BY DEF Stakers
    <3>2. staker[u][v] \in StakeRow
      BY <1>1, <3>1, TablesParts
    <3> QED
      BY <3>1, <3>2 DEF StakeRow, EndorseManageTypeOK
  <2>2. get_credit_weight(height) = 0 => m.staker[u][v].quantity = 0
    BY <1>8, <1>10, <1>15
  <2>3. /\ get_credit_weight(height) # 0
        /\ CreditChanged(m, t, u, v, staker[u][v].quantity, get_credit_weight(height))
    BY <1>8, <1>10, <1>15, <2>1, <2>2, CreditMoves
  <2>4. t \in TablesType
    BY <2>3 DEF CreditChanged, Moved
  <2>5. Tables' = t
    BY <1>12, <2>4 DEF Become, Tables, TablesType
  <2>6. NoStrayStake(t)
    BY <1>5, <1>8, <1>9, <2>1, <2>3, NoStrayAfterMove DEF CreditChanged
  <2>7. credit_config.next_credit_weight # 0
    BY <1>1, <1>15 , <2>1 DEF EndorseManageTypeOK, CreditWeightsOK
  <2>8. CreditWeightsOK'
    BY <1>10, <1>15, <2>7 DEF EndorseManageTypeOK, CreditWeightsOK
  <2>9. EndorseManageTypeOK'
    BY <1>11, <2>4, <2>5, <2>6, <2>8 DEF EndorseManageTypeOK
  <2> QED
    BY <1>8, <2>3, <2>5, <2>9
<1> QED
  BY <1>5, <1>8, <1>12, <1>14, <1>15

\* stake: the stake is added.
LEMMA StakeKeeps ==
  ASSUME EndorseManageTypeOK, NEW u \in Stakers, NEW v \in Validators, NEW q \in Nat \ {0},
         \/ stake(u, v, q)
         \/ unstake(u, v, q)
  PROVE  /\ EndorseManageTypeOK' /\ ~IsCredit(u)
         /\ Tables.validator[v].registered
         /\ stake(u, v, q) => StakeChanged(Tables, Tables', u, v, q)
         /\ unstake(u, v, q) => StakeChanged(Tables, Tables', u, v, -q)
         /\ UNCHANGED <<credit_config, base_stake, chainVars>>
<1>1. Tables \in TablesType /\ NoStrayStake(Tables) /\ ~IsCredit(u)
  BY DEF EndorseManageTypeOK, stake, unstake
<1>2. /\ stake(u, v, q) => /\ Tables.validator[v].registered /\ StakeChanged(Tables, Tables', u, v, q)
                   /\ UNCHANGED <<credit_config, base_stake, chainVars>>
      /\ unstake(u, v, q) => /\ Tables.validator[v].registered /\ StakeChanged(Tables, Tables', u, v, -q)
                   /\ UNCHANGED <<credit_config, base_stake, chainVars>>
  <2>1. ASSUME stake(u, v, q)
        PROVE  /\ Tables.validator[v].registered /\ StakeChanged(Tables, Tables', u, v, q)
               /\ UNCHANGED <<credit_config, base_stake, chainVars>>
    <3>1. \A t \in Staked(Tables, u, v, q) : Tables.validator[v].registered /\ StakeChanged(Tables, t, u, v, q)
      BY <1>1, StakedMoves
    <3>2. \A t \in Staked(Tables, u, v, q) : t \in TablesType
      BY <3>1 DEF StakeChanged, Moved
    <3>3. Call(Staked(Tables, u, v, q))
      BY <2>1 DEF stake
    <3> QED
      BY <2>1, <3>1, <3>2, <3>3, CallLeaves
  <2>2. ASSUME unstake(u, v, q)
        PROVE  /\ Tables.validator[v].registered /\ StakeChanged(Tables, Tables', u, v, -q)
               /\ UNCHANGED <<credit_config, base_stake, chainVars>>
    <3>1. \A t \in Unstaked(Tables, u, v, q) : Tables.validator[v].registered /\ StakeChanged(Tables, t, u, v, -q)
      BY <1>1, UnstakedMoves
    <3>2. \A t \in Unstaked(Tables, u, v, q) : t \in TablesType
      BY <3>1 DEF StakeChanged, Moved
    <3>3. Call(Unstaked(Tables, u, v, q))
      BY <2>2 DEF unstake
    <3> QED
      BY <2>2, <3>1, <3>2, <3>3, CallLeaves
  <2> QED
    BY <2>1, <2>2
<1>3. PICK e \in {q, -q} :
        /\ Tables.validator[v].registered /\ StakeChanged(Tables, Tables', u, v, e)
        /\ UNCHANGED <<credit_config, base_stake, chainVars>>
  BY <1>2
<1>4. Tables' \in TablesType /\ Moved(Tables, Tables', u, v, e, 0)
  BY <1>3 DEF StakeChanged, Moved
<1>5. NoStrayStake(Tables')
  BY <1>1, <1>3, <1>4, NoStrayAfterMove
<1>6. \A y \in EvmStakers, w \in Validators :
        IsCredit(y) => Tables'.staker[y][w].quantity = Tables.staker[y][w].quantity
  <2>1. \A y \in EvmStakers : y \in Stakers /\ (IsCredit(y) => y # u)
    BY <1>1 DEF Stakers
  <2> QED
    BY <1>4, <2>1 DEF Moved
<1>7. EndorseManageTypeOK'
  BY <1>3, <1>4, <1>5, <1>6, TypesAfterCall DEF NoStrayStake
<1> QED
  BY <1>1, <1>2, <1>3, <1>7

\* newstake: the stake leaves one validator for another.
LEMMA RestakeKeeps ==
  ASSUME EndorseManageTypeOK, NEW u \in Stakers, NEW v \in Validators, NEW w \in Validators,
         NEW q \in Nat \ {0}, newstake(u, v, w, q)
  PROVE  /\ EndorseManageTypeOK' /\ ~IsCredit(u)
         /\ \E m \in TablesType :
              /\ Tables.validator[v].registered /\ StakeChanged(Tables, m, u, v, -q)
              /\ m.validator[w].registered /\ StakeChanged(m, Tables', u, w, q)
         /\ UNCHANGED <<credit_config, base_stake, chainVars>>
<1>1. Tables \in TablesType /\ NoStrayStake(Tables) /\ ~IsCredit(u)
  BY DEF EndorseManageTypeOK, newstake
<1>2. \A m \in Unstaked(Tables, u, v, q) :
        m \in TablesType /\ Tables.validator[v].registered /\ StakeChanged(Tables, m, u, v, -q)
  BY <1>1, UnstakedMoves DEF StakeChanged, Moved
<1>3. \A m \in Unstaked(Tables, u, v, q) : \A t \in Staked(m, u, w, q) :
        t \in TablesType /\ m.validator[w].registered /\ StakeChanged(m, t, u, w, q)
  BY <1>1, <1>2, StakedMoves DEF StakeChanged, Moved
<1>4. /\ \E m \in Unstaked(Tables, u, v, q) : Tables' \in Staked(m, u, w, q)
      /\ UNCHANGED <<credit_config, base_stake, chainVars>>
  <2>1. Call(UNION {Staked(s, u, w, q) : s \in Unstaked(Tables, u, v, q)})
    BY DEF newstake, Restaked
  <2>2. \A t \in UNION {Staked(s, u, w, q) : s \in Unstaked(Tables, u, v, q)} : t \in TablesType
    BY <1>3
  <2> QED
    BY <2>1, <2>2, CallLeaves
<1>5. PICK m \in Unstaked(Tables, u, v, q) : Tables' \in Staked(m, u, w, q)
  BY <1>4
<1>6. /\ m \in TablesType /\ Tables.validator[v].registered /\ StakeChanged(Tables, m, u, v, -q)
      /\ Tables' \in TablesType /\ m.validator[w].registered /\ StakeChanged(m, Tables', u, w, q)
  BY <1>2, <1>3, <1>5
<1>7. Moved(Tables, m, u, v, -q, 0) /\ Moved(m, Tables', u, w, q, 0)
  BY <1>6 DEF StakeChanged
<1>8. NoStrayStake(Tables')
  BY <1>1, <1>6, <1>7, NoStrayAfterMove
<1>9. \A y \in EvmStakers, x \in Validators :
        IsCredit(y) => Tables'.staker[y][x].quantity = Tables.staker[y][x].quantity
  <2>1. \A y \in EvmStakers : y \in Stakers /\ (IsCredit(y) => y # u)
    BY <1>1 DEF Stakers
  <2>2. \A y \in EvmStakers, x \in Validators : IsCredit(y) =>
          Tables'.staker[y][x] = m.staker[y][x] /\ m.staker[y][x] = Tables.staker[y][x]
    BY <1>7, <2>1 DEF Moved
  <2> QED
    BY <2>2
<1>10. EndorseManageTypeOK'
  BY <1>4, <1>6, <1>8, <1>9, TypesAfterCall DEF NoStrayStake
<1> QED
  BY <1>1, <1>4, <1>6, <1>10

\* stakexsat and unstakexsat.
LEMMA StakeXsatKeeps ==
  ASSUME EndorseManageTypeOK, NEW u \in Stakers, NEW v \in Validators, NEW q \in Nat \ {0},
         \/ stakexsat(u, v, q)
         \/ unstakexsat(u, v, q)
  PROVE  /\ EndorseManageTypeOK' /\ ~IsCredit(u)
         /\ Tables.validator[v].registered
         /\ stakexsat(u, v, q) => XsatChanged(Tables, Tables', u, v, q)
         /\ unstakexsat(u, v, q) => XsatChanged(Tables, Tables', u, v, -q)
         /\ UNCHANGED <<credit_config, base_stake, chainVars>>
<1>1. Tables \in TablesType /\ NoStrayStake(Tables) /\ ~IsCredit(u)
  BY DEF EndorseManageTypeOK, stakexsat, unstakexsat
<1>2. /\ stakexsat(u, v, q) => /\ Tables.validator[v].registered /\ XsatChanged(Tables, Tables', u, v, q)
                   /\ UNCHANGED <<credit_config, base_stake, chainVars>>
      /\ unstakexsat(u, v, q) => /\ Tables.validator[v].registered /\ XsatChanged(Tables, Tables', u, v, -q)
                   /\ UNCHANGED <<credit_config, base_stake, chainVars>>
  <2>1. ASSUME stakexsat(u, v, q)
        PROVE  /\ Tables.validator[v].registered /\ XsatChanged(Tables, Tables', u, v, q)
               /\ UNCHANGED <<credit_config, base_stake, chainVars>>
    <3>1. \A t \in XsatStaked(Tables, u, v, q) : Tables.validator[v].registered /\ XsatChanged(Tables, t, u, v, q)
      BY <1>1, XsatStakedMoves
    <3>2. \A t \in XsatStaked(Tables, u, v, q) : t \in TablesType
      BY <3>1 DEF XsatChanged, Moved
    <3>3. Call(XsatStaked(Tables, u, v, q))
      BY <2>1 DEF stakexsat
    <3> QED
      BY <2>1, <3>1, <3>2, <3>3, CallLeaves
  <2>2. ASSUME unstakexsat(u, v, q)
        PROVE  /\ Tables.validator[v].registered /\ XsatChanged(Tables, Tables', u, v, -q)
               /\ UNCHANGED <<credit_config, base_stake, chainVars>>
    <3>1. \A t \in XsatUnstaked(Tables, u, v, q) : Tables.validator[v].registered /\ XsatChanged(Tables, t, u, v, -q)
      BY <1>1, XsatUnstakedMoves
    <3>2. \A t \in XsatUnstaked(Tables, u, v, q) : t \in TablesType
      BY <3>1 DEF XsatChanged, Moved
    <3>3. Call(XsatUnstaked(Tables, u, v, q))
      BY <2>2 DEF unstakexsat
    <3> QED
      BY <2>2, <3>1, <3>2, <3>3, CallLeaves
  <2> QED
    BY <2>1, <2>2
<1>3. PICK e \in {q, -q} :
        /\ Tables.validator[v].registered /\ XsatChanged(Tables, Tables', u, v, e)
        /\ UNCHANGED <<credit_config, base_stake, chainVars>>
  BY <1>2
<1>4. Tables' \in TablesType /\ Moved(Tables, Tables', u, v, 0, e)
  BY <1>3 DEF XsatChanged, Moved
<1>5. NoStrayStake(Tables')
  BY <1>1, <1>3, <1>4, NoStrayAfterMove
<1>6. \A y \in EvmStakers, w \in Validators :
        IsCredit(y) => Tables'.staker[y][w].quantity = Tables.staker[y][w].quantity
  <2>1. \A y \in EvmStakers : y \in Stakers /\ (IsCredit(y) => y # u)
    BY <1>1 DEF Stakers
  <2> QED
    BY <1>4, <2>1 DEF Moved
<1>7. EndorseManageTypeOK'
  BY <1>3, <1>4, <1>5, <1>6, TypesAfterCall DEF NoStrayStake
<1> QED
  BY <1>1, <1>2, <1>3, <1>7

\* restakexsat.
LEMMA RestakeXsatKeeps ==
  ASSUME EndorseManageTypeOK, NEW u \in Stakers, NEW v \in Validators, NEW w \in Validators,
         NEW q \in Nat \ {0}, restakexsat(u, v, w, q)
  PROVE  /\ EndorseManageTypeOK' /\ ~IsCredit(u)
         /\ \E m \in TablesType :
              /\ Tables.validator[v].registered /\ XsatChanged(Tables, m, u, v, -q)
              /\ m.validator[w].registered /\ XsatChanged(m, Tables', u, w, q)
         /\ UNCHANGED <<credit_config, base_stake, chainVars>>
<1>1. Tables \in TablesType /\ NoStrayStake(Tables) /\ ~IsCredit(u)
  BY DEF EndorseManageTypeOK, restakexsat
<1>2. \A m \in XsatUnstaked(Tables, u, v, q) :
        m \in TablesType /\ Tables.validator[v].registered /\ XsatChanged(Tables, m, u, v, -q)
  BY <1>1, XsatUnstakedMoves DEF XsatChanged, Moved
<1>3. \A m \in XsatUnstaked(Tables, u, v, q) : \A t \in XsatStaked(m, u, w, q) :
        t \in TablesType /\ m.validator[w].registered /\ XsatChanged(m, t, u, w, q)
  BY <1>1, <1>2, XsatStakedMoves DEF XsatChanged, Moved
<1>4. /\ \E m \in XsatUnstaked(Tables, u, v, q) : Tables' \in XsatStaked(m, u, w, q)
      /\ UNCHANGED <<credit_config, base_stake, chainVars>>
  <2>1. Call(UNION {XsatStaked(s, u, w, q) : s \in XsatUnstaked(Tables, u, v, q)})
    BY DEF restakexsat, XsatRestaked
  <2>2. \A t \in UNION {XsatStaked(s, u, w, q) : s \in XsatUnstaked(Tables, u, v, q)} : t \in TablesType
    BY <1>3
  <2> QED
    BY <2>1, <2>2, CallLeaves
<1>5. PICK m \in XsatUnstaked(Tables, u, v, q) : Tables' \in XsatStaked(m, u, w, q)
  BY <1>4
<1>6. /\ m \in TablesType /\ Tables.validator[v].registered /\ XsatChanged(Tables, m, u, v, -q)
      /\ Tables' \in TablesType /\ m.validator[w].registered /\ XsatChanged(m, Tables', u, w, q)
  BY <1>2, <1>3, <1>5
<1>7. Moved(Tables, m, u, v, 0, -q) /\ Moved(m, Tables', u, w, 0, q)
  BY <1>6 DEF XsatChanged
<1>8. NoStrayStake(Tables')
  BY <1>1, <1>6, <1>7, NoStrayAfterMove
<1>9. \A y \in EvmStakers, x \in Validators :
        IsCredit(y) => Tables'.staker[y][x].quantity = Tables.staker[y][x].quantity
  <2>1. \A y \in EvmStakers : y \in Stakers /\ (IsCredit(y) => y # u)
    BY <1>1 DEF Stakers
  <2>2. \A y \in EvmStakers, x \in Validators : IsCredit(y) =>
          Tables'.staker[y][x] = m.staker[y][x] /\ m.staker[y][x] = Tables.staker[y][x]
    BY <1>7, <2>1 DEF Moved
  <2> QED
    BY <2>2
<1>10. EndorseManageTypeOK'
  BY <1>4, <1>6, <1>8, <1>9, TypesAfterCall DEF NoStrayStake
<1> QED
  BY <1>1, <1>4, <1>6, <1>10

\* creditstake: custody.xsat sets the stake of a credit staker.
LEMMA CreditStakeKeeps ==
  ASSUME EndorseManageTypeOK, NEW u \in EvmStakers, NEW v \in Validators, NEW q \in Nat,
         creditstake(u, v, q)
  PROVE  /\ EndorseManageTypeOK' /\ IsCredit(u) /\ u \in Stakers
         /\ Tables.validator[v].registered
         /\ get_credit_weight(head_height) \in 1..RATE_BASE_10000
         /\ CreditChanged(Tables, Tables', u, v, q, get_credit_weight(head_height))
         /\ UNCHANGED <<credit_config, base_stake, chainVars>>
<1>1. /\ Tables \in TablesType /\ NoStrayStake(Tables) /\ IsCredit(u) /\ u \in Stakers
      /\ base_stake.btc \in Nat /\ head_height \in Nat /\ CreditWeightsOK /\ Tables.staker = staker
  BY DEF EndorseManageTypeOK, creditstake, Stakers, Tables
<1>2. /\ get_credit_weight(head_height) \in 0..RATE_BASE_10000
      /\ get_credit_weight(head_height) = 0 => credit_config.next_credit_weight = 0
  BY <1>1, WeightOfHeight
<1>3. get_credit_weight(head_height) = 0 => Tables.staker[u][v].quantity = 0
  BY <1>1, <1>2 DEF CreditWeightsOK
<1>4. \A t \in CreditStaked(Tables, u, v, q, head_height) :
        /\ t \in TablesType
        /\ Tables.validator[v].registered /\ get_credit_weight(head_height) # 0
        /\ CreditChanged(Tables, t, u, v, q, get_credit_weight(head_height))
  BY <1>1, <1>2, <1>3, CreditMoves DEF CreditChanged, Moved
<1>5. /\ Tables' \in CreditStaked(Tables, u, v, q, head_height)
      /\ UNCHANGED <<credit_config, base_stake, chainVars>>
  <2>1. Call(CreditStaked(Tables, u, v, q, head_height))
    BY DEF creditstake
  <2> QED
    BY <1>4, <2>1, CallLeaves
<1>6. /\ Tables.validator[v].registered /\ get_credit_weight(head_height) \in 1..RATE_BASE_10000
      /\ CreditChanged(Tables, Tables', u, v, q, get_credit_weight(head_height))
      /\ Tables' \in TablesType
  BY <1>2, <1>4, <1>5, EndorseManageAssumption
<1>7. NoStrayStake(Tables')
  BY <1>1, <1>6, NoStrayAfterMove DEF CreditChanged
<1>8. credit_config.next_credit_weight # 0
  BY <1>1, <1>6, EndorseManageAssumption DEF CreditWeightsOK, get_credit_weight
<1>9. EndorseManageTypeOK'
  BY <1>5, <1>6, <1>7, <1>8, TypesAfterCall DEF NoStrayStake
<1> QED
  BY <1>1, <1>5, <1>6, <1>9

\* The inputs are what the assumptions say.
LEMMA Inputs ==
  /\ Amounts \subseteq Nat \ {0} /\ Commissions \subseteq 0..RATE_BASE_10000
  /\ CreditWeights \subseteq Nat /\ BaseStakes \subseteq [btc : Nat \ {0}, xsat : Nat \ {0}]
  /\ MIN_BTC_STAKE_FOR_VALIDATOR \in Nat \ {0}
  /\ NativeStakers \subseteq Stakers /\ EvmStakers \subseteq Stakers
  /\ \A u \in NativeStakers : ~IsCredit(u)
  /\ CreditStakers \subseteq EvmStakers /\ \A u \in CreditStakers : IsCredit(u)
BY EndorseManageAssumption DEF Stakers, IsCredit, CreditStakers

\* The tables that stay follow themselves.
LEMMA TablesFollow ==
  ASSUME NEW t \in TablesType
  PROVE  RowsFollow(t, t)
BY FollowsSelf DEF RowsFollow

\* What changes no stake, no registration and no sum.
AdminStep(V, R) ==
  \/ \E v \in V :
       \/ \E c \in Commissions : evmconfigvald(v, c)
       \/ \E d \in BOOLEAN : setstatus(v, d)
       \/ vdrclaim(v)
  \/ \E base \in BaseStakes : setstakebase(base)
  \/ \E weight \in CreditWeights, h \in 1..MaxHeight : setcreditwei(weight, h)
  \/ \E h \in 1..head_height, paid \in (SUBSET V) \ {{}} :
       \E rewards \in [paid -> R] : distribute(h, rewards)
  \/ head_height < MaxHeight /\ head_moves

\* The administration, the rewards and the growth of the chain.
LEMMA AdminFollows ==
  ASSUME EndorseManageTypeOK, AdminStep(Validators, Rewards)
  PROVE  RowsFollow(Tables, Tables') /\ EndorseManageTypeOK'
<1>0. Tables \in TablesType
  BY DEF EndorseManageTypeOK
<1>1. ASSUME NEW v \in Validators, NEW c \in Commissions, evmconfigvald(v, c)
      PROVE  RowsFollow(Tables, Tables') /\ EndorseManageTypeOK'
  BY <1>1, ConfigFollows, TypesAfterRows
<1>2. ASSUME NEW v \in Validators, NEW d \in BOOLEAN, setstatus(v, d)
      PROVE  RowsFollow(Tables, Tables') /\ EndorseManageTypeOK'
  BY <1>2, ConfigFollows, TypesAfterRows
<1>3. ASSUME NEW v \in Validators, vdrclaim(v)
      PROVE  RowsFollow(Tables, Tables') /\ EndorseManageTypeOK'
  BY <1>3, VdrClaimFollows, TypesAfterRows
<1>4. ASSUME NEW base \in BaseStakes, setstakebase(base)
      PROVE  RowsFollow(Tables, Tables') /\ EndorseManageTypeOK'
  BY <1>4, SetBaseFollows
<1>5. ASSUME NEW weight \in CreditWeights, NEW h \in 1..MaxHeight, setcreditwei(weight, h)
      PROVE  RowsFollow(Tables, Tables') /\ EndorseManageTypeOK'
  <2>1. weight \in Nat /\ h \in Nat
    BY Inputs
  <2> QED
    BY <1>0, <1>5, <2>1, SetWeightKeeps, TablesFollow
<1>6. ASSUME NEW h \in 1..head_height, NEW paid \in SUBSET Validators, NEW rewards \in [paid -> Rewards],
             distribute(h, rewards)
      PROVE  RowsFollow(Tables, Tables') /\ EndorseManageTypeOK'
  <2>1. h \in Nat
    OBVIOUS
  <2> QED
    BY <1>6, <2>1, DistributeFollows, TypesAfterRows
<1>7. CASE head_moves
  BY <1>0, <1>7, HeadKeeps, TablesFollow
<1> QED
  BY <1>1, <1>2, <1>3, <1>4, <1>5, <1>6, <1>7 DEF AdminStep

\* claim keeps the types.
LEMMA ClaimKeeps ==
  ASSUME EndorseManageTypeOK, NEW u \in Stakers, NEW v \in Validators, claim(u, v)
  PROVE  EndorseManageTypeOK'
<1>1. /\ Tables.validator[v].registered
      /\ Moved(Tables, Tables', u, v, 0, 0)
      /\ Tables'.staker[u][v].quantity = Tables.staker[u][v].quantity
      /\ UNCHANGED <<credit_config, base_stake, chainVars>>
  BY ClaimMoves
<1>2. Tables' \in TablesType
  BY <1>1 DEF Moved
<1>3. NoStrayStake(Tables')
  BY <1>1, NoStrayAfterMove DEF EndorseManageTypeOK
<1>4. \A y \in EvmStakers, w \in Validators :
        IsCredit(y) => Tables'.staker[y][w].quantity = Tables.staker[y][w].quantity
  BY <1>1, Inputs DEF Moved
<1> QED
  BY <1>1, <1>2, <1>3, <1>4, TypesAfterCall DEF NoStrayStake

\* A step of endrmng.xsat is of one of these kinds.
LEMMA StepKinds ==
  ASSUME DirectNext(Stakers, Validators) \/ ConsensusCalls(Validators, Rewards)
  PROVE  \/ AdminStep(Validators, Rewards)
         \/ \E v \in Validators :
              \/ \E role \in {0, 1}, a \in Addresses, c \in Commissions : newregvldtor(v, role, a, c)
              \/ \E a \in Addresses : evmsetstaker(v, a)
              \/ \E is_close \in BOOLEAN : updcreditstk(v, is_close)
              \/ \E h \in Nat : endorse(v, h)
         \/ \E u \in EvmStakers, v \in Validators, q \in Nat \ {0} :
              stake(u, v, q) \/ unstake(u, v, q) \/ stakexsat(u, v, q) \/ unstakexsat(u, v, q)
         \/ \E u \in Stakers, v \in Validators :
              \/ claim(u, v)
              \/ \E w \in Validators, q \in Nat \ {0} : newstake(u, v, w, q) \/ restakexsat(u, v, w, q)
<1>1. /\ \A q \in Amounts : q \in Nat \ {0}
      /\ \A h \in 1..MaxHeight : h \in Nat
      /\ \A u \in Stakers \cap EvmStakers : u \in EvmStakers
  BY Inputs
<1>2. CASE DirectNext(Stakers, Validators)
  BY <1>1, <1>2 DEF DirectNext, AdminStep
<1>3. CASE ConsensusCalls(Validators, Rewards)
  BY <1>1, <1>3 DEF ConsensusCalls, AdminStep
<1> QED
  BY <1>2, <1>3

\* Every step of endrmng.xsat keeps the types.
LEMMA StepKeepsTypes ==
  ASSUME EndorseManageTypeOK, DirectNext(Stakers, Validators) \/ ConsensusCalls(Validators, Rewards)
  PROVE  EndorseManageTypeOK'
<1>1. \A u \in EvmStakers : u \in Stakers
  BY Inputs
<1>2. ASSUME NEW v \in Validators,
             \/ \E role \in {0, 1}, a \in Addresses, c \in Commissions : newregvldtor(v, role, a, c)
             \/ \E a \in Addresses : evmsetstaker(v, a)
             \/ \E is_close \in BOOLEAN : updcreditstk(v, is_close)
             \/ \E h \in Nat : endorse(v, h)
      PROVE  EndorseManageTypeOK'
  BY <1>2, NewRow, SetStakerRow, UpdCreditRow, EndorseMoves
<1>3. ASSUME NEW u \in EvmStakers, NEW v \in Validators, NEW q \in Nat \ {0},
             stake(u, v, q) \/ unstake(u, v, q) \/ stakexsat(u, v, q) \/ unstakexsat(u, v, q)
      PROVE  EndorseManageTypeOK'
  BY <1>1, <1>3, StakeKeeps, StakeXsatKeeps
<1>4. ASSUME NEW u \in Stakers, NEW v \in Validators, NEW w \in Validators, NEW q \in Nat \ {0},
             newstake(u, v, w, q) \/ restakexsat(u, v, w, q)
      PROVE  EndorseManageTypeOK'
  BY <1>4, RestakeKeeps, RestakeXsatKeeps
<1>5. CASE AdminStep(Validators, Rewards)
  BY <1>5, AdminFollows
<1>6. ASSUME NEW u \in Stakers, NEW v \in Validators, claim(u, v)
      PROVE  EndorseManageTypeOK'
  BY <1>6, ClaimKeeps
<1> QED
  BY <1>2, <1>3, <1>4, <1>5, <1>6, StepKinds

-----------------------------------------------------------------------------
(* The amounts of the stakes. *)

\* No stake changes its amount.
AmountsKept ==
  \A u \in Stakers, v \in Validators :
    /\ staker'[u][v].quantity = staker[u][v].quantity
    /\ staker'[u][v].xsat_quantity = staker[u][v].xsat_quantity

\* The amounts of u with v change by q and x, and no other.
AmountMoves(a, b, u, v, q, x) ==
  /\ b[u][v].quantity = a[u][v].quantity + q /\ b[u][v].xsat_quantity = a[u][v].xsat_quantity + x
  /\ \A y \in Stakers, w \in Validators : y # u \/ w # v => b[y][w] = a[y][w]

\* What the stakers may do about the amounts without the staking contracts.
LEMMA AmountsMove ==
  ASSUME EndorseManageTypeOK, DirectNext(Stakers, Validators) \/ ConsensusCalls(Validators, Rewards)
  PROVE  \/ AmountsKept
         \/ \E u \in EvmStakers, v \in Validators, q \in Int, x \in Int :
              ~IsCredit(u) /\ AmountMoves(staker, staker', u, v, q, x)
         \/ \E u \in Stakers, v, w \in Validators, q \in Int, x \in Int :
              /\ ~IsCredit(u)
              /\ \E m \in [Stakers -> [Validators -> StakeRow]] :
                   AmountMoves(staker, m, u, v, -q, -x) /\ AmountMoves(m, staker', u, w, q, x)
<1> DEFINE Goal == \/ AmountsKept
                   \/ \E u \in EvmStakers, v \in Validators, q \in Int, x \in Int :
                        ~IsCredit(u) /\ AmountMoves(staker, staker', u, v, q, x)
                   \/ \E u \in Stakers, v, w \in Validators, q \in Int, x \in Int :
                        /\ ~IsCredit(u)
                        /\ \E m \in [Stakers -> [Validators -> StakeRow]] :
                             AmountMoves(staker, m, u, v, -q, -x) /\ AmountMoves(m, staker', u, w, q, x)
<1>0. /\ Tables.staker = staker /\ Tables'.staker = staker' /\ Tables \in TablesType
      /\ staker \in [Stakers -> [Validators -> StakeRow]]
  BY TablesParts DEF Tables, EndorseManageTypeOK
<1>1. CASE RowsFollow(Tables, Tables')
  BY <1>0, <1>1 DEF RowsFollow, AmountsKept
<1>2. ASSUME NEW v \in Validators, OneRow(Tables, Tables', v)
      PROVE  Goal
  BY <1>0, <1>2 DEF OneRow, AmountsKept
<1>3. ASSUME NEW v \in Validators, NEW h \in Nat, endorse(v, h)
      PROVE  Goal
  <2>1. PICK m : /\ RowsFollow(Tables, m) /\ m.validator[v].registered
                 /\ \/ Tables' = m
                    \/ \E u \in EvmStakers :
                         CreditChanged(m, Tables', u, v, m.staker[u][v].quantity, get_credit_weight(h))
    BY <1>3, EndorseMoves
  <2>2. m.staker = staker
    BY <1>0, <2>1 DEF RowsFollow
  <2>3. ASSUME NEW u \in EvmStakers,
               CreditChanged(m, Tables', u, v, m.staker[u][v].quantity, get_credit_weight(h))
        PROVE  AmountsKept
    <3>1. /\ staker'[u][v].quantity = staker[u][v].quantity
          /\ staker'[u][v].xsat_quantity = staker[u][v].xsat_quantity
          /\ \A y \in Stakers, w \in Validators : y # u \/ w # v => staker'[y][w] = staker[y][w]
      BY <1>0, <2>2, <2>3 DEF CreditChanged, Moved
    <3> QED
      BY <3>1 DEF AmountsKept
  <2> QED
    BY <1>0, <2>1, <2>2, <2>3 DEF AmountsKept
<1>4. ASSUME NEW u \in Stakers, NEW v \in Validators, claim(u, v)
      PROVE  Goal
  <2>1. AmountsKept
    BY <1>0, <1>4, ClaimMoves DEF Moved, AmountsKept
  <2> QED
    BY <2>1
<1>5. ASSUME NEW t \in TablesType, NEW s \in TablesType, NEW u \in Stakers, NEW v \in Validators, NEW q \in Int
      PROVE  /\ ~IsCredit(u) /\ t.validator[v].registered /\ StakeChanged(t, s, u, v, q) =>
                  AmountMoves(t.staker, s.staker, u, v, q, 0)
             /\ XsatChanged(t, s, u, v, q) => AmountMoves(t.staker, s.staker, u, v, 0, q)
  <2>1. t.staker[u][v] \in StakeRow
    BY TablesParts
  <2>2. ASSUME ~IsCredit(u), t.validator[v].registered, StakeChanged(t, s, u, v, q)
        PROVE  AmountMoves(t.staker, s.staker, u, v, q, 0)
    <3>1. Counted(t, u, v) = t.staker[u][v].quantity
      BY <2>2, CountedType, RowOfRegistered
    <3> QED
      BY <2>1, <2>2, <3>1 DEF StakeChanged, Moved, AmountMoves, StakeRow
  <2>3. ASSUME XsatChanged(t, s, u, v, q)
        PROVE  AmountMoves(t.staker, s.staker, u, v, 0, q)
    BY <2>1, <2>3 DEF XsatChanged, Moved, AmountMoves, StakeRow
  <2> QED
    BY <2>2, <2>3
<1>6. ASSUME NEW u \in EvmStakers, NEW v \in Validators, NEW q \in Nat \ {0},
             stake(u, v, q) \/ unstake(u, v, q) \/ stakexsat(u, v, q) \/ unstakexsat(u, v, q)
      PROVE  Goal
  <2>1. u \in Stakers /\ q \in Int /\ -q \in Int /\ 0 \in Int
    BY Inputs
  <2>2. Tables' \in TablesType
    BY <1>6, <2>1, StakeKeeps, StakeXsatKeeps DEF EndorseManageTypeOK
  <2>3. /\ ~IsCredit(u) /\ Tables.validator[v].registered
        /\ \/ StakeChanged(Tables, Tables', u, v, q) \/ StakeChanged(Tables, Tables', u, v, -q)
           \/ XsatChanged(Tables, Tables', u, v, q) \/ XsatChanged(Tables, Tables', u, v, -q)
    BY <1>6, <2>1, StakeKeeps, StakeXsatKeeps
  <2>4. \E e \in Int, x \in Int : AmountMoves(Tables.staker, Tables'.staker, u, v, e, x)
    BY <1>0, <1>5, <2>1, <2>2, <2>3
  <2> QED
    BY <1>0, <2>3, <2>4
<1>7. ASSUME NEW u \in Stakers, NEW v \in Validators, NEW w \in Validators, NEW q \in Nat \ {0},
             newstake(u, v, w, q) \/ restakexsat(u, v, w, q)
      PROVE  Goal
  <2>1. q \in Int /\ -q \in Int /\ \E z \in Int : z = 0 /\ -z = 0
    OBVIOUS
  <2>2. Tables' \in TablesType /\ ~IsCredit(u)
    BY <1>7, RestakeKeeps, RestakeXsatKeeps DEF EndorseManageTypeOK
  <2>3. PICK m \in TablesType :
          /\ Tables.validator[v].registered /\ m.validator[w].registered
          /\ \/ StakeChanged(Tables, m, u, v, -q) /\ StakeChanged(m, Tables', u, w, q)
             \/ XsatChanged(Tables, m, u, v, -q) /\ XsatChanged(m, Tables', u, w, q)
    BY <1>7, RestakeKeeps, RestakeXsatKeeps
  <2>4. \/ AmountMoves(staker, m.staker, u, v, -q, 0) /\ AmountMoves(m.staker, staker', u, w, q, 0)
        \/ AmountMoves(staker, m.staker, u, v, 0, -q) /\ AmountMoves(m.staker, staker', u, w, 0, q)
    BY <1>0, <1>5, <2>1, <2>2, <2>3
  <2>5. m.staker \in [Stakers -> [Validators -> StakeRow]]
    BY TablesParts
  <2> QED
    BY <2>1, <2>2, <2>4, <2>5
<1>8. CASE AdminStep(Validators, Rewards)
  BY <1>1, <1>8, AdminFollows
<1>9. ASSUME NEW v \in Validators,
             \/ \E role \in {0, 1}, a \in Addresses, c \in Commissions : newregvldtor(v, role, a, c)
             \/ \E a \in Addresses : evmsetstaker(v, a)
             \/ \E is_close \in BOOLEAN : updcreditstk(v, is_close)
      PROVE  OneRow(Tables, Tables', v)
  BY <1>9, NewRow, SetStakerRow, UpdCreditRow
<1> QED
  BY <1>2, <1>3, <1>4, <1>6, <1>7, <1>8, <1>1, <1>9, StepKinds

-----------------------------------------------------------------------------
(* custody.xsat and compete.xsat. *)

\* Where endrmng.xsat stays as it is, it keeps the types and the amounts.
LEMMA EndorseManageStays ==
  ASSUME EndorseManageTypeOK, UNCHANGED endorseManageVars
  PROVE  EndorseManageTypeOK' /\ Tables' = Tables /\ staker' = staker
BY DEF EndorseManageTypeOK, endorseManageVars, tableVars, chainVars, Tables, TablesType, NoStrayStake,
       CreditWeightsOK

\* Whoever has a custody has it for a validator.
LEMMA CustodyOf ==
  ASSUME CustodyTypeOK, NEW u \in CreditStakers
  PROVE  /\ custody[u] \in CustodyType
         /\ HasCustody(u) <=> custody[u].validator # "none"
         /\ HasCustody(u) => custody[u].validator \in Validators
         /\ ~HasCustody(u) => custody[u].value = 0
BY DEF CustodyTypeOK, CustodyType, HasCustody, NoCustody

\* delcustody and handle_staking set the stake of the custody, and its value.
LEMMA CustodyCalls ==
  ASSUME EndorseManageTypeOK, CustodyTypeOK, NEW u \in CreditStakers,
         delcustody(u) \/ \E enough \in BOOLEAN : handle_staking(u, enough)
  PROVE  /\ HasCustody(u) /\ custody[u].validator \in Validators
         /\ \E value \in Nat :
              /\ \/ value # staker[u][custody[u].validator].quantity /\ creditstake(u, custody[u].validator, value)
                 \/ value = staker[u][custody[u].validator].quantity /\ UNCHANGED endorseManageVars
              /\ \/ custody' = [custody EXCEPT ![u] = NoCustody] /\ value = 0
                 \/ custody' = [custody EXCEPT ![u].value = value]
         /\ enrollment' = [enrollment EXCEPT ![custody[u].validator] = NoEnrollment] \/ enrollment' = enrollment
         /\ UNCHANGED competeVars
<1> DEFINE v == custody[u].validator
<1>1. HasCustody(u) /\ v \in Validators
  BY CustodyOf DEF delcustody, handle_staking
<1>2. u \in EvmStakers /\ staker[u][v].quantity \in Nat
  <2>1. Tables.staker = staker /\ Tables \in TablesType /\ u \in Stakers /\ u \in EvmStakers
    BY Inputs DEF Tables, EndorseManageTypeOK
  <2>2. staker[u][v] \in StakeRow
    BY <1>1, <2>1, TablesParts
  <2> QED
    BY <2>1, <2>2 DEF StakeRow
<1>3. CASE delcustody(u)
  <2>1. CASE staker[u][v].quantity > 0
    <3>1. 0 # staker[u][v].quantity /\ creditstake(u, v, 0) /\ 0 \in Nat
      BY <1>2, <1>3, <2>1 DEF delcustody
    <3> QED
      BY <1>1, <1>3, <3>1 DEF delcustody
  <2>2. CASE ~(staker[u][v].quantity > 0)
    <3>1. 0 = staker[u][v].quantity /\ UNCHANGED endorseManageVars /\ 0 \in Nat
      BY <1>2, <1>3, <2>2 DEF delcustody
    <3> QED
      BY <1>1, <1>3, <3>1 DEF delcustody
  <2> QED
    BY <2>1, <2>2
<1>4. ASSUME NEW enough \in BOOLEAN, handle_staking(u, enough)
      PROVE  /\ \E value \in Nat :
                  /\ value # staker[u][v].quantity /\ creditstake(u, v, value)
                  /\ custody' = [custody EXCEPT ![u].value = value]
             /\ UNCHANGED <<enrollment, competeVars>>
  <2>1. (IF enough THEN MIN_BTC_STAKE_FOR_VALIDATOR ELSE 0) \in Nat
    BY Inputs
  <2> QED
    BY <1>4, <2>1 DEF handle_staking
<1> QED
  BY <1>1, <1>3, <1>4

\* The number of rounds and what a round has activated.
LEMMA RoundsStay ==
  ASSUME CustodyTypeOK, UNCHANGED competeVars
  PROVE  rounds' \in Seq(Nat) /\ activation' \in [Validators -> 0..Len(rounds')]
BY DEF CustodyTypeOK, competeVars

\* Every step of custody.xsat and compete.xsat keeps the types.
LEMMA CustodyKeepsTypes ==
  ASSUME EndorseManageTypeOK, CustodyTypeOK, CustodyNext(Stakers, Validators)
  PROVE  EndorseManageTypeOK' /\ CustodyTypeOK'
<1>1. /\ custody \in [CreditStakers -> CustodyType] /\ enrollment \in [Validators -> EnrollmentType]
      /\ \A u \in CreditStakers : custody[u].validator = "none" => custody[u] = NoCustody
      /\ rounds \in Seq(Nat) /\ activation \in [Validators -> 0..Len(rounds)]
      /\ head_height \in Nat
  BY DEF CustodyTypeOK, EndorseManageTypeOK
<1>2. NoCustody \in CustodyType /\ NoEnrollment \in EnrollmentType /\ NoCustody.validator = "none"
  BY DEF NoCustody, CustodyType, NoEnrollment, EnrollmentType
<1>3. ASSUME NEW u \in CreditStakers, NEW v \in Validators, addcustody(u, v)
      PROVE  EndorseManageTypeOK' /\ CustodyTypeOK'
  <2>1. [validator |-> v, value |-> 0] \in CustodyType /\ v # "none"
    BY CustodyAssumption DEF CustodyType
  <2>2. custody' = [custody EXCEPT ![u] = [validator |-> v, value |-> 0]]
    BY <1>3 DEF addcustody
  <2>3. custody' \in [CreditStakers -> CustodyType]
    BY <1>1, <2>1, <2>2
  <2>4. \A w \in CreditStakers : custody'[w].validator = "none" => custody'[w] = NoCustody
    BY <1>1, <2>1, <2>2
  <2>5. UNCHANGED <<enrollment, competeVars, endorseManageVars>>
    BY <1>3 DEF addcustody
  <2> QED
    BY <1>1, <2>3, <2>4, <2>5, RoundsStay, EndorseManageStays DEF CustodyTypeOK
<1>4. ASSUME NEW u \in CreditStakers, delcustody(u) \/ \E enough \in BOOLEAN : handle_staking(u, enough)
      PROVE  EndorseManageTypeOK' /\ CustodyTypeOK'
  <2> DEFINE v == custody[u].validator
  <2>1. HasCustody(u) /\ v \in Validators /\ u \in EvmStakers
    BY <1>4, CustodyCalls, Inputs
  <2>2. PICK value \in Nat :
          /\ creditstake(u, v, value) \/ UNCHANGED endorseManageVars
          /\ \/ custody' = [custody EXCEPT ![u] = NoCustody]
             \/ custody' = [custody EXCEPT ![u].value = value]
          /\ enrollment' = [enrollment EXCEPT ![v] = NoEnrollment] \/ enrollment' = enrollment
          /\ UNCHANGED competeVars
    BY <1>4, CustodyCalls
  <2>3. EndorseManageTypeOK'
    BY <2>1, <2>2, CreditStakeKeeps, EndorseManageStays
  <2>4. \A w \in CreditStakers :
          custody'[w] \in CustodyType /\ (custody'[w].validator = "none" => custody'[w] = NoCustody)
    <3>1. CASE custody' = [custody EXCEPT ![u] = NoCustody]
      BY <1>1, <1>2, <3>1
    <3>2. CASE custody' = [custody EXCEPT ![u].value = value]
      <4>1. custody'[u] = [custody[u] EXCEPT !.value = value] /\ \A w \in CreditStakers : w # u => custody'[w] = custody[w]
        BY <1>1, <3>2
      <4>2. custody'[u] \in CustodyType /\ custody'[u].validator = v
        BY <1>1, <4>1 DEF CustodyType
      <4>3. v # "none"
        BY <2>1, CustodyAssumption
      <4> QED
        BY <1>1, <4>1, <4>2, <4>3
    <3> QED
      BY <2>2, <3>1, <3>2
  <2>5. custody' \in [CreditStakers -> CustodyType]
    <3>1. DOMAIN custody' = CreditStakers /\ custody' = [w \in CreditStakers |-> custody'[w]]
      BY <1>1, <2>2
    <3> QED
      BY <2>4, <3>1
  <2>6. enrollment' \in [Validators -> EnrollmentType]
    BY <1>1, <1>2, <2>1, <2>2
  <2> QED
    BY <2>2, <2>3, <2>4, <2>5, <2>6, RoundsStay DEF CustodyTypeOK
<1>5. ASSUME NEW v \in Validators,
             \/ enroll(v) \/ verifytx(v)
             \/ \E result \in {"verified", "failed"} : verifyresult(v, result)
      PROVE  EndorseManageTypeOK' /\ CustodyTypeOK'
  <2>1. UNCHANGED <<custody, competeVars, endorseManageVars>>
    BY <1>5 DEF enroll, verifytx, verifyresult
  <2>2. PICK n : enrollment' = [enrollment EXCEPT ![v] = n] /\ n \in EnrollmentType
    <3>1. CASE enroll(v)
      <4>1. [end_height |-> head_height + valid_blocks, is_valid |-> "pending", txid |-> FALSE] \in EnrollmentType
        BY <1>1, CustodyAssumption DEF EnrollmentType
      <4> QED
        BY <3>1, <4>1 DEF enroll
    <3>2. CASE verifytx(v)
      <4>1. [enrollment[v] EXCEPT !.txid = TRUE] \in EnrollmentType
        BY <1>1 DEF EnrollmentType
      <4>2. enrollment' = [enrollment EXCEPT ![v] = [enrollment[v] EXCEPT !.txid = TRUE]]
        BY <1>1, <3>2 DEF verifytx
      <4> QED
        BY <4>1, <4>2
    <3>3. ASSUME NEW result \in {"verified", "failed"}, verifyresult(v, result)
          PROVE  \E n \in EnrollmentType : enrollment' = [enrollment EXCEPT ![v] = n]
      <4>1. [enrollment[v] EXCEPT !.is_valid = result] \in EnrollmentType
        BY <1>1 DEF EnrollmentType
      <4>2. enrollment' = [enrollment EXCEPT ![v] = [enrollment[v] EXCEPT !.is_valid = result]]
        BY <1>1, <3>3 DEF verifyresult
      <4> QED
        BY <4>1, <4>2
    <3> QED
      BY <1>5, <3>1, <3>2, <3>3
  <2>3. enrollment' \in [Validators -> EnrollmentType]
    BY <1>1, <2>2
  <2> QED
    BY <1>1, <2>1, <2>3, RoundsStay, EndorseManageStays DEF CustodyTypeOK
<1>6. ASSUME NEW v \in Validators, activate(v)
      PROVE  EndorseManageTypeOK' /\ CustodyTypeOK'
  <2>1. UNCHANGED <<rounds, custodyVars, endorseManageVars>> /\ activation' = [activation EXCEPT ![v] = Len(rounds)]
    BY <1>6 DEF activate
  <2>2. Len(rounds) \in 0..Len(rounds)
    BY <1>1, LenProperties
  <2>3. activation' \in [Validators -> 0..Len(rounds')]
    BY <1>1, <2>1, <2>2
  <2> QED
    BY <1>1, <2>1, <2>3, EndorseManageStays DEF CustodyTypeOK, custodyVars
<1>7. ASSUME NEW q \in Quotas, addround(q)
      PROVE  EndorseManageTypeOK' /\ CustodyTypeOK'
  <2>1. UNCHANGED <<activation, custodyVars, endorseManageVars>> /\ rounds' = Append(rounds, q)
    BY <1>7 DEF addround
  <2>2. rounds' \in Seq(Nat) /\ Len(rounds') = Len(rounds) + 1 /\ Len(rounds) \in Nat
    BY <1>1, <2>1, CustodyAssumption, LenProperties, AppendProperties
  <2>3. activation' \in [Validators -> 0..Len(rounds')]
    BY <1>1, <2>1, <2>2
  <2> QED
    BY <1>1, <2>1, <2>2, <2>3, EndorseManageStays DEF CustodyTypeOK, custodyVars
<1> QED
  BY <1>3, <1>4, <1>5, <1>6, <1>7 DEF CustodyNext

\* The step of custody.xsat and the credit stakes.
LEMMA CustodyKeepsCredit ==
  ASSUME EndorseManageTypeOK, CustodyTypeOK, CreditInCustody, CustodyNext(Stakers, Validators)
  PROVE  CreditInCustody'
<1>1. /\ custody \in [CreditStakers -> CustodyType] /\ CreditStakers \subseteq Stakers
      /\ Tables.staker = staker /\ Tables'.staker = staker'
  BY Inputs DEF CustodyTypeOK, Tables
<1>2. ASSUME NEW u \in CreditStakers, NEW v \in Validators, addcustody(u, v)
      PROVE  CreditInCustody'
  <2>1. ~HasCustody(u) /\ staker' = staker /\ custody' = [custody EXCEPT ![u] = [validator |-> v, value |-> 0]]
    BY <1>2, EndorseManageStays DEF addcustody
  <2>2. \A w \in Validators : staker'[u][w].quantity = 0
    BY <2>1 DEF CreditInCustody
  <2>3. custody'[u].value = 0 /\ \A y \in CreditStakers : y # u => custody'[y] = custody[y]
    BY <1>1, <2>1
  <2> QED
    BY <2>1, <2>2, <2>3 DEF CreditInCustody, HasCustody
<1>3. ASSUME NEW u \in CreditStakers, delcustody(u) \/ \E enough \in BOOLEAN : handle_staking(u, enough)
      PROVE  CreditInCustody'
  <2> DEFINE v == custody[u].validator
  <2>1. HasCustody(u) /\ v \in Validators /\ v # "none" /\ u \in EvmStakers
    BY <1>3, CustodyCalls, Inputs, CustodyAssumption
  <2>2. PICK value \in Nat :
          /\ \/ creditstake(u, v, value)
             \/ value = staker[u][v].quantity /\ UNCHANGED endorseManageVars
          /\ \/ custody' = [custody EXCEPT ![u] = NoCustody] /\ value = 0
             \/ custody' = [custody EXCEPT ![u].value = value]
    BY <1>3, CustodyCalls
  <2>3. /\ staker'[u][v].quantity = value
        /\ \A y \in CreditStakers, w \in Validators : y # u \/ w # v => staker'[y][w] = staker[y][w]
    <3>1. CASE creditstake(u, v, value)
      BY <1>1, <2>1, <3>1, CreditStakeKeeps DEF CreditChanged, Moved
    <3>2. CASE value = staker[u][v].quantity /\ UNCHANGED endorseManageVars
      BY <3>2, EndorseManageStays
    <3> QED
      BY <2>2, <3>1, <3>2
  <2>4. \A w \in Validators : w # v => staker'[u][w].quantity = 0
    BY <2>3 DEF CreditInCustody
  <2>5. /\ \A y \in CreditStakers : y # u => custody'[y] = custody[y]
        /\ \/ custody'[u] = NoCustody /\ value = 0
           \/ custody'[u] = [validator |-> v, value |-> value] /\ custody'[u] # NoCustody
    <3>1. CASE custody' = [custody EXCEPT ![u] = NoCustody] /\ value = 0
      BY <1>1, <3>1
    <3>2. CASE custody' = [custody EXCEPT ![u].value = value]
      <4>1. custody'[u] = [custody[u] EXCEPT !.value = value] /\ \A y \in CreditStakers : y # u => custody'[y] = custody[y]
        BY <1>1, <3>2
      <4> QED
        BY <1>1, <2>1, <4>1 DEF CustodyType, NoCustody
    <3> QED
      BY <2>2, <3>1, <3>2
  <2>6. \A y \in CreditStakers, w \in Validators : y # u => staker'[y][w].quantity =
          IF custody'[y] # NoCustody /\ custody'[y].validator = w THEN custody'[y].value ELSE 0
    BY <2>3, <2>5 DEF CreditInCustody, HasCustody
  <2>7. \A w \in Validators : staker'[u][w].quantity =
          IF custody'[u] # NoCustody /\ custody'[u].validator = w THEN custody'[u].value ELSE 0
    BY <2>3, <2>4, <2>5
  <2> QED
    BY <2>6, <2>7 DEF CreditInCustody, HasCustody
<1>4. ASSUME UNCHANGED <<custody, endorseManageVars>>
      PROVE  CreditInCustody'
  BY <1>4, EndorseManageStays DEF CreditInCustody, HasCustody
<1>5. ASSUME NEW v \in Validators,
             \/ enroll(v) \/ verifytx(v) \/ activate(v)
             \/ \E result \in {"verified", "failed"} : verifyresult(v, result)
      PROVE  UNCHANGED <<custody, endorseManageVars>>
  BY <1>5 DEF enroll, verifytx, activate, verifyresult, custodyVars
<1>6. ASSUME NEW q \in Quotas, addround(q)
      PROVE  UNCHANGED <<custody, endorseManageVars>>
  BY <1>6 DEF addround, custodyVars
<1> QED
  BY <1>2, <1>3, <1>4, <1>5, <1>6 DEF CustodyNext

\* Elsewhere no credit stake changes its amount.
LEMMA OthersKeepCredit ==
  ASSUME EndorseManageTypeOK, CreditInCustody, custody' = custody,
         \A u \in CreditStakers, v \in Validators : staker'[u][v].quantity = staker[u][v].quantity
  PROVE  CreditInCustody'
BY DEF CreditInCustody, HasCustody

\* The validators that a round activated.
InRound(r) == {v \in Validators : activation[v] = r}

\* The validators activated and the places there are, counted by round: all are
\* taken only if every round is full, and a place that is left is in the last.
LEMMA Places ==
  ASSUME CustodyTypeOK, RoundsFilledInOrder
  PROVE  /\ Len(rounds) \in Nat /\ \A r \in Nat : Cardinality(InRound(r)) \in Nat
         /\ Cardinality(Activated) = total_quotas =>
              \A r \in 1..Len(rounds) : Cardinality(InRound(r)) = rounds[r]
         /\ Cardinality(Activated) < total_quotas =>
              Len(rounds) # 0 /\ Cardinality(InRound(Len(rounds))) < rounds[Len(rounds)]
<1> DEFINE V == 1..Len(rounds)
<1>a. PICK n : n = [r \in V |-> Cardinality(InRound(r))]
  OBVIOUS
<1>b. PICK d : d = [r \in V |-> rounds[r] - n[r]]
  OBVIOUS
<1>c. PICK one : one = [v \in Activated |-> 1]
  OBVIOUS
<1>1. /\ rounds \in Seq(Nat) /\ activation \in [Validators -> 0..Len(rounds)]
      /\ Len(rounds) \in Nat /\ DOMAIN rounds = V /\ \A r \in V : rounds[r] \in Nat
  BY LenProperties, ElementOfSeq DEF CustodyTypeOK
<1>2. IsFiniteSet(Validators) /\ IsFiniteSet(Activated) /\ IsFiniteSet(V)
  <2>1. Activated \subseteq Validators
    BY DEF Activated
  <2> QED
    BY <1>1, <2>1, StakersFinite, FS_Subset, FS_Interval
<1>3. \A r \in Nat : IsFiniteSet(InRound(r)) /\ Cardinality(InRound(r)) \in Nat
  <2>1. \A r \in Nat : InRound(r) \subseteq Validators
    BY DEF InRound
  <2> QED
    BY <1>2, <2>1, FS_Subset, FS_CardinalityType
<1>4. \A r \in V : n[r] \in Nat /\ n[r] <= rounds[r] /\ (r < Len(rounds) => n[r] = rounds[r])
  <2>1. \A r \in V : /\ Cardinality(InRound(r)) <= rounds[r]
                     /\ r < Len(rounds) => Cardinality(InRound(r)) = rounds[r]
    BY <1>1 DEF RoundsFilledInOrder, InRound
  <2>2. \A r \in V : r \in Nat /\ n[r] = Cardinality(InRound(r))
    BY <1>1, <1>a
  <2> QED
    BY <1>3, <2>1, <2>2
<1>5. SumFunctionOnSet(n, V) = Cardinality(Activated)
  <2>1. \A v \in Activated : activation[v] \in V /\ one[v] = 1 /\ one[v] \in Int
    BY <1>1, <1>c DEF Activated
  <2>2. \A r \in V : n[r] = SumFunctionOnSet(one, Fiber(Activated, activation, r))
    <3>1. ASSUME NEW r \in V
          PROVE  n[r] = SumFunctionOnSet(one, Fiber(Activated, activation, r))
      <4>1. Fiber(Activated, activation, r) = InRound(r)
        BY <1>1 DEF Fiber, InRound, Activated
      <4>2. \A v \in InRound(r) : one[v] = 1
        BY <1>1, <1>c DEF InRound, Activated
      <4>3. SumFunctionOnSet(one, InRound(r)) = 1 * Cardinality(InRound(r))
        <5>1. r \in Nat /\ 1 \in Int /\ IsFiniteSet(InRound(r))
          BY <1>1, <1>3
        <5> QED
          BY <4>2, <5>1, SumConstant
      <4> QED
        BY <1>1, <1>3, <1>a, <4>1, <4>3
    <3> QED
      BY <3>1
  <2>3. SumFunctionOnSet(n, V) = SumFunctionOnSet(one, Activated)
    <3>1. \A v \in Activated : activation[v] \in V
      BY <2>1
    <3>2. \A v \in Activated : one[v] \in Int
      BY <2>1
    <3>3. IsFiniteSet(V) /\ IsFiniteSet(Activated)
      BY <1>2
    <3>4. PICK A, p, W : A = Activated /\ p = activation /\ W = V
      OBVIOUS
    <3>5. /\ \A v \in A : p[v] \in W /\ one[v] \in Int
          /\ \A r \in W : n[r] = SumFunctionOnSet(one, Fiber(A, p, r))
          /\ IsFiniteSet(W) /\ IsFiniteSet(A)
      BY <2>2, <3>1, <3>2, <3>3, <3>4
    <3>6. SumFunctionOnSet(n, W) = SumFunctionOnSet(one, A)
      BY ONLY <3>5, SumFibers
    <3> QED
      BY <3>4, <3>6
  <2>4. SumFunctionOnSet(one, Activated) = 1 * Cardinality(Activated) /\ Cardinality(Activated) \in Nat
    <3>1. Cardinality(Activated) \in Nat
      BY <1>2, FS_CardinalityType
    <3>2. 1 \in Int /\ \A v \in Activated : one[v] = 1
      BY <2>1
    <3>3. SumFunctionOnSet(one, Activated) = 1 * Cardinality(Activated)
      BY <1>2, <3>2, SumConstant
    <3> QED
      BY <3>1, <3>3
  <2> QED
    BY <2>3, <2>4
<1>6. SumFunctionOnSet(rounds, V) = SumFunctionOnSet(d, V) + SumFunctionOnSet(n, V)
  <2>1. \A r \in V : d[r] \in Int /\ n[r] \in Int /\ rounds[r] = d[r] + n[r]
    BY <1>1, <1>4, <1>b
  <2> QED
    BY <1>2, <2>1, SumAdd
<1>7. total_quotas = SumFunctionOnSet(rounds, V)
  BY <1>1 DEF total_quotas, Total, SumFunction
<1>8. \A r \in V : d[r] \in Nat /\ d[r] = rounds[r] - n[r]
  BY <1>1, <1>4, <1>b
<1>9. SumFunctionOnSet(d, V) \in Nat /\ \A r \in V : d[r] <= SumFunctionOnSet(d, V)
  BY <1>2, <1>8, SumBound
<1>10. SumFunctionOnSet(n, V) \in Nat
  BY <1>2, <1>4, SumBound
<1>11. ASSUME Cardinality(Activated) = total_quotas, NEW r \in V
       PROVE  n[r] = rounds[r]
  <2>1. SumFunctionOnSet(d, V) = 0
    BY <1>5, <1>6, <1>7, <1>9, <1>10, <1>11
  <2>2. d[r] = 0
    BY <1>8, <1>9, <2>1
  <2> QED
    BY <1>1, <1>4, <1>8, <2>2
<1>12. ASSUME Cardinality(Activated) < total_quotas
       PROVE  Len(rounds) # 0 /\ Cardinality(InRound(Len(rounds))) < rounds[Len(rounds)]
  <2>1. SumFunctionOnSet(d, V) > 0
    BY <1>5, <1>6, <1>7, <1>9, <1>10, <1>12
  <2>2. \E r \in V : d[r] # 0
    <3>1. SUFFICES ASSUME \A r \in V : d[r] = 0
                   PROVE  FALSE
      OBVIOUS
    <3>2. SumFunctionOnSet(d, V) = 0 * Cardinality(V)
      BY <1>2, <3>1, SumConstant
    <3>3. Cardinality(V) \in Nat
      BY <1>2, FS_CardinalityType
    <3> QED
      BY <2>1, <3>2, <3>3
  <2>3. PICK r \in V : d[r] # 0
    BY <2>2
  <2>4. r = Len(rounds) /\ n[r] < rounds[r]
    <3>1. n[r] # rounds[r]
      BY <1>1, <1>4, <1>8, <2>3
    <3>2. r \in Nat /\ r <= Len(rounds) /\ ~(r < Len(rounds))
      BY <1>1, <1>4, <3>1
    <3>3. r = Len(rounds)
      <4>1. \A a, b \in Nat : a <= b /\ ~(a < b) => a = b
        OBVIOUS
      <4> QED
        BY <1>1, <3>2, <4>1
    <3>4. n[r] < rounds[r]
      BY <1>1, <1>4, <3>1
    <3> QED
      BY <3>3, <3>4
  <2>5. n[r] = Cardinality(InRound(r))
    BY <1>a
  <2> QED
    BY <1>1, <2>4, <2>5
<1>13. \A r \in 1..Len(rounds) : Cardinality(InRound(r)) = n[r]
  BY <1>a
<1> QED
  BY <1>1, <1>3, <1>11, <1>12, <1>13

\* Rounds are filled in order.
LEMMA RoundsStayFilled ==
  ASSUME CustodyTypeOK, RoundsFilledInOrder, CustodyNext(Stakers, Validators)
  PROVE  RoundsFilledInOrder'
<1>1. /\ rounds \in Seq(Nat) /\ activation \in [Validators -> 0..Len(rounds)]
      /\ Len(rounds) \in Nat /\ DOMAIN rounds = 1..Len(rounds) /\ \A r \in 1..Len(rounds) : rounds[r] \in Nat
      /\ \A r \in 1..Len(rounds) : InRound(r) = {v \in Validators : activation[v] = r}
      /\ IsFiniteSet(Validators)
  BY LenProperties, ElementOfSeq, StakersFinite DEF CustodyTypeOK, InRound
<1>2. ASSUME UNCHANGED competeVars
      PROVE  RoundsFilledInOrder'
  BY <1>2 DEF RoundsFilledInOrder, competeVars
<1>3. ASSUME NEW q \in Quotas, addround(q)
      PROVE  RoundsFilledInOrder'
  <2>1. /\ rounds' = Append(rounds, q) /\ activation' = activation /\ q \in Nat
        /\ Cardinality(Activated) = total_quotas
    BY <1>3, CustodyAssumption DEF addround
  <2>2. \A r \in 1..Len(rounds) : Cardinality(InRound(r)) = rounds[r]
    BY <2>1, Places
  <2>3. /\ Len(rounds') = Len(rounds) + 1 /\ DOMAIN rounds' = 1..(Len(rounds) + 1)
        /\ \A r \in 1..Len(rounds) : rounds'[r] = rounds[r] /\ rounds'[Len(rounds) + 1] = q
    BY <1>1, <2>1, AppendProperties
  <2>4. rounds'[Len(rounds) + 1] = q
    BY <1>1, <2>1, AppendProperties
  <2>5. {v \in Validators : activation'[v] = Len(rounds) + 1} = {}
    BY <1>1, <2>1
  <2>6. ASSUME NEW r \in DOMAIN rounds'
        PROVE  /\ Cardinality({v \in Validators : activation'[v] = r}) <= rounds'[r]
               /\ r < Len(rounds') => Cardinality({v \in Validators : activation'[v] = r}) = rounds'[r]
    <3>1. CASE r \in 1..Len(rounds)
      <4>1. Cardinality({v \in Validators : activation'[v] = r}) = rounds[r] /\ rounds'[r] = rounds[r]
        BY <1>1, <2>1, <2>2, <2>3, <3>1
      <4> QED
        BY <1>1, <3>1, <4>1
    <3>2. CASE r = Len(rounds) + 1
      <4>1. Cardinality({v \in Validators : activation'[v] = r}) = 0
        BY <2>5, <3>2, FS_EmptySet
      <4> QED
        BY <1>1, <2>1, <2>3, <2>4, <3>2, <4>1
    <3> QED
      BY <1>1, <2>3, <3>1, <3>2
  <2> QED
    BY <2>6 DEF RoundsFilledInOrder
<1>4. ASSUME NEW v \in Validators, activate(v)
      PROVE  RoundsFilledInOrder'
  <2> DEFINE L == Len(rounds)
  <2>1. /\ rounds' = rounds /\ activation' = [activation EXCEPT ![v] = L]
        /\ Cardinality(Activated) < total_quotas /\ activation[v] = 0
    BY <1>4 DEF activate, Activated
  <2>2. L # 0 /\ Cardinality(InRound(L)) < rounds[L] /\ Cardinality(InRound(L)) \in Nat
    BY <1>1, <2>1, Places
  <2>3. {w \in Validators : activation'[w] = L} = InRound(L) \cup {v} /\ v \notin InRound(L)
    BY <1>1, <2>1, <2>2 DEF InRound
  <2>4. Cardinality({w \in Validators : activation'[w] = L}) = Cardinality(InRound(L)) + 1
    <3>1. InRound(L) \subseteq Validators
      BY DEF InRound
    <3>2. IsFiniteSet(InRound(L))
      BY <1>1, <3>1, FS_Subset
    <3> QED
      BY <2>3, <3>2, FS_AddElement
  <2>5. \A r \in 1..L : r # L => {w \in Validators : activation'[w] = r} = InRound(r)
    <3>1. SUFFICES ASSUME NEW r \in 1..L, r # L
                   PROVE  \A w \in Validators : activation'[w] = r <=> activation[w] = r
      BY DEF InRound
    <3>2. r # 0 /\ activation'[v] = L /\ activation[v] = 0
          /\ \A w \in Validators : w # v => activation'[w] = activation[w]
      BY <1>1, <2>1
    <3> QED
      BY <3>1, <3>2
  <2>6. ASSUME NEW r \in DOMAIN rounds'
        PROVE  /\ Cardinality({w \in Validators : activation'[w] = r}) <= rounds'[r]
               /\ r < Len(rounds') => Cardinality({w \in Validators : activation'[w] = r}) = rounds'[r]
    <3>1. CASE r = L
      BY <1>1, <2>1, <2>2, <2>4, <3>1
    <3>2. CASE r # L
      <4>1. {w \in Validators : activation'[w] = r} = {w \in Validators : activation[w] = r}
        BY <1>1, <2>1, <2>5, <3>2 DEF InRound
      <4> QED
        BY <1>1, <2>1, <3>2, <4>1 DEF RoundsFilledInOrder
    <3> QED
      BY <3>1, <3>2
  <2> QED
    BY <2>6 DEF RoundsFilledInOrder
<1>5. ASSUME NEW u \in CreditStakers, NEW v \in Validators, addcustody(u, v)
      PROVE  UNCHANGED competeVars
  BY <1>5 DEF addcustody
<1>6. ASSUME NEW u \in CreditStakers, delcustody(u) \/ \E enough \in BOOLEAN : handle_staking(u, enough)
      PROVE  UNCHANGED competeVars
  BY <1>6 DEF delcustody, handle_staking
<1>7. ASSUME NEW v \in Validators,
             \/ enroll(v) \/ verifytx(v)
             \/ \E result \in {"verified", "failed"} : verifyresult(v, result)
      PROVE  UNCHANGED competeVars
  BY <1>7 DEF enroll, verifytx, verifyresult
<1> QED
  BY <1>2, <1>3, <1>4, <1>5, <1>6, <1>7 DEF CustodyNext

-----------------------------------------------------------------------------
(* staking.xsat and xsatstk.xsat. *)

\* The sum of one number is the number.
LEMMA SumOfOne ==
  ASSUME NEW x, NEW f, f[x] \in Int
  PROVE  SumFunctionOnSet(f, {x}) = f[x]
<1>1. IsFiniteSet({x}) /\ {x} \ {x} = {} /\ x \in {x} /\ \A y \in {x} : f[y] \in Int
  BY FS_Singleton
<1>2. SumFunctionOnSet(f, {x}) = f[x] + SumFunctionOnSet(f, {x} \ {x})
  BY <1>1, SumRemove
<1>3. SumFunctionOnSet(f, {x} \ {x}) = 0
  BY <1>1, SumEmpty
<1> QED
  BY <1>2, <1>3

\* A sum over an interval is the sum of its first n numbers and of the others,
\* counted from 1 again.
LEMMA SumSplit ==
  ASSUME NEW n \in Nat, NEW m \in Nat, NEW f, \A i \in 1..(n + m) : f[i] \in Int,
         NEW g, \A i \in 1..m : g[i] = f[n + i]
  PROVE  SumFunctionOnSet(f, 1..(n + m)) = SumFunctionOnSet(f, 1..n) + SumFunctionOnSet(g, 1..m)
<1>1. PICK A, B, C : A = 1..n /\ B = (n + 1)..(n + m) /\ C = 1..m
  OBVIOUS
<1>2. /\ IsFiniteSet(A) /\ IsFiniteSet(B) /\ IsFiniteSet(C)
      /\ A \cap B = {} /\ A \cup B = 1..(n + m) /\ \A i \in A \cup B : f[i] \in Int
  <2>1. IsFiniteSet(1..n) /\ IsFiniteSet((n + 1)..(n + m)) /\ IsFiniteSet(1..m)
    <3>1. n \in Int /\ n + 1 \in Int /\ n + m \in Int /\ 1 \in Int /\ m \in Int
      OBVIOUS
    <3> QED
      BY ONLY <3>1, FS_Interval
  <2>2. A \cap B = {} /\ A \cup B = 1..(n + m)
    BY <1>1
  <2> QED
    BY <1>1, <2>1, <2>2
<1>3. SumFunctionOnSet(f, A \cup B) = SumFunctionOnSet(f, A) + SumFunctionOnSet(f, B)
  BY ONLY <1>2, SumUnion
<1>4. PICK p : p = [i \in B |-> i - n]
  OBVIOUS
<1>5. \A i \in B : p[i] \in C /\ f[i] \in Int
  BY <1>1, <1>2, <1>4
<1>6. \A i \in C : g[i] = SumFunctionOnSet(f, Fiber(B, p, i))
  <2>1. ASSUME NEW i \in C
        PROVE  g[i] = SumFunctionOnSet(f, Fiber(B, p, i))
    <3>1. n + i \in B /\ f[n + i] \in Int
      BY <1>1, <1>2
    <3>2. Fiber(B, p, i) = {n + i}
      BY <1>1, <1>4, <3>1 DEF Fiber
    <3>3. SumFunctionOnSet(f, {n + i}) = f[n + i]
      BY <3>1, SumOfOne
    <3> QED
      BY <1>1, <3>2, <3>3
  <2> QED
    BY <2>1
<1>7. SumFunctionOnSet(g, C) = SumFunctionOnSet(f, B)
  BY ONLY <1>2, <1>5, <1>6, SumFibers
<1> QED
  BY <1>1, <1>2, <1>3, <1>7

\* What a list of releases has of a token, row by row.
OfRow(row, t) == IF row.token = t THEN row.quantity ELSE 0

\* A list of releases has a natural of a token.
LEMMA OfTokenType ==
  ASSUME NEW rows \in Seq(ReleaseRow), NEW t,
         NEW f, f = [i \in 1..Len(rows) |-> OfRow(rows[i], t)]
  PROVE  /\ OfToken(rows, t) = SumFunctionOnSet(f, 1..Len(rows))
         /\ \A i \in 1..Len(rows) : f[i] \in Nat
         /\ \A i \in 1..Len(rows) : rows[i] \in ReleaseRow /\ OfRow(rows[i], t) \in Nat
         /\ OfToken(rows, t) \in Nat /\ Len(rows) \in Nat /\ DOMAIN rows = 1..Len(rows)
<1>1. Len(rows) \in Nat /\ DOMAIN rows = 1..Len(rows) /\ \A i \in 1..Len(rows) : rows[i] \in ReleaseRow
  BY LenProperties, ElementOfSeq
<1>2. \A i \in 1..Len(rows) : OfRow(rows[i], t) \in Nat
  BY <1>1 DEF OfRow, ReleaseRow
<1>4. f = [i \in DOMAIN rows |-> IF rows[i].token = t THEN rows[i].quantity ELSE 0] /\ DOMAIN f = 1..Len(rows)
  BY <1>1 DEF OfRow
<1>5. OfToken(rows, t) = SumFunctionOnSet(f, 1..Len(rows))
  BY <1>4 DEF OfToken, SumFunction
<1>6. \A i \in 1..Len(rows) : f[i] \in Nat
  BY <1>2
<1>7. SumFunctionOnSet(f, 1..Len(rows)) \in Nat
  <2>1. IsFiniteSet(1..Len(rows))
    BY <1>1, FS_Interval
  <2> QED
    BY <1>6, <2>1, SumBound
<1> QED
  BY <1>1, <1>2, <1>5, <1>6, <1>7

\* A release adds its amount to its token.
LEMMA OfTokenAppend ==
  ASSUME NEW rows \in Seq(ReleaseRow), NEW row \in ReleaseRow, NEW t
  PROVE  /\ Append(rows, row) \in Seq(ReleaseRow)
         /\ OfToken(Append(rows, row), t) = OfToken(rows, t) + OfRow(row, t)
<1>1. PICK more : more = Append(rows, row)
  OBVIOUS
<1>2. /\ more \in Seq(ReleaseRow) /\ Len(more) = Len(rows) + 1 /\ more[Len(rows) + 1] = row
      /\ \A i \in 1..Len(rows) : more[i] = rows[i]
  BY <1>1, AppendProperties
<1>3. PICK f, g, n : /\ f = [i \in 1..Len(rows) |-> OfRow(rows[i], t)]
                     /\ g = [i \in 1..Len(more) |-> OfRow(more[i], t)]
                     /\ n = Len(rows)
  OBVIOUS
<1>4. /\ n \in Nat /\ OfToken(rows, t) = SumFunctionOnSet(f, 1..n)
      /\ OfToken(more, t) = SumFunctionOnSet(g, 1..(n + 1))
      /\ \A i \in 1..n : f[i] \in Nat
      /\ \A i \in 1..(n + 1) : g[i] \in Nat
  BY <1>2, <1>3, OfTokenType
<1>5. 1..(n + 1) = (1..n) \cup {n + 1} /\ n + 1 \notin 1..n /\ IsFiniteSet(1..n)
  <2>1. IsFiniteSet(1..n)
    BY <1>4, FS_Interval
  <2> QED
    BY <1>4, <2>1
<1>6. SumFunctionOnSet(g, (1..n) \cup {n + 1}) = SumFunctionOnSet(g, 1..n) + g[n + 1]
  <2>1. \A i \in (1..n) \cup {n + 1} : g[i] \in Int
    BY <1>4, <1>5
  <2> QED
    BY <1>5, <2>1, SumInsert
<1>7. SumFunctionOnSet(g, 1..n) = SumFunctionOnSet(f, 1..n)
  <2>1. \A i \in 1..n : f[i] \in Int /\ g[i] = f[i]
    BY <1>2, <1>3, <1>4
  <2> QED
    BY <1>5, <2>1, SumEqual
<1>8. g[n + 1] = OfRow(row, t)
  BY <1>2, <1>3, <1>4
<1> QED
  BY <1>1, <1>2, <1>4, <1>5, <1>6, <1>7, <1>8

\* What is paid and what is left are what there was.
LEMMA OfTokenSplit ==
  ASSUME NEW rows \in Seq(ReleaseRow), NEW n \in 0..Len(rows), NEW t
  PROVE  /\ SubSeq(rows, 1, n) \in Seq(ReleaseRow) /\ SubSeq(rows, n + 1, Len(rows)) \in Seq(ReleaseRow)
         /\ \A i \in 1..n : SubSeq(rows, 1, n)[i] = rows[i]
         /\ \A i \in 1..(Len(rows) - n) : SubSeq(rows, n + 1, Len(rows))[i] = rows[n + i]
         /\ Len(SubSeq(rows, 1, n)) = n /\ Len(SubSeq(rows, n + 1, Len(rows))) = Len(rows) - n
         /\ OfToken(rows, t) = OfToken(SubSeq(rows, 1, n), t) + OfToken(SubSeq(rows, n + 1, Len(rows)), t)
<1>1. Len(rows) \in Nat /\ n \in Nat /\ n <= Len(rows)
  BY LenProperties
<1>2. PICK A, B, m : A = SubSeq(rows, 1, n) /\ B = SubSeq(rows, n + 1, Len(rows)) /\ m = Len(rows) - n
  OBVIOUS
<1>3. /\ A \in Seq(ReleaseRow) /\ Len(A) = n /\ \A i \in 1..n : A[i] = rows[i]
  <2>1. 1 \in 1..(Len(rows) + 1) /\ n \in 0..Len(rows)
    BY <1>1
  <2>2. /\ SubSeq(rows, 1, n) \in Seq(ReleaseRow)
        /\ Len(SubSeq(rows, 1, n)) = (IF 1 <= n THEN n - 1 + 1 ELSE 0)
        /\ \A i \in 1..(n - 1 + 1) : SubSeq(rows, 1, n)[i] = rows[1 + i - 1]
    BY <2>1, SubSeqProperties
  <2>3. \A i \in 1..n : 1 + i - 1 = i
    BY <1>1
  <2> QED
    BY <1>1, <1>2, <2>2, <2>3
<1>4. /\ B \in Seq(ReleaseRow) /\ Len(B) = m /\ \A i \in 1..m : B[i] = rows[n + i]
  <2>1. n + 1 \in 1..(Len(rows) + 1) /\ Len(rows) \in 0..Len(rows)
    BY <1>1
  <2>2. /\ SubSeq(rows, n + 1, Len(rows)) \in Seq(ReleaseRow)
        /\ Len(SubSeq(rows, n + 1, Len(rows))) = (IF n + 1 <= Len(rows) THEN Len(rows) - (n + 1) + 1 ELSE 0)
        /\ \A i \in 1..(Len(rows) - (n + 1) + 1) : SubSeq(rows, n + 1, Len(rows))[i] = rows[n + 1 + i - 1]
    BY <2>1, SubSeqProperties
  <2>3. m = Len(rows) - (n + 1) + 1 /\ \A i \in 1..m : n + 1 + i - 1 = n + i
    BY <1>1, <1>2
  <2>4. (IF n + 1 <= Len(rows) THEN Len(rows) - (n + 1) + 1 ELSE 0) = m
    BY <1>1, <1>2
  <2> QED
    BY <1>2, <2>2, <2>3, <2>4
<1>5. PICK f, a, b : /\ f = [i \in 1..Len(rows) |-> OfRow(rows[i], t)]
                     /\ a = [i \in 1..Len(A) |-> OfRow(A[i], t)]
                     /\ b = [i \in 1..Len(B) |-> OfRow(B[i], t)]
  OBVIOUS
<1>6. /\ OfToken(rows, t) = SumFunctionOnSet(f, 1..Len(rows)) /\ \A i \in 1..Len(rows) : f[i] \in Int
      /\ OfToken(A, t) = SumFunctionOnSet(a, 1..n) /\ OfToken(B, t) = SumFunctionOnSet(b, 1..m)
  <2>1. OfToken(rows, t) = SumFunctionOnSet(f, 1..Len(rows)) /\ \A i \in 1..Len(rows) : f[i] \in Nat
    BY <1>5, OfTokenType
  <2>2. OfToken(A, t) = SumFunctionOnSet(a, 1..Len(A))
    BY <1>3, <1>5, OfTokenType
  <2>3. OfToken(B, t) = SumFunctionOnSet(b, 1..Len(B))
    BY <1>4, <1>5, OfTokenType
  <2> QED
    BY <1>3, <1>4, <2>1, <2>2, <2>3
<1>7. m \in Nat /\ Len(rows) = n + m
  BY <1>1, <1>2
<1>10. IsFiniteSet(1..n)
  BY <1>1, FS_Interval
<1>8. SumFunctionOnSet(f, 1..(n + m)) = SumFunctionOnSet(f, 1..n) + SumFunctionOnSet(b, 1..m)
  <2>1. \A i \in 1..m : b[i] = f[n + i]
    BY <1>1, <1>4, <1>5, <1>7
  <2>2. \A i \in 1..(n + m) : f[i] \in Int
    BY <1>6, <1>7
  <2>3. n \in Nat /\ m \in Nat
    BY <1>1, <1>7
  <2> QED
    BY ONLY <2>3, <2>1, <2>2, SumSplit
<1>9. SumFunctionOnSet(a, 1..n) = SumFunctionOnSet(f, 1..n)
  <2>1. \A i \in 1..n : f[i] \in Int /\ a[i] = f[i]
    BY <1>1, <1>3, <1>5, <1>6
  <2> QED
    BY <1>10, <2>1, SumEqual
<1> QED
  BY <1>2, <1>3, <1>4, <1>6, <1>7, <1>8, <1>9

\* A list of releases has a natural of a token.
LEMMA OfTokenNat ==
  ASSUME NEW rows \in Seq(ReleaseRow), NEW t
  PROVE  OfToken(rows, t) \in Nat
<1>1. PICK f : f = [i \in 1..Len(rows) |-> OfRow(rows[i], t)]
  OBVIOUS
<1> QED
  BY <1>1, OfTokenType

\* The parts of the type.
LEMMA TokenParts ==
  ASSUME TokenTypeOK
  PROVE  /\ \A s \in Accounts, t \in AllTokens :
              /\ staking[s][t] \in Nat /\ token_balance[t] \in Int /\ ContractOf(t) \in StakingContracts
              /\ releases[s][ContractOf(t)] \in Seq(ReleaseRow)
              /\ OfToken(releases[s][ContractOf(t)], t) \in Nat
              /\ staking[s][t] + OfToken(releases[s][ContractOf(t)], t) \in Int
         /\ \A s \in Accounts, c \in StakingContracts :
              releases[s][c] \in Seq(ReleaseRow)
         /\ IsFiniteSet(Accounts)
<1>1. \A t \in AllTokens : ContractOf(t) \in StakingContracts
  BY DEF ContractOf, StakingContracts
<1>2. \A s \in Accounts, c \in StakingContracts : releases[s][c] \in Seq(ReleaseRow)
  BY DEF TokenTypeOK
<1>3. \A s \in Accounts, t \in AllTokens : staking[s][t] \in Nat /\ token_balance[t] \in Int
  BY DEF TokenTypeOK
<1>4. \A s \in Accounts, t \in AllTokens : OfToken(releases[s][ContractOf(t)], t) \in Nat
  BY <1>1, <1>2, OfTokenNat
<1>5. \A a, b \in Nat : a + b \in Int
  OBVIOUS
<1> QED
  BY <1>1, <1>2, <1>3, <1>4, <1>5, TokenStakingAssumption

\* What a staker has staked of a token or released.
HeldOf(a, r, s, t) == a[s][t] + OfToken(r[s][ContractOf(t)], t)

\* Where what one staker has changes by q and the balance does too, the tokens
\* are held.
LEMMA HeldMoves ==
  ASSUME TokenTypeOK, StakedTokensHeld, NEW t \in AllTokens, NEW x \in Accounts, NEW q \in Int,
         HeldOf(staking', releases', x, t) = HeldOf(staking, releases, x, t) + q,
         \A s \in Accounts \ {x} : HeldOf(staking', releases', s, t) = HeldOf(staking, releases, s, t),
         token_balance'[t] = token_balance[t] + q
  PROVE  token_balance'[t] = SumFunction([s \in Accounts |-> HeldOf(staking', releases', s, t)])
<1>1. PICK f, g, S : /\ f = [s \in Accounts |-> HeldOf(staking, releases, s, t)]
                     /\ g = [s \in Accounts |-> HeldOf(staking', releases', s, t)]
                     /\ S = Accounts
  OBVIOUS
<1>2. IsFiniteSet(S) /\ x \in S /\ \A s \in S : f[s] \in Int
  BY <1>1, TokenParts DEF HeldOf
<1>3. g[x] = f[x] + q /\ g[x] \in Int /\ \A s \in S \ {x} : g[s] = f[s]
  <2>1. g[x] = f[x] + q /\ \A s \in S \ {x} : g[s] = f[s]
    BY <1>1
  <2> QED
    BY <1>2, <2>1
<1>4. SumFunctionOnSet(g, S) = SumFunctionOnSet(f, S) - f[x] + g[x]
  <2>1. /\ IsFiniteSet(S) /\ x \in S /\ \A s \in S : f[s] \in Int
        /\ g[x] \in Int /\ \A s \in S \ {x} : g[s] = f[s]
    BY <1>2, <1>3
  <2> QED
    BY ONLY <2>1, SumUpdate, SMTT(30)
<1>5. SumFunctionOnSet(f, S) \in Int /\ f[x] \in Int
  BY <1>2, SumType
<1>6. token_balance[t] = SumFunctionOnSet(f, S)
  <2>1. token_balance[t] = SumFunction(f)
    BY <1>1 DEF StakedTokensHeld, HeldOf
  <2> QED
    BY <1>1, <2>1 DEF SumFunction
<1>7. token_balance'[t] = SumFunctionOnSet(g, S)
  BY <1>3, <1>4, <1>5, <1>6
<1> QED
  BY <1>1, <1>7 DEF SumFunction

\* The tokens are held if they are held by the sums above.
LEMMA HeldNext ==
  ASSUME \A t \in AllTokens :
           token_balance'[t] = SumFunction([s \in Accounts |-> HeldOf(staking', releases', s, t)])
  PROVE  StakedTokensHeld'
BY DEF StakedTokensHeld, HeldOf

\* A staking transfer.
LEMMA DoStakeHeld ==
  ASSUME TokenTypeOK, StakedTokensHeld, NEW s \in Accounts, NEW t \in AllTokens, NEW q \in Nat,
         do_stake(s, t, q)
  PROVE  TokenTypeOK' /\ StakedTokensHeld'
<1>1. /\ staking' = [staking EXCEPT ![s][t] = staking[s][t] + q]
      /\ token_balance' = [token_balance EXCEPT ![t] = token_balance[t] + q]
      /\ token' = token /\ releases' = releases
  BY DEF do_stake
<1>2. /\ staking \in [Accounts -> [AllTokens -> Nat]] /\ token_balance \in [AllTokens -> Int]
  BY DEF TokenTypeOK
<1>3. TokenTypeOK'
  <2>1. staking' \in [Accounts -> [AllTokens -> Nat]] /\ token_balance' \in [AllTokens -> Int]
    BY <1>1, <1>2
  <2> QED
    BY <1>1, <2>1 DEF TokenTypeOK
<1>4. /\ staking'[s][t] = staking[s][t] + q
      /\ \A y \in Accounts, x \in AllTokens : y # s \/ x # t => staking'[y][x] = staking[y][x]
      /\ token_balance'[t] = token_balance[t] + q
      /\ \A x \in AllTokens : x # t => token_balance'[x] = token_balance[x]
  BY <1>1, <1>2
<1>5. ASSUME NEW x \in AllTokens
      PROVE  token_balance'[x] = SumFunction([y \in Accounts |-> HeldOf(staking', releases', y, x)])
  <2>1. PICK e : e = IF x = t THEN q ELSE 0
    OBVIOUS
  <2>2. e \in Int /\ token_balance'[x] = token_balance[x] + e /\ staking'[s][x] = staking[s][x] + e
    BY <1>2, <1>4, <2>1
  <2>3. HeldOf(staking', releases', s, x) = HeldOf(staking, releases, s, x) + e
    BY <1>1, <2>2, TokenParts DEF HeldOf
  <2>4. \A y \in Accounts \ {s} : HeldOf(staking', releases', y, x) = HeldOf(staking, releases, y, x)
    BY <1>1, <1>4 DEF HeldOf
  <2> QED
    BY <2>2, <2>3, <2>4, HeldMoves
<1> QED
  BY <1>3, <1>5, HeldNext

\* A release.
LEMMA ReleaseHeld ==
  ASSUME TokenTypeOK, StakedTokensHeld, NEW s \in Accounts, NEW t \in AllTokens, NEW q \in Nat,
         release(s, t, q)
  PROVE  TokenTypeOK' /\ StakedTokensHeld'
<1> DEFINE c == ContractOf(t)
<1>1. PICK row : row = [token |-> t, quantity |-> q, expired |-> FALSE]
  OBVIOUS
<1>2. /\ staking[s][t] >= q /\ staking' = [staking EXCEPT ![s][t] = staking[s][t] - q]
      /\ releases' = [releases EXCEPT ![s][c] = Append(releases[s][c], row)]
      /\ token' = token /\ token_balance' = token_balance
  BY <1>1 DEF release
<1>3. /\ staking \in [Accounts -> [AllTokens -> Nat]] /\ token_balance \in [AllTokens -> Int]
      /\ releases \in [Accounts -> [StakingContracts -> Seq(ReleaseRow)]]
      /\ c \in StakingContracts
      /\ \A y \in Accounts, d \in StakingContracts : \A i \in DOMAIN releases[y][d] :
           ContractOf(releases[y][d][i].token) = d
  BY DEF TokenTypeOK, ContractOf, StakingContracts
<1>4. row \in ReleaseRow /\ row.token = t /\ row.quantity = q
  BY <1>1 DEF ReleaseRow
<1>5. PICK rows, more : rows = releases[s][c] /\ more = Append(rows, row)
  OBVIOUS
<1>6. /\ rows \in Seq(ReleaseRow) /\ more \in Seq(ReleaseRow)
      /\ \A x : OfToken(more, x) = OfToken(rows, x) + OfRow(row, x)
  BY <1>3, <1>4, <1>5, OfTokenAppend
<1>7. /\ staking'[s][t] = staking[s][t] - q
      /\ \A y \in Accounts, x \in AllTokens : y # s \/ x # t => staking'[y][x] = staking[y][x]
      /\ releases'[s][c] = more
      /\ \A y \in Accounts, d \in StakingContracts : y # s \/ d # c => releases'[y][d] = releases[y][d]
  BY <1>2, <1>3, <1>5
<1>8. TokenTypeOK'
  <2>1. staking[s][t] - q \in Nat
    BY <1>2, <1>3
  <2>2. staking' \in [Accounts -> [AllTokens -> Nat]]
    BY <1>2, <1>3, <2>1
  <2>3. releases' \in [Accounts -> [StakingContracts -> Seq(ReleaseRow)]]
    BY <1>2, <1>3, <1>5, <1>6
  <2>4. ASSUME NEW y \in Accounts, NEW d \in StakingContracts, NEW i \in DOMAIN releases'[y][d]
        PROVE  ContractOf(releases'[y][d][i].token) = d
    <3>1. CASE y = s /\ d = c
      <4>1. /\ DOMAIN more = 1..(Len(rows) + 1) /\ DOMAIN rows = 1..Len(rows) /\ Len(rows) \in Nat
            /\ more[Len(rows) + 1] = row /\ \A j \in 1..Len(rows) : more[j] = rows[j]
        BY <1>4, <1>5, <1>6, AppendProperties, LenProperties
      <4>2. CASE i = Len(rows) + 1
        BY <1>4, <1>7, <3>1, <4>1, <4>2
      <4>3. CASE i # Len(rows) + 1
        <5>1. i \in 1..Len(rows)
          BY <1>7, <3>1, <4>1, <4>3
        <5>2. releases'[y][d][i] = releases[s][c][i] /\ i \in DOMAIN releases[s][c]
          BY <1>5, <1>7, <3>1, <4>1, <5>1
        <5> QED
          BY <1>3, <3>1, <5>2
      <4> QED
        BY <4>2, <4>3
    <3>2. CASE ~(y = s /\ d = c)
      BY <1>3, <1>7, <3>2
    <3> QED
      BY <3>1, <3>2
  <2> QED
    BY <1>2, <2>2, <2>3, <2>4 DEF TokenTypeOK
<1>9. ASSUME NEW x \in AllTokens
      PROVE  token_balance'[x] = SumFunction([y \in Accounts |-> HeldOf(staking', releases', y, x)])
  <2>1. HeldOf(staking', releases', s, x) = HeldOf(staking, releases, s, x)
    <3>1. CASE x = t
      <4>1. OfToken(releases'[s][c], t) = OfToken(releases[s][c], t) + q
        BY <1>4, <1>5, <1>6, <1>7 DEF OfRow
      <4>2. OfToken(releases[s][c], t) \in Nat /\ staking[s][t] \in Nat /\ q \in Nat
        BY TokenParts
      <4>3. staking'[s][t] + OfToken(releases'[s][c], t) = staking[s][t] + OfToken(releases[s][c], t)
        BY <1>7, <4>1, <4>2
      <4> QED
        BY <3>1, <4>3 DEF HeldOf
    <3>2. CASE x # t
      <4>1. staking'[s][x] = staking[s][x]
        BY <1>7, <3>2
      <4>2. OfToken(releases'[s][ContractOf(x)], x) = OfToken(releases[s][ContractOf(x)], x)
        <5>1. CASE ContractOf(x) = c
          <6>1. OfToken(more, x) = OfToken(rows, x) + 0 /\ OfToken(rows, x) \in Nat
            BY <1>4, <1>6, <3>2, OfTokenNat DEF OfRow
          <6>2. OfToken(more, x) = OfToken(rows, x)
            BY <6>1
          <6> QED
            BY <1>5, <1>7, <5>1, <6>2
        <5>2. CASE ContractOf(x) # c
          BY <1>7, <5>2, TokenParts
        <5> QED
          BY <5>1, <5>2
      <4> QED
        BY <4>1, <4>2 DEF HeldOf
    <3> QED
      BY <3>1, <3>2
  <2>2. \A y \in Accounts \ {s} : HeldOf(staking', releases', y, x) = HeldOf(staking, releases, y, x)
    BY <1>7, TokenParts DEF HeldOf
  <2>3. /\ HeldOf(staking', releases', s, x) = HeldOf(staking, releases, s, x) + 0
        /\ token_balance'[x] = token_balance[x] + 0 /\ 0 \in Int
    <3>1. HeldOf(staking, releases, s, x) \in Int /\ token_balance[x] \in Int
      BY TokenParts DEF HeldOf
    <3> QED
      BY <1>2, <2>1, <3>1
  <2> QED
    BY <2>2, <2>3, HeldMoves
<1> QED
  BY <1>8, <1>9, HeldNext

\* A withdrawal pays the first of the rows that have expired.
LEMMA WithdrawHeld ==
  ASSUME TokenTypeOK, StakedTokensHeld, NEW s \in Accounts, NEW c \in StakingContracts,
         withdraw(s, c)
  PROVE  TokenTypeOK' /\ StakedTokensHeld' /\ staking' = staking
<1>1. PICK rows : rows = releases[s][c]
  OBVIOUS
<1>2. /\ rows \in Seq(ReleaseRow) /\ Len(rows) \in Nat /\ DOMAIN rows = 1..Len(rows)
      /\ \A i \in 1..Len(rows) : rows[i] \in ReleaseRow /\ ContractOf(rows[i].token) = c
  BY <1>1, LenProperties, ElementOfSeq DEF TokenTypeOK
<1>3. PICK expired, n : /\ expired = {i \in DOMAIN rows : rows[i].expired}
                        /\ n = Min({max_row, Cardinality(expired)})
  OBVIOUS
<1>4. n \in 0..Len(rows)
  <2>1. IsFiniteSet(1..Len(rows)) /\ Cardinality(1..Len(rows)) = Len(rows)
    <3>1. 1 \in Int /\ Len(rows) \in Int
      BY <1>2
    <3>2. IsFiniteSet(1..Len(rows)) /\ Cardinality(1..Len(rows)) = (IF 1 > Len(rows) THEN 0 ELSE Len(rows) - 1 + 1)
      BY ONLY <3>1, FS_Interval
    <3> QED
      BY <1>2, <3>2
  <2>2. expired \subseteq 1..Len(rows)
    BY <1>2, <1>3
  <2>3. IsFiniteSet(expired) /\ Cardinality(expired) <= Len(rows)
    BY <2>1, <2>2, FS_Subset
  <2>4. Cardinality(expired) \in Nat
    BY <2>3, FS_CardinalityType
  <2>5. n = IF max_row <= Cardinality(expired) THEN max_row ELSE Cardinality(expired)
    BY <1>3, <2>4, MinOfTwo, TokenStakingAssumption
  <2> QED
    BY <1>2, <2>3, <2>4, <2>5, TokenStakingAssumption
<1>5. PICK paid, left : paid = SubSeq(rows, 1, n) /\ left = SubSeq(rows, n + 1, Len(rows))
  OBVIOUS
<1>6. /\ paid \in Seq(ReleaseRow) /\ left \in Seq(ReleaseRow) /\ Len(paid) = n /\ Len(left) = Len(rows) - n
      /\ \A i \in 1..n : paid[i] = rows[i]
      /\ \A i \in 1..(Len(rows) - n) : left[i] = rows[n + i]
      /\ \A t : OfToken(rows, t) = OfToken(paid, t) + OfToken(left, t)
  BY <1>2, <1>4, <1>5, OfTokenSplit
<1>7. /\ releases' = [releases EXCEPT ![s][c] = left]
      /\ token_balance' = [t \in AllTokens |-> token_balance[t] - OfToken(paid, t)]
      /\ token' = token /\ staking' = staking
  BY <1>1, <1>3, <1>5 DEF withdraw
<1>8. /\ releases \in [Accounts -> [StakingContracts -> Seq(ReleaseRow)]] /\ token_balance \in [AllTokens -> Int]
      /\ \A y \in Accounts, d \in StakingContracts : \A i \in DOMAIN releases[y][d] :
           ContractOf(releases[y][d][i].token) = d
  BY DEF TokenTypeOK
<1>9. /\ releases'[s][c] = left
      /\ \A y \in Accounts, d \in StakingContracts : y # s \/ d # c => releases'[y][d] = releases[y][d]
  BY <1>7, <1>8
<1>10. TokenTypeOK'
  <2>1. releases' \in [Accounts -> [StakingContracts -> Seq(ReleaseRow)]]
    BY <1>6, <1>7, <1>8
  <2>2. token_balance' \in [AllTokens -> Int]
    <3>1. \A t \in AllTokens : token_balance[t] - OfToken(paid, t) \in Int
      BY <1>6, <1>8, OfTokenNat
    <3> QED
      BY <1>7, <3>1
  <2>3. ASSUME NEW y \in Accounts, NEW d \in StakingContracts, NEW i \in DOMAIN releases'[y][d]
        PROVE  ContractOf(releases'[y][d][i].token) = d
    <3>1. CASE y = s /\ d = c
      <4>1. i \in 1..(Len(rows) - n)
        BY <1>6, <1>9, <3>1, LenProperties
      <4>2. left[i] = rows[n + i] /\ n + i \in 1..Len(rows)
        BY <1>2, <1>4, <1>6, <4>1
      <4> QED
        BY <1>2, <1>9, <3>1, <4>2
    <3>2. CASE ~(y = s /\ d = c)
      BY <1>8, <1>9, <3>2
    <3> QED
      BY <3>1, <3>2
  <2> QED
    BY <1>7, <2>1, <2>2, <2>3 DEF TokenTypeOK
<1>11. ASSUME NEW t \in AllTokens
       PROVE  token_balance'[t] = SumFunction([y \in Accounts |-> HeldOf(staking', releases', y, t)])
  <2>1. PICK e : e = 0 - OfToken(paid, t)
    OBVIOUS
  <2>2. OfToken(paid, t) \in Nat /\ OfToken(left, t) \in Nat /\ OfToken(rows, t) = OfToken(paid, t) + OfToken(left, t)
    BY <1>6, OfTokenNat
  <2>3. e \in Int /\ token_balance[t] \in Int /\ token_balance'[t] = token_balance[t] + e
    BY <1>7, <1>8, <2>1, <2>2
  <2>4. HeldOf(staking', releases', s, t) = HeldOf(staking, releases, s, t) + e
    <3>1. CASE ContractOf(t) = c
      <4>1. releases'[s][ContractOf(t)] = left /\ releases[s][ContractOf(t)] = rows /\ staking'[s][t] = staking[s][t]
            /\ staking[s][t] \in Nat
        BY <1>1, <1>7, <1>9, <3>1, TokenParts
      <4>2. staking[s][t] + OfToken(left, t) = staking[s][t] + OfToken(rows, t) + e
        BY <2>1, <2>2, <4>1
      <4> QED
        BY <4>1, <4>2 DEF HeldOf
    <3>2. CASE ContractOf(t) # c
      <4>1. OfToken(paid, t) = 0
        <5>1. \A i \in 1..n : paid[i].token # t
          BY <1>2, <1>4, <1>6, <3>2
        <5>2. PICK f : f = [i \in 1..Len(paid) |-> OfRow(paid[i], t)]
          OBVIOUS
        <5>3. \A i \in 1..n : f[i] = 0
          BY <1>6, <5>1, <5>2 DEF OfRow
        <5>4. OfToken(paid, t) = SumFunctionOnSet(f, 1..n)
          BY <1>6, <5>2, OfTokenType
        <5>5. IsFiniteSet(1..n) /\ Cardinality(1..n) \in Nat
          BY <1>4, FS_Interval, FS_CardinalityType
        <5>6. SumFunctionOnSet(f, 1..n) = 0 * Cardinality(1..n)
          <6>1. 0 \in Int
            OBVIOUS
          <6> QED
            BY ONLY <5>3, <5>5, <6>1, SumConstant
        <5> QED
          BY <5>4, <5>5, <5>6
      <4>2. releases'[s][ContractOf(t)] = releases[s][ContractOf(t)] /\ staking'[s][t] = staking[s][t]
        BY <1>7, <1>9, <3>2, TokenParts
      <4>3. HeldOf(staking, releases, s, t) \in Int /\ HeldOf(staking', releases', s, t) = HeldOf(staking, releases, s, t)
        BY <4>2, TokenParts DEF HeldOf
      <4>4. e = 0
        BY <2>1, <4>1
      <4> QED
        BY <4>3, <4>4
    <3> QED
      BY <3>1, <3>2
  <2>5. \A y \in Accounts \ {s} : HeldOf(staking', releases', y, t) = HeldOf(staking, releases, y, t)
    BY <1>7, <1>9, TokenParts DEF HeldOf
  <2> QED
    BY <2>3, <2>4, <2>5, HeldMoves
<1> QED
  BY <1>7, <1>10, <1>11, HeldNext

\* Rows expire, with the amounts they have.
LEMMA CycleHeld ==
  ASSUME TokenTypeOK, StakedTokensHeld, release_cycle_ends
  PROVE  TokenTypeOK' /\ StakedTokensHeld' /\ staking' = staking
<1>1. /\ releases' = [s \in Accounts |-> [c \in StakingContracts |->
                        [i \in DOMAIN releases[s][c] |-> [releases[s][c][i] EXCEPT !.expired = TRUE]]]]
      /\ UNCHANGED <<token, staking, token_balance>>
  BY DEF release_cycle_ends
<1>2. ASSUME NEW s \in Accounts, NEW c \in StakingContracts
      PROVE  /\ releases'[s][c] \in Seq(ReleaseRow)
             /\ \A i \in DOMAIN releases'[s][c] : ContractOf(releases'[s][c][i].token) = c
             /\ \A t : OfToken(releases'[s][c], t) = OfToken(releases[s][c], t)
  <2>1. PICK rows, n, new : /\ rows = releases[s][c] /\ n = Len(rows)
                            /\ new = [i \in DOMAIN rows |-> [rows[i] EXCEPT !.expired = TRUE]]
    OBVIOUS
  <2>2. releases'[s][c] = new
    BY <1>1, <2>1
  <2>3. /\ rows \in Seq(ReleaseRow) /\ n \in Nat /\ DOMAIN rows = 1..n
        /\ \A i \in 1..n : rows[i] \in ReleaseRow /\ ContractOf(rows[i].token) = c
    BY <2>1, LenProperties, ElementOfSeq DEF TokenTypeOK
  <2>4. new = [i \in 1..n |-> new[i]] /\ \A i \in 1..n : new[i] = [rows[i] EXCEPT !.expired = TRUE]
    BY <2>1, <2>3
  <2>5. \A i \in 1..n : /\ new[i] \in ReleaseRow
                        /\ new[i].token = rows[i].token /\ new[i].quantity = rows[i].quantity
    BY <2>3, <2>4 DEF ReleaseRow
  <2>6. new \in Seq(ReleaseRow) /\ Len(new) = n
    <3>1. new \in [1..n -> ReleaseRow]
      BY <2>4, <2>5
    <3> QED
      BY <2>3, <3>1, SeqDef, LenProperties
  <2>7. ASSUME NEW t
        PROVE  OfToken(new, t) = OfToken(rows, t)
    <3>1. PICK f, g : f = [i \in 1..n |-> OfRow(rows[i], t)] /\ g = [i \in 1..n |-> OfRow(new[i], t)]
      OBVIOUS
    <3>2. f = g
      BY <2>5, <3>1 DEF OfRow
    <3>3. OfToken(rows, t) = SumFunctionOnSet(f, 1..n)
      BY <2>1, <2>3, <3>1, OfTokenType
    <3>4. OfToken(new, t) = SumFunctionOnSet(g, 1..n)
      BY <2>6, <3>1, OfTokenType
    <3> QED
      BY <3>2, <3>3, <3>4
  <2>8. \A i \in DOMAIN new : ContractOf(new[i].token) = c
    BY <2>3, <2>4, <2>5
  <2> QED
    BY <2>1, <2>2, <2>6, <2>7, <2>8
<1>3. TokenTypeOK'
  <2>1. releases' \in [Accounts -> [StakingContracts -> Seq(ReleaseRow)]]
    BY <1>1, <1>2
  <2> QED
    BY <1>1, <1>2, <2>1 DEF TokenTypeOK
<1>4. StakedTokensHeld'
  <2>1. \A s \in Accounts, t \in AllTokens :
          OfToken(releases'[s][ContractOf(t)], t) = OfToken(releases[s][ContractOf(t)], t)
    BY <1>2, TokenParts
  <2>2. ASSUME NEW t \in AllTokens
        PROVE  token_balance'[t] = SumFunction([s \in Accounts |-> HeldOf(staking', releases', s, t)])
    <3>0. \A s \in Accounts : HeldOf(staking', releases', s, t) = HeldOf(staking, releases, s, t)
      BY <1>1, <2>1 DEF HeldOf
    <3>1. [s \in Accounts |-> HeldOf(staking', releases', s, t)] = [s \in Accounts |-> HeldOf(staking, releases, s, t)]
      BY <3>0, Zenon
    <3>2. token_balance[t] = SumFunction([s \in Accounts |-> HeldOf(staking, releases, s, t)])
      BY DEF StakedTokensHeld, HeldOf
    <3> QED
      BY <1>1, <3>1, <3>2
  <2> QED
    BY <2>2, HeldNext
<1> QED
  BY <1>1, <1>3, <1>4

\* addtoken, deltoken and setstatus.
LEMMA StatusHeld ==
  ASSUME TokenTypeOK, StakedTokensHeld, NEW t \in AllTokens,
         addtoken(t) \/ deltoken(t) \/ \E d \in BOOLEAN : token_setstatus(t, d)
  PROVE  TokenTypeOK' /\ StakedTokensHeld' /\ staking' = staking
<1>1. UNCHANGED <<staking, releases, token_balance>>
  BY DEF addtoken, deltoken, token_setstatus
<1>2. token' \in [AllTokens -> {"absent", "open", "disabled"}]
  <2>1. token \in [AllTokens -> {"absent", "open", "disabled"}]
    BY DEF TokenTypeOK
  <2>2. PICK n \in {"absent", "open", "disabled"} : token' = [token EXCEPT ![t] = n]
    BY DEF addtoken, deltoken, token_setstatus
  <2> QED
    BY <2>1, <2>2
<1> QED
  BY <1>1, <1>2 DEF TokenTypeOK, StakedTokensHeld

-----------------------------------------------------------------------------
(* The stakes of a native staker and its tokens. *)

\* A total follows the change of one summand.
LEMMA TotalMoves ==
  ASSUME NEW S, IsFiniteSet(S), NEW f, DOMAIN f = S, NEW g, DOMAIN g = S, NEW x \in S, NEW q \in Int,
         \A y \in S : f[y] \in Int, g[x] = f[x] + q, \A y \in S \ {x} : g[y] = f[y]
  PROVE  Total(g) = Total(f) + q /\ Total(f) \in Int
<1>1. g[x] \in Int /\ f[x] \in Int
  OBVIOUS
<1>2. SumFunctionOnSet(g, S) = SumFunctionOnSet(f, S) - f[x] + g[x]
  BY <1>1, SumUpdate, SMTT(30)
<1>3. SumFunctionOnSet(f, S) \in Int
  BY SumType
<1>4. SumFunctionOnSet(g, S) = SumFunctionOnSet(f, S) + q
  BY <1>1, <1>2, <1>3
<1> QED
  BY <1>3, <1>4 DEF Total, SumFunction

\* What a staker has staked with the validators.
Quantities(a, u) == [v \in Validators |-> a[u][v].quantity]
XsatQuantities(a, u) == [v \in Validators |-> a[u][v].xsat_quantity]
TokenQuantities(u) == [t \in Tokens |-> staking[u][t]]

\* The totals of a staker follow its moves, and no other's change.
LEMMA AmountTotals ==
  ASSUME NEW a \in [Stakers -> [Validators -> StakeRow]], NEW b, NEW u \in Stakers, NEW v \in Validators,
         NEW q \in Int, NEW x \in Int, AmountMoves(a, b, u, v, q, x)
  PROVE  /\ Total(Quantities(b, u)) = Total(Quantities(a, u)) + q
         /\ Total(XsatQuantities(b, u)) = Total(XsatQuantities(a, u)) + x
         /\ Total(Quantities(a, u)) \in Int /\ Total(XsatQuantities(a, u)) \in Int
         /\ \A y \in Stakers : y # u =>
              Quantities(b, y) = Quantities(a, y) /\ XsatQuantities(b, y) = XsatQuantities(a, y)
<1>1. \A w \in Validators : a[u][w].quantity \in Int /\ a[u][w].xsat_quantity \in Int
  BY DEF StakeRow
<1>2. /\ Total(Quantities(b, u)) = Total(Quantities(a, u)) + q /\ Total(Quantities(a, u)) \in Int
  <2>1. PICK f, g, S : f = Quantities(a, u) /\ g = Quantities(b, u) /\ S = Validators
    OBVIOUS
  <2>2. /\ IsFiniteSet(S) /\ DOMAIN f = S /\ DOMAIN g = S /\ v \in S
        /\ \A w \in S : f[w] \in Int
        /\ g[v] = f[v] + q /\ \A w \in S \ {v} : g[w] = f[w]
    BY <1>1, <2>1, StakersFinite DEF Quantities, AmountMoves
  <2>3. Total(g) = Total(f) + q /\ Total(f) \in Int
    BY ONLY <2>2, q \in Int, TotalMoves
  <2> QED
    BY <2>1, <2>3
<1>3. /\ Total(XsatQuantities(b, u)) = Total(XsatQuantities(a, u)) + x /\ Total(XsatQuantities(a, u)) \in Int
  <2>1. PICK f, g, S : f = XsatQuantities(a, u) /\ g = XsatQuantities(b, u) /\ S = Validators
    OBVIOUS
  <2>2. /\ IsFiniteSet(S) /\ DOMAIN f = S /\ DOMAIN g = S /\ v \in S
        /\ \A w \in S : f[w] \in Int
        /\ g[v] = f[v] + x /\ \A w \in S \ {v} : g[w] = f[w]
    BY <1>1, <2>1, StakersFinite DEF XsatQuantities, AmountMoves
  <2>3. Total(g) = Total(f) + x /\ Total(f) \in Int
    BY ONLY <2>2, x \in Int, TotalMoves
  <2> QED
    BY <2>1, <2>3
<1>4. \A y \in Stakers : y # u => \A w \in Validators : b[y][w] = a[y][w]
  BY DEF AmountMoves
<1>5. \A y \in Stakers : y # u =>
        Quantities(b, y) = Quantities(a, y) /\ XsatQuantities(b, y) = XsatQuantities(a, y)
  BY <1>4 DEF Quantities, XsatQuantities
<1> QED
  BY <1>2, <1>3, <1>5

\* What endrmng.xsat has of a native staker is what the contracts of the tokens have.
NativeBacked ==
  \A s \in NativeStakers :
    /\ Total(Quantities(staker, s)) = Total(TokenQuantities(s))
    /\ Total(XsatQuantities(staker, s)) = staking[s][XSAT]

\* Its parts: the tokens are held, and the native stakes are backed.
LEMMA BackedParts ==
  StakesAreBacked <=> StakedTokensHeld /\ NativeBacked
BY DEF StakesAreBacked, NativeBacked, Quantities, XsatQuantities, TokenQuantities

\* Where neither amounts nor tokens change, the stakes stay backed.
LEMMA BackedStays ==
  ASSUME NativeBacked, staking' = staking,
         \A s \in NativeStakers :
           /\ Total(Quantities(staker', s)) = Total(Quantities(staker, s))
           /\ Total(XsatQuantities(staker', s)) = Total(XsatQuantities(staker, s))
  PROVE  NativeBacked'
BY DEF NativeBacked, Quantities, XsatQuantities, TokenQuantities

\* Restakes move stakes between validators, and all else leaves native stakes.
LEMMA DirectBacked ==
  ASSUME EndorseManageTypeOK, NativeBacked, staking' = staking,
         DirectNext(Stakers, Validators) \/ ConsensusCalls(Validators, Rewards)
  PROVE  NativeBacked'
<1>0. staker \in [Stakers -> [Validators -> StakeRow]]
  BY TablesParts DEF EndorseManageTypeOK, Tables
<1>b. PICK b : b = staker'
  OBVIOUS
<1>1. CASE AmountsKept
  <2>1. \A s \in NativeStakers : Quantities(staker', s) = Quantities(staker, s)
                                 /\ XsatQuantities(staker', s) = XsatQuantities(staker, s)
    BY <1>1, Inputs DEF AmountsKept, Quantities, XsatQuantities
  <2> QED
    BY <2>1, BackedStays
<1>2. ASSUME NEW u \in EvmStakers, NEW v \in Validators, NEW q \in Int, NEW x \in Int,
             AmountMoves(staker, staker', u, v, q, x)
      PROVE  NativeBacked'
  <2>1. \A s \in NativeStakers : s \in Stakers /\ s # u
    BY EndorseManageAssumption, Inputs
  <2>2. \A s \in NativeStakers : Quantities(staker', s) = Quantities(staker, s)
                                 /\ XsatQuantities(staker', s) = XsatQuantities(staker, s)
    <3>1. u \in Stakers /\ AmountMoves(staker, b, u, v, q, x)
      BY <1>2, <1>b, Inputs
    <3>2. \A y \in Stakers : y # u =>
            Quantities(b, y) = Quantities(staker, y) /\ XsatQuantities(b, y) = XsatQuantities(staker, y)
      BY <1>0, <3>1, AmountTotals
    <3> QED
      BY <1>b, <2>1, <3>2
  <2> QED
    BY <2>2, BackedStays
<1>3. ASSUME NEW u \in Stakers, NEW v \in Validators, NEW w \in Validators, NEW q \in Int, NEW x \in Int,
             NEW m \in [Stakers -> [Validators -> StakeRow]],
             AmountMoves(staker, m, u, v, -q, -x), AmountMoves(m, staker', u, w, q, x)
      PROVE  NativeBacked'
  <2>1. /\ Total(Quantities(m, u)) = Total(Quantities(staker, u)) + (-q)
        /\ Total(XsatQuantities(m, u)) = Total(XsatQuantities(staker, u)) + (-x)
        /\ Total(Quantities(staker, u)) \in Int /\ Total(XsatQuantities(staker, u)) \in Int
        /\ \A y \in Stakers : y # u =>
             Quantities(m, y) = Quantities(staker, y) /\ XsatQuantities(m, y) = XsatQuantities(staker, y)
    <3>1. -q \in Int /\ -x \in Int
      OBVIOUS
    <3> QED
      BY <1>0, <1>3, <3>1, AmountTotals
  <2>2. /\ Total(Quantities(staker', u)) = Total(Quantities(m, u)) + q
        /\ Total(XsatQuantities(staker', u)) = Total(XsatQuantities(m, u)) + x
        /\ \A y \in Stakers : y # u =>
             Quantities(staker', y) = Quantities(m, y) /\ XsatQuantities(staker', y) = XsatQuantities(m, y)
    <3>1. AmountMoves(m, b, u, w, q, x)
      BY <1>3, <1>b
    <3>2. /\ Total(Quantities(b, u)) = Total(Quantities(m, u)) + q
          /\ Total(XsatQuantities(b, u)) = Total(XsatQuantities(m, u)) + x
          /\ \A y \in Stakers : y # u =>
               Quantities(b, y) = Quantities(m, y) /\ XsatQuantities(b, y) = XsatQuantities(m, y)
      <4>1. /\ m \in [Stakers -> [Validators -> StakeRow]]
            /\ u \in Stakers /\ w \in Validators /\ q \in Int /\ x \in Int
        OBVIOUS
      <4>2. Total(Quantities(b, u)) = Total(Quantities(m, u)) + q
        BY ONLY <3>1, <4>1, AmountTotals
      <4>3. Total(XsatQuantities(b, u)) = Total(XsatQuantities(m, u)) + x
        BY ONLY <3>1, <4>1, AmountTotals
      <4>4. \A y \in Stakers : y # u =>
               Quantities(b, y) = Quantities(m, y) /\ XsatQuantities(b, y) = XsatQuantities(m, y)
        BY ONLY <3>1, <4>1, AmountTotals
      <4> QED
        BY <4>2, <4>3, <4>4
    <3> QED
      BY <1>b, <3>2
  <2>3. /\ Total(Quantities(staker', u)) = Total(Quantities(staker, u))
        /\ Total(XsatQuantities(staker', u)) = Total(XsatQuantities(staker, u))
    BY <2>1, <2>2
  <2>4. \A s \in NativeStakers :
          /\ Total(Quantities(staker', s)) = Total(Quantities(staker, s))
          /\ Total(XsatQuantities(staker', s)) = Total(XsatQuantities(staker, s))
    BY <2>1, <2>2, <2>3, Inputs
  <2> QED
    BY <2>4, BackedStays
<1> QED
  BY <1>1, <1>2, <1>3, AmountsMove

\* A call of endrmng.xsat with the change of the tokens.
LEMMA TransferBacked ==
  ASSUME EndorseManageTypeOK, TokenTypeOK, NativeBacked, NEW s \in NativeStakers, NEW v \in Validators,
         NEW t \in AllTokens, NEW q \in Int, staking' = [staking EXCEPT ![s][t] = staking[s][t] + q],
         AmountMoves(staker, staker', s, v, IF t = XSAT THEN 0 ELSE q, IF t = XSAT THEN q ELSE 0)
  PROVE  NativeBacked'
<1>1. /\ staker \in [Stakers -> [Validators -> StakeRow]] /\ s \in Stakers /\ s \in Accounts
      /\ staking \in [Accounts -> [AllTokens -> Nat]] /\ NativeStakers \subseteq Accounts
  BY TablesParts, Inputs, ExsatStakingAssumption DEF EndorseManageTypeOK, Tables, TokenTypeOK
<1>2. PICK e, x : e = (IF t = XSAT THEN 0 ELSE q) /\ x = (IF t = XSAT THEN q ELSE 0)
  OBVIOUS
<1>3. /\ Total(Quantities(staker', s)) = Total(Quantities(staker, s)) + e
      /\ Total(XsatQuantities(staker', s)) = Total(XsatQuantities(staker, s)) + x
      /\ \A y \in Stakers : y # s =>
           Quantities(staker', y) = Quantities(staker, y) /\ XsatQuantities(staker', y) = XsatQuantities(staker, y)
      /\ Total(Quantities(staker, s)) \in Int
  <2>0. PICK b : b = staker'
    OBVIOUS
  <2>1. e \in Int /\ x \in Int /\ AmountMoves(staker, b, s, v, e, x)
    BY <1>2, <2>0
  <2>2. /\ Total(Quantities(b, s)) = Total(Quantities(staker, s)) + e
        /\ Total(XsatQuantities(b, s)) = Total(XsatQuantities(staker, s)) + x
        /\ \A y \in Stakers : y # s =>
             Quantities(b, y) = Quantities(staker, y) /\ XsatQuantities(b, y) = XsatQuantities(staker, y)
        /\ Total(Quantities(staker, s)) \in Int
    BY <1>1, <2>1, AmountTotals
  <2> QED
    BY <2>0, <2>2
<1>4. /\ \A y \in Accounts, z \in AllTokens : y # s \/ z # t => staking'[y][z] = staking[y][z]
      /\ staking'[s][t] = staking[s][t] + q
      /\ Tokens \subseteq AllTokens /\ XSAT \in AllTokens /\ XSAT \notin Tokens /\ IsFiniteSet(Tokens)
  BY <1>1, TokenStakingAssumption DEF AllTokens
<1>5. \A y \in NativeStakers : y # s => TokenQuantities(y)' = TokenQuantities(y) /\ staking'[y][XSAT] = staking[y][XSAT]
  BY <1>1, <1>4 DEF TokenQuantities
<1>6. staking'[s][XSAT] = staking[s][XSAT] + x
  BY <1>1, <1>2, <1>4
<1>7. Total(TokenQuantities(s)') = Total(TokenQuantities(s)) + e
  <2>1. CASE t = XSAT
    <3>1. TokenQuantities(s)' = TokenQuantities(s)
      BY <1>1, <1>4, <2>1 DEF TokenQuantities
    <3>2. Total(TokenQuantities(s)) \in Int
      <4>1. Total(Quantities(staker, s)) \in Int /\ Total(Quantities(staker, s)) = Total(TokenQuantities(s))
        BY <1>3 DEF NativeBacked
      <4> QED
        BY <4>1
    <3> QED
      BY <1>2, <2>1, <3>1, <3>2
  <2>2. CASE t # XSAT
    <3>1. PICK f, g, S : f = TokenQuantities(s) /\ g = TokenQuantities(s)' /\ S = Tokens
      OBVIOUS
    <3>2. /\ IsFiniteSet(S) /\ DOMAIN f = S /\ DOMAIN g = S /\ t \in S /\ e \in Int
          /\ \A z \in S : f[z] \in Int
          /\ g[t] = f[t] + e /\ \A z \in S \ {t} : g[z] = f[z]
      BY <1>1, <1>2, <1>4, <2>2, <3>1 DEF TokenQuantities, AllTokens
    <3>3. Total(g) = Total(f) + e
      BY ONLY <3>2, TotalMoves
    <3> QED
      BY <3>1, <3>3
  <2> QED
    BY <2>1, <2>2
<1>8. \A y \in NativeStakers :
        /\ Total(Quantities(staker', y)) = Total(TokenQuantities(y)')
        /\ Total(XsatQuantities(staker', y)) = staking'[y][XSAT]
  <2>1. \A y \in NativeStakers : y \in Stakers
    BY Inputs
  <2> QED
    BY <1>3, <1>5, <1>6, <1>7, <2>1 DEF NativeBacked
<1> QED
  BY <1>8 DEF NativeBacked, Quantities, XsatQuantities, TokenQuantities

-----------------------------------------------------------------------------
(* The invariant. *)

StakingInv == StakingTypeOK /\ CreditInCustody /\ RoundsFilledInOrder /\ StakesAreBacked

\* A total of zeros is zero.
LEMMA TotalZero ==
  ASSUME NEW S, IsFiniteSet(S), NEW f, DOMAIN f = S, \A x \in S : f[x] = 0
  PROVE  Total(f) = 0
<1>1. SumFunctionOnSet(f, S) = 0 * Cardinality(S) /\ Cardinality(S) \in Nat
  BY SumConstant, FS_CardinalityType
<1> QED
  BY <1>1 DEF Total, SumFunction

\* The initial tables.
LEMMA InitTables ==
  ASSUME EndorseManageInit
  PROVE  /\ EndorseManageTypeOK
         /\ \A u \in Stakers, v \in Validators :
              staker[u][v].quantity = 0 /\ staker[u][v].xsat_quantity = 0
<1>1. /\ validator = [v \in Validators |-> Unregistered]
      /\ staker = [u \in Stakers |-> [v \in Validators |-> NoStake]]
      /\ stat = [total_staking |-> 0, xsat_total_staking |-> 0]
      /\ credit_config = [next_credit_weight_block |-> 0, next_credit_weight |-> 0, credit_weight |-> 0]
      /\ base_stake \in [btc : Nat \ {0}, xsat : Nat \ {0}]
      /\ xsat_active \in BOOLEAN /\ head_height = 0
  BY Inputs DEF EndorseManageInit
<1>2. NoStake \in StakeRow /\ NoStake.quantity = 0 /\ NoStake.xsat_quantity = 0
  BY DEF NoStake, StakeRow, NoReward, RewardType, RewardKinds
<1>3. Tables \in TablesType
  BY <1>1, <1>2 DEF Tables, TablesType
<1>4. \A u \in Stakers, v \in Validators :
        staker[u][v].quantity = 0 /\ staker[u][v].xsat_quantity = 0
  BY <1>1, <1>2
<1>5. NoStrayStake(Tables)
  BY <1>4 DEF NoStrayStake, Tables
<1>6. CreditWeightsOK
  <2>1. 0 \in 0..RATE_BASE_10000
    BY EndorseManageAssumption
  <2>2. credit_config \in [next_credit_weight_block : Nat, next_credit_weight : 0..RATE_BASE_10000,
                           credit_weight : 0..RATE_BASE_10000]
    BY <1>1, <2>1
  <2> QED
    BY <1>1, <1>4, <2>2, Inputs DEF CreditWeightsOK
<1>7. head_height \in Nat
  BY <1>1
<1> QED
  BY <1>1, <1>3, <1>4, <1>5, <1>6, <1>7 DEF EndorseManageTypeOK

\* At first there is no stake, no custody, no round and no token.
LEMMA InitHolds ==
  ASSUME StakingInit
  PROVE  StakingInv
<1>1. EndorseManageTypeOK /\ \A u \in Stakers, v \in Validators :
                               staker[u][v].quantity = 0 /\ staker[u][v].xsat_quantity = 0
  BY InitTables DEF StakingInit
<1>2. /\ custody = [u \in CreditStakers |-> NoCustody]
      /\ enrollment = [v \in Validators |-> NoEnrollment]
      /\ rounds = << >> /\ activation = [v \in Validators |-> 0]
  BY DEF StakingInit, CustodyInit
<1>3. /\ token = [t \in AllTokens |-> "absent"]
      /\ staking = [s \in Accounts |-> [t \in AllTokens |-> 0]]
      /\ releases = [s \in Accounts |-> [c \in StakingContracts |-> << >>]]
      /\ token_balance = [t \in AllTokens |-> 0]
  BY DEF StakingInit, TokenInit
<1>4. CustodyTypeOK
  <2>1. NoCustody \in CustodyType /\ NoEnrollment \in EnrollmentType
    BY DEF NoCustody, CustodyType, NoEnrollment, EnrollmentType
  <2>2. rounds \in Seq(Nat) /\ Len(rounds) = 0
    BY <1>2, EmptySeq
  <2>3. activation \in [Validators -> 0..Len(rounds)]
    BY <1>2, <2>2
  <2> QED
    BY <1>2, <2>1, <2>2, <2>3 DEF CustodyTypeOK
<1>5. TokenTypeOK
  <2>1. << >> \in Seq(ReleaseRow) /\ DOMAIN << >> = {}
    BY EmptySeq
  <2>2. releases \in [Accounts -> [StakingContracts -> Seq(ReleaseRow)]]
    BY <1>3, <2>1
  <2>3. \A s \in Accounts, c \in StakingContracts : releases[s][c] = << >>
    BY <1>3
  <2>4. \A s \in Accounts, c \in StakingContracts : \A i \in DOMAIN releases[s][c] :
          ContractOf(releases[s][c][i].token) = c
    BY <2>1, <2>3
  <2>5. /\ token \in [AllTokens -> {"absent", "open", "disabled"}]
        /\ staking \in [Accounts -> [AllTokens -> Nat]] /\ token_balance \in [AllTokens -> Int]
    BY <1>3
  <2> QED
    BY <2>2, <2>4, <2>5 DEF TokenTypeOK
<1>6. CreditInCustody
  BY <1>1, <1>2, Inputs DEF CreditInCustody, HasCustody
<1>7. RoundsFilledInOrder
  BY <1>2, EmptySeq DEF RoundsFilledInOrder
<1>8. StakedTokensHeld
  <2>1. ASSUME NEW t \in AllTokens
        PROVE  token_balance[t] = SumFunction([s \in Accounts |->
                                    staking[s][t] + OfToken(releases[s][ContractOf(t)], t)])
    <3>1. PICK f : f = [s \in Accounts |-> staking[s][t] + OfToken(releases[s][ContractOf(t)], t)]
      OBVIOUS
    <3>2. \A s \in Accounts : releases[s][ContractOf(t)] = << >> /\ staking[s][t] = 0
      BY <1>3 DEF ContractOf, StakingContracts
    <3>3. OfToken(<< >>, t) = 0
      <4>1. PICK g : g = [i \in 1..Len(<< >>) |-> OfRow(<< >>[i], t)]
        OBVIOUS
      <4>2. << >> \in Seq(ReleaseRow) /\ 1..Len(<< >>) = {}
        BY EmptySeq
      <4> QED
        BY <4>1, <4>2, OfTokenType, SumEmpty
    <3>4. \A s \in Accounts : f[s] = 0
      BY <3>1, <3>2, <3>3
    <3>5. DOMAIN f = Accounts /\ IsFiniteSet(Accounts)
      BY <3>1, TokenStakingAssumption
    <3>6. Total(f) = 0
      BY <3>4, <3>5, TotalZero
    <3> QED
      BY <1>3, <3>1, <3>6 DEF Total
  <2> QED
    BY <2>1 DEF StakedTokensHeld
<1>9. NativeBacked
  <2>1. ASSUME NEW s \in NativeStakers
        PROVE  Total(Quantities(staker, s)) = 0 /\ Total(XsatQuantities(staker, s)) = 0
               /\ Total(TokenQuantities(s)) = 0 /\ staking[s][XSAT] = 0
    <3>1. s \in Stakers /\ s \in Accounts /\ IsFiniteSet(Validators) /\ IsFiniteSet(Tokens)
          /\ Tokens \subseteq AllTokens /\ XSAT \in AllTokens
      BY Inputs, ExsatStakingAssumption, TokenStakingAssumption, StakersFinite DEF AllTokens
    <3>2. Total(Quantities(staker, s)) = 0
      BY <1>1, <3>1, TotalZero DEF Quantities
    <3>3. Total(XsatQuantities(staker, s)) = 0
      BY <1>1, <3>1, TotalZero DEF XsatQuantities
    <3>4. Total(TokenQuantities(s)) = 0
      BY <1>3, <3>1, TotalZero DEF TokenQuantities
    <3> QED
      BY <1>3, <3>1, <3>2, <3>3, <3>4
  <2> QED
    BY <2>1 DEF NativeBacked
<1> QED
  BY <1>1, <1>4, <1>5, <1>6, <1>7, <1>8, <1>9, BackedParts DEF StakingInv, StakingTypeOK

\* Custody and rounds stay as they are, and so does what is said of them.
LEMMA CustodyStays ==
  ASSUME CustodyTypeOK, RoundsFilledInOrder, UNCHANGED <<custodyVars, competeVars>>
  PROVE  CustodyTypeOK' /\ RoundsFilledInOrder' /\ custody' = custody
BY DEF CustodyTypeOK, RoundsFilledInOrder, custodyVars, competeVars

\* The tokens stay as they are, and so does what is said of them.
LEMMA TokensStay ==
  ASSUME TokenTypeOK, StakedTokensHeld, UNCHANGED tokenVars
  PROVE  TokenTypeOK' /\ StakedTokensHeld' /\ staking' = staking
BY DEF TokenTypeOK, StakedTokensHeld, tokenVars

\* A stake of a native staker is also one of its tokens.
LEMMA DepositHolds ==
  ASSUME StakingInv, NEW s \in NativeStakers, NEW v \in Validators, NEW t \in AllTokens, NEW q \in Amounts,
         Deposit(s, v, t, q) \/ ReleaseStake(s, v, t, q)
  PROVE  StakingInv'
<1>1. /\ EndorseManageTypeOK /\ CustodyTypeOK /\ TokenTypeOK /\ CreditInCustody /\ RoundsFilledInOrder
      /\ StakedTokensHeld /\ NativeBacked
  BY BackedParts DEF StakingInv, StakingTypeOK
<1>2. /\ q \in Nat \ {0} /\ s \in Stakers /\ s \in Accounts /\ ~IsCredit(s) /\ q \in Int /\ -q \in Int /\ 0 \in Int
  BY Inputs, ExsatStakingAssumption
<1>3. TokenTypeOK' /\ StakedTokensHeld'
  BY <1>1, <1>2, DoStakeHeld, ReleaseHeld DEF Deposit, ReleaseStake
<1>4. CustodyTypeOK' /\ RoundsFilledInOrder' /\ custody' = custody
  BY <1>1, CustodyStays DEF Deposit, ReleaseStake
<1>5. PICK e \in {q, -q} :
        /\ staking' = [staking EXCEPT ![s][t] = staking[s][t] + e]
        /\ EndorseManageTypeOK' /\ Tables.validator[v].registered
        /\ t = XSAT => XsatChanged(Tables, Tables', s, v, e)
        /\ t # XSAT => StakeChanged(Tables, Tables', s, v, e)
  <2>1. CASE Deposit(s, v, t, q)
    <3>1. staking' = [staking EXCEPT ![s][t] = staking[s][t] + q]
      BY <2>1 DEF Deposit, do_stake
    <3>2. CASE t = XSAT
      <4>1. stakexsat(s, v, q)
        BY <2>1, <3>2 DEF Deposit
      <4> QED
        BY <1>1, <1>2, <3>1, <3>2, <4>1, StakeXsatKeeps
    <3>3. CASE t # XSAT
      <4>1. stake(s, v, q)
        BY <2>1, <3>3 DEF Deposit
      <4> QED
        BY <1>1, <1>2, <3>1, <3>3, <4>1, StakeKeeps
    <3> QED
      BY <3>2, <3>3
  <2>2. CASE ReleaseStake(s, v, t, q)
    <3>1. staking' = [staking EXCEPT ![s][t] = staking[s][t] + (-q)]
      <4>1. staking' = [staking EXCEPT ![s][t] = staking[s][t] - q] /\ staking[s][t] \in Int
        BY <1>1, <1>2, <2>2, TokenParts DEF ReleaseStake, release
      <4>2. staking[s][t] - q = staking[s][t] + (-q)
        BY <1>2, <4>1
      <4> QED
        BY <4>1, <4>2
    <3>2. CASE t = XSAT
      <4>1. unstakexsat(s, v, q)
        BY <2>2, <3>2 DEF ReleaseStake
      <4> QED
        BY <1>1, <1>2, <3>1, <3>2, <4>1, StakeXsatKeeps
    <3>3. CASE t # XSAT
      <4>1. unstake(s, v, q)
        BY <2>2, <3>3 DEF ReleaseStake
      <4> QED
        BY <1>1, <1>2, <3>1, <3>3, <4>1, StakeKeeps
    <3> QED
      BY <3>2, <3>3
  <2> QED
    BY <2>1, <2>2
<1>6. /\ Tables.staker = staker /\ Tables'.staker = staker' /\ Tables \in TablesType
      /\ staker[s][v] \in StakeRow /\ e \in Int
  <2>1. Tables \in TablesType /\ Tables.staker = staker /\ Tables'.staker = staker'
    BY <1>1 DEF Tables, EndorseManageTypeOK
  <2> QED
    BY <1>2, <1>5, <2>1, TablesParts
<1>7. AmountMoves(staker, staker', s, v, IF t = XSAT THEN 0 ELSE e, IF t = XSAT THEN e ELSE 0)
  <2>1. CASE t = XSAT
    BY <1>5, <1>6, <2>1 DEF XsatChanged, Moved, AmountMoves, StakeRow
  <2>2. CASE t # XSAT
    <3>1. Counted(Tables, s, v) = staker[s][v].quantity
      BY <1>2, <1>5, <1>6, CountedType, RowOfRegistered
    <3> QED
      BY <1>5, <1>6, <2>2, <3>1 DEF StakeChanged, Moved, AmountMoves, StakeRow
  <2> QED
    BY <2>1, <2>2
<1>8. NativeBacked'
  BY <1>1, <1>5, <1>6, <1>7, TransferBacked
<1>9. \A y \in CreditStakers, w \in Validators : staker'[y][w].quantity = staker[y][w].quantity
  <2>1. \A y \in CreditStakers : y \in Stakers /\ y # s
    BY <1>2, Inputs
  <2> QED
    BY <1>7, <2>1 DEF AmountMoves
<1>10. CreditInCustody'
  BY <1>1, <1>4, <1>9, OthersKeepCredit
<1>11. StakesAreBacked'
  BY <1>3, <1>8 DEF StakesAreBacked, NativeBacked, Quantities, XsatQuantities, TokenQuantities
<1> QED
  BY <1>3, <1>4, <1>5, <1>10, <1>11 DEF StakingInv, StakingTypeOK

\* The invariant of the stakes is inductive.
LEMMA StepHolds ==
  ASSUME StakingInv, [StakingNext]_allStakingVars
  PROVE  StakingInv'
<1>1. /\ EndorseManageTypeOK /\ CustodyTypeOK /\ TokenTypeOK /\ CreditInCustody /\ RoundsFilledInOrder
      /\ StakedTokensHeld /\ NativeBacked
  BY BackedParts DEF StakingInv, StakingTypeOK
<1>2. StakedTokensHeld' /\ NativeBacked' => StakesAreBacked'
  BY DEF StakesAreBacked, NativeBacked, Quantities, XsatQuantities, TokenQuantities
<1>3. ASSUME UNCHANGED <<endorseManageVars, custodyVars, competeVars>>,
             TokenTypeOK', StakedTokensHeld', staking' = staking
      PROVE  StakingInv'
  <2>1. EndorseManageTypeOK' /\ staker' = staker
    BY <1>1, <1>3, EndorseManageStays
  <2>2. CustodyTypeOK' /\ RoundsFilledInOrder' /\ custody' = custody
    BY <1>1, <1>3, CustodyStays
  <2>3. CreditInCustody'
    BY <1>1, <2>1, <2>2, OthersKeepCredit
  <2>4. NativeBacked'
    BY <1>1, <1>3, <2>1, BackedStays
  <2> QED
    BY <1>2, <1>3, <2>1, <2>2, <2>3, <2>4 DEF StakingInv, StakingTypeOK
<1>4. CASE UNCHANGED allStakingVars
  <2>1. UNCHANGED <<endorseManageVars, custodyVars, competeVars>> /\ UNCHANGED tokenVars
    BY <1>4 DEF allStakingVars
  <2> QED
    BY <1>1, <1>3, <2>1, TokensStay
<1>5. CASE TokenActions
  <2>1. UNCHANGED <<endorseManageVars, custodyVars, competeVars>>
    BY <1>5 DEF TokenActions
  <2>2. TokenTypeOK' /\ StakedTokensHeld' /\ staking' = staking
    BY <1>1, <1>5, StatusHeld, WithdrawHeld, CycleHeld, ExsatStakingAssumption DEF TokenActions
  <2> QED
    BY <1>3, <2>1, <2>2
<1>6. CASE CustodyNext(Stakers, Validators) /\ UNCHANGED tokenVars
  <2>1. EndorseManageTypeOK' /\ CustodyTypeOK' /\ CreditInCustody' /\ RoundsFilledInOrder'
    BY <1>1, <1>6, CustodyKeepsTypes, CustodyKeepsCredit, RoundsStayFilled
  <2>2. TokenTypeOK' /\ StakedTokensHeld' /\ staking' = staking
    BY <1>1, <1>6, TokensStay
  <2>3. \A s \in NativeStakers, v \in Validators : staker'[s][v] = staker[s][v]
    <3>1. ASSUME NEW u \in EvmStakers, NEW v \in Validators, NEW q \in Nat, creditstake(u, v, q)
          PROVE  \A s \in NativeStakers, w \in Validators : staker'[s][w] = staker[s][w]
      <4>1. Moved(Tables, Tables', u, v, Weighted(q, get_credit_weight(head_height)) - Counted(Tables, u, v), 0)
        BY <1>1, <3>1, CreditStakeKeeps DEF CreditChanged
      <4>2. \A s \in NativeStakers : s \in Stakers /\ s # u
        BY Inputs, EndorseManageAssumption
      <4> QED
        BY <4>1, <4>2 DEF Moved, Tables
    <3>2. ASSUME NEW u \in CreditStakers, delcustody(u) \/ \E enough \in BOOLEAN : handle_staking(u, enough)
          PROVE  \A s \in NativeStakers, w \in Validators : staker'[s][w] = staker[s][w]
      <4>1. /\ custody[u].validator \in Validators /\ u \in EvmStakers
            /\ \E value \in Nat : creditstake(u, custody[u].validator, value) \/ UNCHANGED endorseManageVars
        BY <1>1, <3>2, CustodyCalls, Inputs
      <4> QED
        BY <1>1, <3>1, <4>1, EndorseManageStays
    <3>3. CASE UNCHANGED endorseManageVars
      BY <1>1, <3>3, EndorseManageStays
    <3>4. \/ UNCHANGED endorseManageVars
          \/ \E u \in CreditStakers : delcustody(u) \/ \E enough \in BOOLEAN : handle_staking(u, enough)
      BY <1>6 DEF CustodyNext, addcustody, enroll, verifytx, activate, verifyresult, addround
    <3> QED
      BY <3>2, <3>3, <3>4
  <2>4. NativeBacked'
    <3>1. \A s \in NativeStakers : Quantities(staker', s) = Quantities(staker, s)
                                   /\ XsatQuantities(staker', s) = XsatQuantities(staker, s)
      BY <2>3 DEF Quantities, XsatQuantities
    <3> QED
      BY <1>1, <2>2, <3>1, BackedStays
  <2> QED
    BY <1>2, <2>1, <2>2, <2>4 DEF StakingInv, StakingTypeOK
<1>7. CASE (DirectNext(Stakers, Validators) \/ ConsensusCalls(Validators, Rewards))
             /\ UNCHANGED <<custodyVars, competeVars, tokenVars>>
  <2>1. EndorseManageTypeOK'
    BY <1>1, <1>7, StepKeepsTypes
  <2>2. CustodyTypeOK' /\ RoundsFilledInOrder' /\ custody' = custody
    BY <1>1, <1>7, CustodyStays
  <2>3. TokenTypeOK' /\ StakedTokensHeld' /\ staking' = staking
    BY <1>1, <1>7, TokensStay
  <2>4. NativeBacked'
    BY <1>1, <1>7, <2>3, DirectBacked
  <2>5. \A u \in CreditStakers, v \in Validators : staker'[u][v].quantity = staker[u][v].quantity
    <3>1. \A u \in CreditStakers : u \in Stakers /\ IsCredit(u)
      BY Inputs
    <3>2. CASE AmountsKept
      BY <3>1, <3>2 DEF AmountsKept
    <3>3. ASSUME NEW u \in EvmStakers, NEW v \in Validators, NEW q \in Int, NEW x \in Int,
                 ~IsCredit(u), AmountMoves(staker, staker', u, v, q, x)
          PROVE  \A y \in CreditStakers, w \in Validators : staker'[y][w].quantity = staker[y][w].quantity
      BY <3>1, <3>3 DEF AmountMoves
    <3>4. ASSUME NEW u \in Stakers, NEW v \in Validators, NEW w \in Validators, NEW q \in Int, NEW x \in Int,
                 ~IsCredit(u), NEW m \in [Stakers -> [Validators -> StakeRow]],
                 AmountMoves(staker, m, u, v, -q, -x), AmountMoves(m, staker', u, w, q, x)
          PROVE  \A y \in CreditStakers, z \in Validators : staker'[y][z].quantity = staker[y][z].quantity
      <4>1. \A y \in CreditStakers, z \in Validators : staker'[y][z] = m[y][z] /\ m[y][z] = staker[y][z]
        BY <3>1, <3>4 DEF AmountMoves
      <4> QED
        BY <4>1
    <3> QED
      BY <1>1, <1>7, <3>2, <3>3, <3>4, AmountsMove
  <2>6. CreditInCustody'
    BY <1>1, <2>2, <2>5, OthersKeepCredit
  <2> QED
    BY <1>2, <2>1, <2>2, <2>3, <2>4, <2>6 DEF StakingInv, StakingTypeOK
<1>8. ASSUME NEW s \in Stakers \cap NativeStakers, NEW v \in Validators, NEW t \in AllTokens, NEW q \in Amounts,
             Deposit(s, v, t, q) \/ ReleaseStake(s, v, t, q)
      PROVE  StakingInv'
  BY <1>8, DepositHolds
<1>9. \/ UNCHANGED allStakingVars \/ TokenActions
      \/ CustodyNext(Stakers, Validators) /\ UNCHANGED tokenVars
      \/ /\ DirectNext(Stakers, Validators) \/ ConsensusCalls(Validators, Rewards)
         /\ UNCHANGED <<custodyVars, competeVars, tokenVars>>
      \/ \E s \in Stakers \cap NativeStakers, v \in Validators, t \in AllTokens, q \in Amounts :
           Deposit(s, v, t, q) \/ ReleaseStake(s, v, t, q)
  BY DEF StakingNext, StakingStep
<1> QED
  BY <1>4, <1>5, <1>6, <1>7, <1>8, <1>9

\* Every reachable state satisfies the invariant.
THEOREM StakingInvariant == StakingSpec => []StakingInv
<1>1. StakingInit => StakingInv
  BY InitHolds
<1>2. StakingInv /\ [StakingNext]_allStakingVars => StakingInv'
  BY StepHolds
<1> QED
  BY <1>1, <1>2, PTL DEF StakingSpec

\* Its tables keep their types.
THEOREM StakingTypes == StakingSpec => []StakingTypeOK
<1>1. StakingInv => StakingTypeOK
  BY DEF StakingInv
<1> QED
  BY <1>1, StakingInvariant, PTL

\* A stake through a credit proxy is what the custody of its address has on
\* file: delcustody and handle_staking change both or neither, and nothing else
\* in endrmng.xsat touches a credit stake's amount.
THEOREM CustodyHoldsCredit == StakingSpec => []CreditInCustody
<1>1. StakingInv => CreditInCustody
  BY DEF StakingInv
<1> QED
  BY <1>1, StakingInvariant, PTL

\* compete.xsat opens a round only when the last is full, so every round but the
\* last has exactly its quota of validators, and none has more.
THEOREM RoundsAreFilledInOrder == StakingSpec => []RoundsFilledInOrder
<1>1. StakingInv => RoundsFilledInOrder
  BY DEF StakingInv
<1> QED
  BY <1>1, StakingInvariant, PTL

\* What endrmng.xsat holds for a native account in total, over all validators and
\* however it was restaked, is what it has deposited in staking.xsat and
\* xsatstk.xsat, and the tokens are there.
THEOREM StakesStayBacked == StakingSpec => []StakesAreBacked
<1>1. StakingInv => StakesAreBacked
  BY DEF StakingInv
<1> QED
  BY <1>1, StakingInvariant, PTL

-----------------------------------------------------------------------------
(* What a staker is due. *)

\* Due, in any tables.
DueOf(t, u, v, k) ==
  t.staker[u][v].unclaimed[k]
    + (Earned(Counted(t, u, v), t.validator[v].acc_per_share[k]) - t.staker[u][v].debt[k])

\* More is earned by a larger share, and nothing by none.
LEMMA EarnedGrows ==
  ASSUME NEW a \in Nat, NEW x \in Nat, NEW y \in Nat, x <= y
  PROVE  Earned(a, x) <= Earned(a, y) /\ Earned(a, x) \in Nat /\ Earned(a, y) \in Nat
<1>1. a * x \in Nat /\ a * y \in Nat /\ a * x <= a * y
  OBVIOUS
<1>2. RATE_BASE \in Nat \ {0}
  BY EndorseManageAssumption
<1> QED
  BY <1>1, <1>2, Quotient DEF Earned

\* The parts of what is due are numbers.
LEMMA DueType ==
  ASSUME NEW t \in TablesType, NEW u \in Stakers, NEW v \in Validators, NEW k \in RewardKinds,
         t.validator[v].registered
  PROVE  /\ t.validator[v] \in ValidatorRow /\ Counted(t, u, v) \in Nat
         /\ t.validator[v].acc_per_share[k] \in Nat
         /\ Earned(Counted(t, u, v), t.validator[v].acc_per_share[k]) \in Nat
         /\ t.staker[u][v].unclaimed[k] \in Nat /\ t.staker[u][v].debt[k] \in Nat
         /\ DueOf(t, u, v, k) \in Int
<1>1. t.validator[v] \in ValidatorRow /\ t.staker[u][v] \in StakeRow
  BY RowOfRegistered, TablesParts
<1>2. t.validator[v].acc_per_share[k] \in Nat /\ t.staker[u][v].unclaimed[k] \in Nat
      /\ t.staker[u][v].debt[k] \in Nat
  BY <1>1 DEF ValidatorRow, StakeRow, RewardType
<1>3. Counted(t, u, v) \in Nat
  BY <1>1, CountedType
<1>4. Earned(Counted(t, u, v), t.validator[v].acc_per_share[k]) \in Nat
  BY <1>2, <1>3, EarnedType
<1>5. DueOf(t, u, v, k) \in Int
  <2>1. \A a, b, c \in Nat : a + (b - c) \in Int
    OBVIOUS
  <2> QED
    BY <1>2, <1>4, <2>1 DEF DueOf
<1> QED
  BY <1>1, <1>2, <1>3, <1>4, <1>5

\* A stake that stays is due what it was, and more if the share has grown.
LEMMA DueGrows ==
  ASSUME NEW t \in TablesType, NEW s \in TablesType, NEW u \in Stakers, NEW v \in Validators,
         NEW k \in RewardKinds, t.validator[v].registered, s.validator[v].registered,
         s.staker[u][v] = t.staker[u][v], Counted(s, u, v) = Counted(t, u, v),
         s.validator[v].acc_per_share[k] >= t.validator[v].acc_per_share[k]
  PROVE  DueOf(s, u, v, k) >= DueOf(t, u, v, k)
<1>1. PICK a, x, y, z, d : /\ a = Counted(t, u, v) /\ x = t.validator[v].acc_per_share[k]
                           /\ y = s.validator[v].acc_per_share[k]
                           /\ z = t.staker[u][v].unclaimed[k] /\ d = t.staker[u][v].debt[k]
  OBVIOUS
<1>2. a \in Nat /\ x \in Nat /\ y \in Nat /\ z \in Nat /\ d \in Nat
  BY <1>1, DueType
<1>3. Earned(a, x) <= Earned(a, y) /\ Earned(a, x) \in Nat /\ Earned(a, y) \in Nat
  BY <1>1, <1>2, EarnedGrows
<1>4. z + (Earned(a, y) - d) >= z + (Earned(a, x) - d)
  BY <1>2, <1>3
<1>5. DueOf(t, u, v, k) = z + (Earned(a, x) - d) /\ DueOf(s, u, v, k) = z + (Earned(a, y) - d)
  BY <1>1 DEF DueOf
<1> QED
  BY <1>4, <1>5

\* Between two tables nobody's due falls.
DueKept(t, s) ==
  \A u \in Stakers, v \in Validators, k \in RewardKinds :
    t.validator[v].registered => s.validator[v].registered /\ DueOf(s, u, v, k) >= DueOf(t, u, v, k)

\* One such change may follow another.
LEMMA DueKeptTwice ==
  ASSUME NEW t \in TablesType, NEW m \in TablesType, NEW s \in TablesType, DueKept(t, m), DueKept(m, s)
  PROVE  DueKept(t, s)
<1>1. SUFFICES ASSUME NEW u \in Stakers, NEW v \in Validators, NEW k \in RewardKinds,
                      t.validator[v].registered
               PROVE  s.validator[v].registered /\ DueOf(s, u, v, k) >= DueOf(t, u, v, k)
  BY DEF DueKept
<1>2. m.validator[v].registered /\ DueOf(m, u, v, k) >= DueOf(t, u, v, k)
  BY <1>1 DEF DueKept
<1>3. s.validator[v].registered /\ DueOf(s, u, v, k) >= DueOf(m, u, v, k)
  BY <1>2 DEF DueKept
<1>4. DueOf(t, u, v, k) \in Int /\ DueOf(m, u, v, k) \in Int /\ DueOf(s, u, v, k) \in Int
  BY <1>1, <1>2, <1>3, DueType
<1> QED
  BY <1>2, <1>3, <1>4

\* Between two tables nobody's due changes, nor do the shares and what is held for
\* the stakers, and of the validators that are not registered nothing does.
DueSame(t, s) ==
  \A v \in Validators :
    /\ t.validator[v].registered =>
         /\ s.validator[v].registered
         /\ \A k \in RewardKinds :
              /\ s.validator[v].acc_per_share[k] = t.validator[v].acc_per_share[k]
              /\ Left(s.validator[v], k) = Left(t.validator[v], k)
              /\ \A u \in Stakers : DueOf(s, u, v, k) = DueOf(t, u, v, k)
    /\ ~t.validator[v].registered =>
         ~s.validator[v].registered /\ \A u \in Stakers : s.staker[u][v] = t.staker[u][v]

\* One such change may follow another.
LEMMA DueSameTwice ==
  ASSUME NEW t, NEW m, NEW s, DueSame(t, m), DueSame(m, s)
  PROVE  DueSame(t, s)
BY DEF DueSame

\* What is due stays, so it is kept.
LEMMA SameIsKept ==
  ASSUME NEW t \in TablesType, NEW s, DueSame(t, s)
  PROVE  DueKept(t, s)
<1>1. SUFFICES ASSUME NEW u \in Stakers, NEW v \in Validators, NEW k \in RewardKinds,
                      t.validator[v].registered
               PROVE  s.validator[v].registered /\ DueOf(s, u, v, k) >= DueOf(t, u, v, k)
  BY DEF DueKept
<1>2. s.validator[v].registered /\ DueOf(s, u, v, k) = DueOf(t, u, v, k)
  BY <1>1 DEF DueSame
<1>3. DueOf(t, u, v, k) \in Int
  BY <1>1, DueType
<1> QED
  BY <1>2, <1>3

\* What a stake counts for depends on its amount and, of a credit stake, on the
\* weight of its validator.
LEMMA CountedSame ==
  ASSUME NEW t, NEW s, NEW u \in Stakers, NEW v \in Validators,
         s.staker[u][v].quantity = t.staker[u][v].quantity,
         ~IsCredit(u) \/ s.validator[v].credit_weight = t.validator[v].credit_weight
  PROVE  Counted(s, u, v) = Counted(t, u, v)
BY DEF Counted, validator_weight

\* A credit stake of nothing counts for nothing.
LEMMA NothingCounts ==
  ASSUME NEW t \in TablesType, NEW u \in Stakers, NEW v \in Validators, t.validator[v].registered,
         t.staker[u][v].quantity = 0
  PROVE  Counted(t, u, v) = 0
<1>1. t.validator[v] \in ValidatorRow
  BY RowOfRegistered
<1>2. CASE ~IsCredit(u)
  BY <1>1, <1>2, CountedType
<1>3. CASE IsCredit(u)
  <2>1. PICK w : w = validator_weight(t.validator[v])
    OBVIOUS
  <2>2. w \in Nat /\ RATE_BASE_10000 \in Nat \ {0}
    BY <1>1, <2>1, CountedType, EndorseManageAssumption
  <2>3. Weighted(0, w) = 0
    BY <2>2 DEF Weighted
  <2> QED
    BY <1>3, <2>1, <2>3 DEF Counted
<1> QED
  BY <1>2, <1>3

\* Nobody is due less when only rows of validators change.
LEMMA DueFollows ==
  ASSUME NEW t \in TablesType, NEW s, RowsFollow(t, s)
  PROVE  DueKept(t, s)
<1>1. s \in TablesType /\ s.staker = t.staker
  BY DEF RowsFollow
<1>2. SUFFICES ASSUME NEW u \in Stakers, NEW v \in Validators, NEW k \in RewardKinds,
                      t.validator[v].registered
               PROVE  s.validator[v].registered /\ DueOf(s, u, v, k) >= DueOf(t, u, v, k)
  BY DEF DueKept
<1>3. /\ s.validator[v].registered /\ s.validator[v].credit_weight = t.validator[v].credit_weight
      /\ s.validator[v].acc_per_share[k] >= t.validator[v].acc_per_share[k]
  BY <1>2 DEF RowsFollow, Follows
<1>4. Counted(s, u, v) = Counted(t, u, v)
  BY <1>1, <1>3, CountedSame
<1> QED
  BY <1>1, <1>2, <1>3, <1>4, DueGrows

\* A row of a validator that keeps its share, its credit weight and its funds.
LEMMA DueOfRow ==
  ASSUME NEW t \in TablesType, NEW v \in Validators, NEW s, OneRow(t, s, v),
         t.validator[v].registered, s.validator[v].registered,
         s.validator[v].credit_weight = t.validator[v].credit_weight,
         s.validator[v].acc_per_share = t.validator[v].acc_per_share,
         s.validator[v].balance = t.validator[v].balance,
         s.validator[v].unclaimed = t.validator[v].unclaimed
  PROVE  DueSame(t, s)
<1>1. s.staker = t.staker /\ \A w \in Validators : w # v => s.validator[w] = t.validator[w]
  BY DEF OneRow
<1>2. SUFFICES ASSUME NEW w \in Validators
               PROVE  /\ t.validator[w].registered =>
                           /\ s.validator[w].registered
                           /\ \A k \in RewardKinds :
                                /\ s.validator[w].acc_per_share[k] = t.validator[w].acc_per_share[k]
                                /\ Left(s.validator[w], k) = Left(t.validator[w], k)
                                /\ \A u \in Stakers : DueOf(s, u, w, k) = DueOf(t, u, w, k)
                      /\ ~t.validator[w].registered =>
                           ~s.validator[w].registered /\ \A u \in Stakers : s.staker[u][w] = t.staker[u][w]
  BY DEF DueSame
<1>3. CASE w = v
  <2>1. \A u \in Stakers : Counted(s, u, v) = Counted(t, u, v)
    BY <1>1, CountedSame
  <2> QED
    BY <1>1, <1>3, <2>1 DEF DueOf, Left
<1>4. CASE w # v
  <2>1. \A u \in Stakers : Counted(s, u, w) = Counted(t, u, w)
    BY <1>1, <1>4, CountedSame
  <2> QED
    BY <1>1, <1>4, <2>1 DEF DueOf, Left
<1> QED
  BY <1>3, <1>4

\* A new row: of the others nothing changes.
LEMMA DueOfNewRow ==
  ASSUME NEW t \in TablesType, NEW v \in Validators, NEW s, OneRow(t, s, v), ~t.validator[v].registered
  PROVE  DueKept(t, s)
<1>1. /\ s \in TablesType /\ s.staker = t.staker
      /\ \A w \in Validators : w # v => s.validator[w] = t.validator[w]
  BY DEF OneRow
<1>2. SUFFICES ASSUME NEW u \in Stakers, NEW w \in Validators, NEW k \in RewardKinds,
                      t.validator[w].registered
               PROVE  s.validator[w].registered /\ DueOf(s, u, w, k) >= DueOf(t, u, w, k)
  BY DEF DueKept
<1>3. s.validator[w] = t.validator[w]
  BY <1>1, <1>2
<1>4. Counted(s, u, w) = Counted(t, u, w)
  BY <1>1, <1>3, CountedSame
<1>5. s.validator[w].acc_per_share[k] >= t.validator[w].acc_per_share[k]
  BY <1>2, <1>3, DueType
<1> QED
  BY <1>1, <1>2, <1>3, <1>4, <1>5, DueGrows

\* When a stake moves, no other counts or is due less or more: if it is a credit
\* stake with the same validator, the weight has stayed or it is of nothing.
LEMMA DueOfOthers ==
  ASSUME NEW t \in TablesType, NEW s, NEW u \in Stakers, NEW v \in Validators, NEW q, NEW x,
         t.validator[v].registered, Moved(t, s, u, v, q, x),
         \/ KeepsWeight(t.validator[v], s.validator[v])
         \/ \A y \in CreditStakers : y # u => t.staker[y][v].quantity = 0,
         NEW y \in Stakers, NEW w \in Validators,
         y # u \/ w # v, t.validator[w].registered
  PROVE  /\ s.validator[w].registered /\ s.validator[w].acc_per_share = t.validator[w].acc_per_share
         /\ Counted(s, y, w) = Counted(t, y, w)
         /\ \A k \in RewardKinds : DueOf(s, y, w, k) = DueOf(t, y, w, k)
<1>1. /\ s \in TablesType /\ s.staker[y][w] = t.staker[y][w]
      /\ w # v => s.validator[w] = t.validator[w]
      /\ s.validator[v].registered /\ s.validator[v].acc_per_share = t.validator[v].acc_per_share
  BY DEF Moved, KeepsRow
<1>2. s.validator[w].registered /\ s.validator[w].acc_per_share = t.validator[w].acc_per_share
  BY <1>1
<1>3. Counted(s, y, w) = Counted(t, y, w)
  <2>1. CASE ~IsCredit(y) \/ w # v \/ KeepsWeight(t.validator[v], s.validator[v])
    <3>1. ~IsCredit(y) \/ s.validator[w].credit_weight = t.validator[w].credit_weight
      BY <1>1, <2>1 DEF KeepsWeight
    <3> QED
      BY <1>1, <3>1, CountedSame
  <2>2. CASE IsCredit(y) /\ w = v /\ ~KeepsWeight(t.validator[v], s.validator[v])
    <3>1. y \in CreditStakers /\ y # u
      BY <2>2 DEF CreditStakers, IsCredit
    <3>2. t.staker[y][w].quantity = 0
      BY <2>2, <3>1
    <3> QED
      BY <1>1, <2>2, <3>2, NothingCounts
  <2> QED
    BY <2>1, <2>2
<1> QED
  BY <1>1, <1>2, <1>3 DEF DueOf

\* A stake that moves and is due what it was: so is everybody.
LEMMA MovedSame ==
  ASSUME NEW t \in TablesType, NEW s, NEW u \in Stakers, NEW v \in Validators, NEW q, NEW x,
         t.validator[v].registered, Moved(t, s, u, v, q, x),
         s.validator[v].balance = t.validator[v].balance,
         \/ KeepsWeight(t.validator[v], s.validator[v])
         \/ \A y \in CreditStakers : y # u => t.staker[y][v].quantity = 0,
         \A k \in RewardKinds : DueOf(s, u, v, k) = DueOf(t, u, v, k)
  PROVE  DueSame(t, s)
<1>1. /\ \A w \in Validators : w # v => s.validator[w] = t.validator[w]
      /\ \A y \in Stakers, w \in Validators : w # v => s.staker[y][w] = t.staker[y][w]
      /\ s.validator[v].registered /\ s.validator[v].acc_per_share = t.validator[v].acc_per_share
      /\ s.validator[v].unclaimed = t.validator[v].unclaimed
  BY DEF Moved, KeepsRow
<1>2. \A w \in Validators, k \in RewardKinds : Left(s.validator[w], k) = Left(t.validator[w], k)
  BY <1>1 DEF Left
<1>3. ASSUME NEW w \in Validators, t.validator[w].registered, NEW k \in RewardKinds, NEW y \in Stakers
      PROVE  DueOf(s, y, w, k) = DueOf(t, y, w, k)
  <2>1. CASE y = u /\ w = v
    BY <2>1
  <2>2. CASE y # u \/ w # v
    BY <1>3, <2>2, DueOfOthers
  <2> QED
    BY <2>1, <2>2
<1>4. \A w \in Validators :
        /\ s.validator[w].registered = t.validator[w].registered
        /\ s.validator[w].acc_per_share = t.validator[w].acc_per_share \/ ~t.validator[w].registered
        /\ ~t.validator[w].registered => \A y \in Stakers : s.staker[y][w] = t.staker[y][w]
  <2>1. s.validator[v].registered = t.validator[v].registered
    BY DEF Moved, KeepsRow
  <2> QED
    BY <1>1, <2>1
<1> QED
  BY <1>2, <1>3, <1>4 DEF DueSame

\* A stake that is settled is due what it was.
LEMMA DueOfSettled ==
  ASSUME NEW t \in TablesType, NEW s \in TablesType, NEW u \in Stakers, NEW v \in Validators,
         NEW k \in RewardKinds, t.validator[v].registered, s.validator[v].registered,
         s.validator[v].acc_per_share = t.validator[v].acc_per_share,
         NEW now, Counted(s, u, v) = now, RewardsSettled(t, s, u, v, now)
  PROVE  DueOf(s, u, v, k) = DueOf(t, u, v, k)
<1>1. PICK acc, a, z, d : /\ acc = t.validator[v].acc_per_share[k] /\ a = Counted(t, u, v)
                          /\ z = t.staker[u][v].unclaimed[k] /\ d = t.staker[u][v].debt[k]
  OBVIOUS
<1>2. /\ s.staker[u][v].debt[k] = Earned(now, acc)
      /\ s.staker[u][v].unclaimed[k] = z + Earned(a, acc) - d
  BY <1>1 DEF RewardsSettled
<1>3. Earned(a, acc) \in Nat /\ z \in Nat /\ d \in Nat /\ Earned(now, acc) \in Nat
  <2>1. Earned(a, acc) \in Nat /\ z \in Nat /\ d \in Nat
    BY <1>1, DueType
  <2>2. s.staker[u][v].debt[k] \in Nat
    BY DueType
  <2> QED
    BY <1>2, <2>1, <2>2
<1>4. DueOf(t, u, v, k) = z + (Earned(a, acc) - d)
  BY <1>1 DEF DueOf
<1>5. DueOf(s, u, v, k) = (z + Earned(a, acc) - d) + (Earned(now, acc) - Earned(now, acc))
  BY <1>1, <1>2 DEF DueOf
<1> QED
  BY <1>3, <1>4, <1>5

\* A stake settles what it is due.
LEMMA StakeKeepsDue ==
  ASSUME NEW t \in TablesType, NEW s, NEW u \in Stakers, ~IsCredit(u), NEW v \in Validators, NEW q,
         t.validator[v].registered, StakeChanged(t, s, u, v, q)
  PROVE  DueSame(t, s)
<1>1. /\ s \in TablesType /\ Moved(t, s, u, v, q, 0) /\ KeepsWeight(t.validator[v], s.validator[v])
      /\ s.validator[v].balance = t.validator[v].balance
      /\ s.staker[u][v].quantity = Counted(t, u, v) + q
      /\ RewardsSettled(t, s, u, v, Counted(t, u, v) + q)
      /\ s.validator[v].registered /\ s.validator[v].acc_per_share = t.validator[v].acc_per_share
  BY DEF StakeChanged, Moved, KeepsRow
<1>2. Counted(s, u, v) = Counted(t, u, v) + q
  BY <1>1 DEF Counted
<1>3. \A k \in RewardKinds : DueOf(s, u, v, k) = DueOf(t, u, v, k)
  BY <1>1, <1>2, DueOfSettled
<1> QED
  BY <1>1, <1>3, MovedSame

\* A stake of XSAT earns nothing.
LEMMA XsatKeepsDue ==
  ASSUME NEW t \in TablesType, NEW s, NEW u \in Stakers, NEW v \in Validators, NEW q,
         t.validator[v].registered, XsatChanged(t, s, u, v, q)
  PROVE  DueSame(t, s)
<1>1. /\ Moved(t, s, u, v, 0, q) /\ KeepsWeight(t.validator[v], s.validator[v])
      /\ s.validator[v].balance = t.validator[v].balance
      /\ s.staker[u][v].quantity = t.staker[u][v].quantity
      /\ s.staker[u][v].debt = t.staker[u][v].debt /\ s.staker[u][v].unclaimed = t.staker[u][v].unclaimed
      /\ s.validator[v].acc_per_share = t.validator[v].acc_per_share
  BY DEF XsatChanged, Moved, KeepsRow
<1>2. Counted(s, u, v) = Counted(t, u, v)
  BY <1>1, CountedSame DEF KeepsWeight
<1>3. \A k \in RewardKinds : DueOf(s, u, v, k) = DueOf(t, u, v, k)
  BY <1>1, <1>2 DEF DueOf
<1> QED
  BY <1>1, <1>3, MovedSame

\* A credit stake settles what it is due at the weight it counted with.
LEMMA CreditKeepsDue ==
  ASSUME NEW t \in TablesType, NEW s, NEW u \in Stakers, NEW v \in Validators, NEW quantity, NEW weight,
         t.validator[v].registered, CreditChanged(t, s, u, v, quantity, weight),
         \A y \in CreditStakers : y # u => t.staker[y][v].quantity = 0
  PROVE  DueSame(t, s)
<1>1. PICK q, now : q = Weighted(quantity, weight) - Counted(t, u, v) /\ now = Weighted(quantity, weight)
  OBVIOUS
<1>2. /\ s \in TablesType /\ Moved(t, s, u, v, q, 0)
      /\ s.validator[v].balance = t.validator[v].balance
      /\ Counted(s, u, v) = now
      /\ \/ RewardsSettled(t, s, u, v, now)
         \/ /\ now = Counted(t, u, v)
            /\ s.staker[u][v].debt = t.staker[u][v].debt
            /\ s.staker[u][v].unclaimed = t.staker[u][v].unclaimed
  BY <1>1 DEF CreditChanged, Moved
<1>3. s.validator[v].registered /\ s.validator[v].acc_per_share = t.validator[v].acc_per_share
  BY <1>2 DEF Moved, KeepsRow
<1>4. \A k \in RewardKinds : DueOf(s, u, v, k) = DueOf(t, u, v, k)
  <2>1. CASE RewardsSettled(t, s, u, v, now)
    BY <1>2, <1>3, <2>1, DueOfSettled
  <2>2. CASE /\ now = Counted(t, u, v)
             /\ s.staker[u][v].debt = t.staker[u][v].debt
             /\ s.staker[u][v].unclaimed = t.staker[u][v].unclaimed
    BY <1>2, <1>3, <2>2 DEF DueOf
  <2> QED
    BY <1>2, <2>1, <2>2
<1> QED
  BY <1>2, <1>4, MovedSame

\* At most one custody vouches for a validator, which custody.xsat does not
\* enforce: an endorsement counts the first of its credit stakes again.
OneCustodyPerValidator ==
  \A u, w \in CreditStakers :
    HasCustody(u) /\ HasCustody(w) /\ custody[u].validator = custody[w].validator => u = w

\* The validator of a custody has no other credit.
LEMMA AloneWithValidator ==
  ASSUME CreditInCustody, OneCustodyPerValidator, NEW u \in CreditStakers, NEW v \in Validators,
         HasCustody(u), custody[u].validator = v
  PROVE  \A y \in CreditStakers : y # u => staker[y][v].quantity = 0
BY DEF CreditInCustody, OneCustodyPerValidator

\* Credit is with the validator of its custody.
LEMMA CreditIsInCustody ==
  ASSUME CreditInCustody, NEW u \in CreditStakers, NEW v \in Validators, staker[u][v].quantity # 0
  PROVE  HasCustody(u) /\ custody[u].validator = v
BY DEF CreditInCustody

\* From one table to another by rows of validators that follow and stakes that are
\* settled.
Settles(t, s) == \E m \in TablesType : RowsFollow(t, m) /\ DueSame(m, s)

\* An endorsement that counts a credit stake again settles it.
LEMMA EndorseKeepsDue ==
  ASSUME EndorseManageTypeOK, CreditInCustody, OneCustodyPerValidator,
         NEW v \in Validators, NEW h \in Nat, endorse(v, h)
  PROVE  Settles(Tables, Tables')
<1>1. PICK m : /\ RowsFollow(Tables, m) /\ m.validator[v].registered
               /\ \/ Tables' = m
                  \/ \E u \in EvmStakers :
                       /\ IsCredit(u) /\ m.staker[u][v].quantity # 0
                       /\ CreditChanged(m, Tables', u, v, m.staker[u][v].quantity, get_credit_weight(h))
  BY EndorseMoves
<1>2. Tables \in TablesType /\ Tables.staker = staker
  BY DEF EndorseManageTypeOK, Tables
<1>3. m \in TablesType /\ m.staker = staker
  BY <1>1, <1>2 DEF RowsFollow
<1>4. CASE Tables' = m
  <2>1. DueSame(m, m)
    BY DEF DueSame
  <2> QED
    BY <1>1, <1>3, <1>4, <2>1 DEF Settles
<1>5. ASSUME NEW u \in EvmStakers, IsCredit(u), m.staker[u][v].quantity # 0,
             CreditChanged(m, Tables', u, v, m.staker[u][v].quantity, get_credit_weight(h))
      PROVE  Settles(Tables, Tables')
  <2>1. u \in CreditStakers /\ u \in Stakers
    BY <1>5, Inputs DEF CreditStakers
  <2>2. \A y \in CreditStakers : y # u => m.staker[y][v].quantity = 0
    BY <1>3, <1>5, <2>1, CreditIsInCustody, AloneWithValidator
  <2>3. PICK s, quantity, weight : s = Tables' /\ CreditChanged(m, s, u, v, quantity, weight)
    BY <1>5
  <2>4. DueSame(m, s)
    BY <1>1, <1>3, <2>1, <2>2, <2>3, CreditKeepsDue
  <2> QED
    BY <1>1, <1>3, <2>3, <2>4 DEF Settles
<1> QED
  BY <1>1, <1>4, <1>5

\* Tables whose rows follow, and tables with stakes that are settled, are both.
LEMMA SettlesOne ==
  ASSUME NEW t \in TablesType, NEW s, RowsFollow(t, s) \/ DueSame(t, s)
  PROVE  Settles(t, s)
<1>1. DueSame(s, s) /\ RowsFollow(t, t)
  BY TablesFollow DEF DueSame
<1> QED
  BY <1>1 DEF Settles, RowsFollow

\* A stake that moves from a validator to another is settled with both.
LEMMA RestakeKeepsDue ==
  ASSUME EndorseManageTypeOK, NEW u \in Stakers, NEW v \in Validators, NEW w \in Validators,
         NEW q \in Nat \ {0}, newstake(u, v, w, q) \/ restakexsat(u, v, w, q)
  PROVE  DueSame(Tables, Tables')
<1>1. Tables \in TablesType
  BY DEF EndorseManageTypeOK
<1>2. PICK s, e : s = Tables' /\ e = -q
  OBVIOUS
<1>3. CASE newstake(u, v, w, q)
  <2>1. PICK m \in TablesType :
          /\ Tables.validator[v].registered /\ StakeChanged(Tables, m, u, v, e)
          /\ m.validator[w].registered /\ StakeChanged(m, s, u, w, q)
    BY <1>2, <1>3, RestakeKeeps
  <2>2. ~IsCredit(u)
    BY <1>3, RestakeKeeps
  <2>4. DueSame(Tables, m)
    BY <1>1, <2>1, <2>2, StakeKeepsDue
  <2>5. DueSame(m, s)
    BY <2>1, <2>2, StakeKeepsDue
  <2> QED
    BY <1>2, <2>4, <2>5, DueSameTwice
<1>4. CASE restakexsat(u, v, w, q)
  <2>1. PICK m \in TablesType :
          /\ Tables.validator[v].registered /\ XsatChanged(Tables, m, u, v, e)
          /\ m.validator[w].registered /\ XsatChanged(m, s, u, w, q)
    BY <1>2, <1>4, RestakeXsatKeeps
  <2>4. DueSame(Tables, m)
    BY <1>1, <2>1, XsatKeepsDue
  <2>5. DueSame(m, s)
    BY <2>1, XsatKeepsDue
  <2> QED
    BY <1>2, <2>4, <2>5, DueSameTwice
<1> QED
  BY <1>3, <1>4

\* A stake, of either token, made or taken back.
LEMMA StakingKeepsDue ==
  ASSUME EndorseManageTypeOK, NEW u \in Stakers, NEW v \in Validators, NEW q \in Nat \ {0},
         stake(u, v, q) \/ unstake(u, v, q) \/ stakexsat(u, v, q) \/ unstakexsat(u, v, q)
  PROVE  DueSame(Tables, Tables')
<1>1. Tables \in TablesType
  BY DEF EndorseManageTypeOK
<1>2. PICK s, e : s = Tables' /\ e = -q
  OBVIOUS
<1>3. CASE stake(u, v, q) \/ unstake(u, v, q)
  <2>1. /\ ~IsCredit(u) /\ Tables.validator[v].registered
        /\ StakeChanged(Tables, s, u, v, q) \/ StakeChanged(Tables, s, u, v, e)
    BY <1>2, <1>3, StakeKeeps
  <2> QED
    BY <1>1, <1>2, <2>1, StakeKeepsDue
<1>4. CASE stakexsat(u, v, q) \/ unstakexsat(u, v, q)
  <2>1. /\ Tables.validator[v].registered
        /\ XsatChanged(Tables, s, u, v, q) \/ XsatChanged(Tables, s, u, v, e)
    BY <1>2, <1>4, StakeXsatKeeps
  <2> QED
    BY <1>1, <1>2, <2>1, XsatKeepsDue
<1> QED
  BY <1>3, <1>4

\* A row whose address or sums are replaced.
LEMMA RowKeepsDue ==
  ASSUME EndorseManageTypeOK, NEW v \in Validators,
         \/ \E a \in Addresses : evmsetstaker(v, a)
         \/ \E is_close \in BOOLEAN : updcreditstk(v, is_close)
  PROVE  DueSame(Tables, Tables')
<1>1. Tables \in TablesType
  BY DEF EndorseManageTypeOK
<1>2. PICK s : s = Tables'
  OBVIOUS
<1>3. /\ OneRow(Tables, s, v) /\ Tables.validator[v].registered /\ s.validator[v].registered
      /\ s.validator[v].credit_weight = Tables.validator[v].credit_weight
      /\ s.validator[v].acc_per_share = Tables.validator[v].acc_per_share
      /\ s.validator[v].balance = Tables.validator[v].balance
      /\ s.validator[v].unclaimed = Tables.validator[v].unclaimed
  <2>1. CASE \E a \in Addresses : evmsetstaker(v, a)
    BY <1>2, <2>1, SetStakerRow
  <2>2. CASE \E is_close \in BOOLEAN : updcreditstk(v, is_close)
    BY <1>2, <2>2, UpdCreditRow
  <2> QED
    BY <2>1, <2>2
<1> QED
  BY <1>1, <1>2, <1>3, DueOfRow

\* A claim takes from nobody else.
LEMMA ClaimKeepsOthersDue ==
  ASSUME EndorseManageTypeOK, NEW u \in Stakers, NEW v \in Validators, claim(u, v),
         NEW y \in Stakers, NEW w \in Validators, NEW k \in RewardKinds,
         y # u \/ w # v, Tables.validator[w].registered
  PROVE  DueOf(Tables', y, w, k) >= DueOf(Tables, y, w, k)
<1>1. PICK s : s = Tables'
  OBVIOUS
<1>2. /\ Tables \in TablesType /\ Tables.validator[v].registered /\ Moved(Tables, s, u, v, 0, 0)
      /\ KeepsWeight(Tables.validator[v], s.validator[v])
  BY <1>1, ClaimMoves DEF EndorseManageTypeOK
<1>3. DueOf(s, y, w, k) = DueOf(Tables, y, w, k)
  <2>1. PICK t, q, x : t = Tables /\ q = 0 /\ x = 0
    OBVIOUS
  <2>2. /\ t \in TablesType /\ t.validator[v].registered /\ Moved(t, s, u, v, q, x)
        /\ KeepsWeight(t.validator[v], s.validator[v]) /\ t.validator[w].registered
    BY <1>2, <2>1
  <2>3. DueOf(s, y, w, k) = DueOf(t, y, w, k)
    BY ONLY <2>2, u \in Stakers, v \in Validators, y \in Stakers, w \in Validators, k \in RewardKinds,
            y # u \/ w # v, DueOfOthers
  <2> QED
    BY <2>1, <2>3
<1>4. DueOf(Tables, y, w, k) \in Int
  BY <1>2, DueType
<1> QED
  BY <1>1, <1>3, <1>4

\* The custody changes what the only credit stake of its validator counts for.
LEMMA CustodyKeepsDue ==
  ASSUME EndorseManageTypeOK, CustodyTypeOK, CreditInCustody, OneCustodyPerValidator,
         CustodyNext(Stakers, Validators)
  PROVE  DueSame(Tables, Tables')
<1>1. Tables \in TablesType /\ Tables.staker = staker
  BY DEF EndorseManageTypeOK, Tables
<1>2. CASE UNCHANGED endorseManageVars
  <2>1. Tables' = Tables
    BY <1>2, EndorseManageStays
  <2> QED
    BY <2>1 DEF DueSame
<1>3. ASSUME NEW u \in CreditStakers, delcustody(u) \/ \E enough \in BOOLEAN : handle_staking(u, enough)
      PROVE  DueSame(Tables, Tables')
  <2>1. PICK v \in Validators : v = custody[u].validator /\ HasCustody(u)
    BY <1>3, CustodyCalls
  <2>2. \A y \in CreditStakers : y # u => Tables.staker[y][v].quantity = 0
    BY <1>1, <2>1, AloneWithValidator
  <2>3. ASSUME NEW q \in Nat, creditstake(u, v, q)
        PROVE  DueSame(Tables, Tables')
    <3>1. PICK s, weight : /\ s = Tables' /\ Tables.validator[v].registered /\ u \in Stakers
                           /\ CreditChanged(Tables, s, u, v, q, weight)
      BY <2>3, Inputs, CreditStakeKeeps
    <3> QED
      BY <1>1, <2>2, <3>1, CreditKeepsDue
  <2>4. UNCHANGED endorseManageVars \/ \E q \in Nat : creditstake(u, v, q)
    BY <1>3, <2>1, CustodyCalls
  <2> QED
    BY <1>2, <2>3, <2>4
<1>4. \/ UNCHANGED endorseManageVars
      \/ \E u \in CreditStakers : delcustody(u) \/ \E enough \in BOOLEAN : handle_staking(u, enough)
  BY DEF CustodyNext, addcustody, enroll, verifytx, activate, verifyresult, addround
<1> QED
  BY <1>2, <1>3, <1>4

\* A step is a claim, adds a validator, or leaves everybody what it is due but for
\* the rewards that come in.
LEMMA StepSettles ==
  ASSUME StakingInv, OneCustodyPerValidator, [StakingNext]_allStakingVars
  PROVE  \/ Settles(Tables, Tables')
         \/ \E u \in Stakers, v \in Validators : claim(u, v)
         \/ \E v \in Validators, role \in {0, 1}, a \in Addresses, c \in Commissions :
              newregvldtor(v, role, a, c)
<1>1. /\ EndorseManageTypeOK /\ CustodyTypeOK /\ CreditInCustody /\ Tables \in TablesType
  BY DEF StakingInv, StakingTypeOK, EndorseManageTypeOK
<1>s. DueSame(Tables, Tables') => Settles(Tables, Tables')
  BY <1>1, SettlesOne
<1>2. CASE UNCHANGED endorseManageVars
  <2>1. Tables' = Tables
    BY <1>1, <1>2, EndorseManageStays
  <2> QED
    BY <1>s, <2>1 DEF DueSame
<1>3. CASE CustodyNext(Stakers, Validators)
  BY <1>1, <1>s, <1>3, CustodyKeepsDue
<1>4. CASE DirectNext(Stakers, Validators) \/ ConsensusCalls(Validators, Rewards)
  <2>1. CASE AdminStep(Validators, Rewards)
    BY <1>1, <2>1, AdminFollows, SettlesOne
  <2>2. ASSUME NEW v \in Validators,
               \/ \E a \in Addresses : evmsetstaker(v, a)
               \/ \E is_close \in BOOLEAN : updcreditstk(v, is_close)
        PROVE  Settles(Tables, Tables')
    BY <1>1, <1>s, <2>2, RowKeepsDue
  <2>3. ASSUME NEW v \in Validators, NEW h \in Nat, endorse(v, h)
        PROVE  Settles(Tables, Tables')
    BY <1>1, <2>3, EndorseKeepsDue
  <2>4. ASSUME NEW u \in EvmStakers, NEW v \in Validators, NEW q \in Nat \ {0},
               stake(u, v, q) \/ unstake(u, v, q) \/ stakexsat(u, v, q) \/ unstakexsat(u, v, q)
        PROVE  Settles(Tables, Tables')
    BY <1>1, <1>s, <2>4, StakingKeepsDue, Inputs
  <2>5. ASSUME NEW u \in Stakers, NEW v \in Validators, NEW w \in Validators, NEW q \in Nat \ {0},
               newstake(u, v, w, q) \/ restakexsat(u, v, w, q)
        PROVE  Settles(Tables, Tables')
    BY <1>1, <1>s, <2>5, RestakeKeepsDue
  <2> QED
    BY <1>4, <2>1, <2>2, <2>3, <2>4, <2>5, StepKinds
<1>5. ASSUME NEW s \in Stakers \cap NativeStakers, NEW v \in Validators, NEW t \in AllTokens, NEW q \in Amounts,
             Deposit(s, v, t, q) \/ ReleaseStake(s, v, t, q)
      PROVE  Settles(Tables, Tables')
  <2>1. stake(s, v, q) \/ unstake(s, v, q) \/ stakexsat(s, v, q) \/ unstakexsat(s, v, q)
    BY <1>5 DEF Deposit, ReleaseStake
  <2>2. q \in Nat \ {0}
    BY Inputs
  <2> QED
    BY <1>1, <1>s, <2>1, <2>2, StakingKeepsDue
<1>6. \/ UNCHANGED endorseManageVars
      \/ CustodyNext(Stakers, Validators)
      \/ DirectNext(Stakers, Validators) \/ ConsensusCalls(Validators, Rewards)
      \/ \E s \in Stakers \cap NativeStakers, v \in Validators, t \in AllTokens, q \in Amounts :
           Deposit(s, v, t, q) \/ ReleaseStake(s, v, t, q)
  BY DEF StakingNext, StakingStep, TokenActions, allStakingVars
<1> QED
  BY <1>2, <1>3, <1>4, <1>5, <1>6

\* No step but a claim lowers what anybody is due.
LEMMA StepKeepsDue ==
  ASSUME StakingInv, OneCustodyPerValidator, [StakingNext]_allStakingVars
  PROVE  DueKept(Tables, Tables') \/ \E u \in Stakers, v \in Validators : claim(u, v)
<1>1. EndorseManageTypeOK /\ Tables \in TablesType /\ Tables' \in TablesType
  <2>1. StakingInv'
    BY StepHolds
  <2>2. EndorseManageTypeOK /\ EndorseManageTypeOK'
    BY <2>1 DEF StakingInv, StakingTypeOK
  <2>3. EndorseManageTypeOK' => Tables' \in TablesType
    BY DEF EndorseManageTypeOK, Tables
  <2> QED
    BY <2>2, <2>3 DEF EndorseManageTypeOK
<1>2. CASE Settles(Tables, Tables')
  <2>1. PICK m \in TablesType : RowsFollow(Tables, m) /\ DueSame(m, Tables')
    BY <1>2 DEF Settles
  <2>2. DueKept(Tables, m)
    BY <1>1, <2>1, DueFollows
  <2>3. DueKept(m, Tables')
    BY <2>1, SameIsKept
  <2> QED
    BY <1>1, <2>2, <2>3, DueKeptTwice
<1>3. ASSUME NEW v \in Validators, NEW role \in {0, 1}, NEW a \in Addresses, NEW c \in Commissions,
             newregvldtor(v, role, a, c)
      PROVE  DueKept(Tables, Tables')
  <2>1. ~Tables.validator[v].registered /\ OneRow(Tables, Tables', v)
    BY <1>1, <1>3, NewRow
  <2> QED
    BY <1>1, <2>1, DueOfNewRow
<1> QED
  BY <1>2, <1>3, StepSettles

\* What one step does to the stakes of everybody, as DueIsKept puts it.
LEMMA DueStep ==
  ASSUME StakingInv, OneCustodyPerValidator, [StakingNext]_allStakingVars
  PROVE  \A u \in Stakers, v \in Validators, k \in RewardKinds :
           v \in Registered => Due(u, v, k)' >= Due(u, v, k) \/ claim(u, v)
<1>1. ASSUME NEW u \in Stakers, NEW v \in Validators, NEW k \in RewardKinds
      PROVE  /\ Due(u, v, k) = DueOf(Tables, u, v, k) /\ Due(u, v, k)' = DueOf(Tables', u, v, k)
             /\ v \in Registered <=> Tables.validator[v].registered
  BY DEF Due, Pending, DueOf, Tables, Registered
<1>2. CASE DueKept(Tables, Tables')
  BY <1>1, <1>2 DEF DueKept
<1>3. ASSUME NEW u \in Stakers, NEW v \in Validators, claim(u, v)
      PROVE  \A y \in Stakers, w \in Validators, k \in RewardKinds :
               w \in Registered => Due(y, w, k)' >= Due(y, w, k) \/ claim(y, w)
  <2>1. EndorseManageTypeOK
    BY DEF StakingInv, StakingTypeOK
  <2>2. SUFFICES ASSUME NEW y \in Stakers, NEW w \in Validators, NEW k \in RewardKinds, w \in Registered
                 PROVE  Due(y, w, k)' >= Due(y, w, k) \/ claim(y, w)
    OBVIOUS
  <2>3. CASE y = u /\ w = v
    BY <1>3, <2>3
  <2>4. CASE y # u \/ w # v
    <3>1. DueOf(Tables', y, w, k) >= DueOf(Tables, y, w, k)
      BY <1>1, <1>3, <2>1, <2>2, <2>4, ClaimKeepsOthersDue
    <3> QED
      BY <1>1, <3>1
  <2> QED
    BY <2>3, <2>4
<1> QED
  BY <1>2, <1>3, StepKeepsDue

\* Where a validator has one custody at most, nothing but its own claim lowers
\* what a staker is due: a stake that changes is settled first, a new credit
\* weight settles the stake it counts again, and of the others nothing changes.
THEOREM WhatIsDueIsKept == StakingSpec /\ []OneCustodyPerValidator => DueIsKept
<1>1. StakingInv /\ OneCustodyPerValidator /\ [StakingNext]_allStakingVars
        => [\A u \in Stakers, v \in Validators, k \in RewardKinds :
              v \in Registered => Due(u, v, k)' >= Due(u, v, k) \/ claim(u, v)]_endorseManageVars
  BY DueStep
<1> QED
  BY <1>1, StakingInvariant, PTL DEF StakingSpec, DueIsKept

-----------------------------------------------------------------------------
(* The sums of the stakes. *)

\* What the stakers' rows say of a validator, and what the rows of the
\* registered validators say.
Counts(t, v) == [u \in Stakers |-> Counted(t, u, v)]
XsatsOf(t, v) == [u \in Stakers |-> t.staker[u][v].xsat_quantity]
RegisteredIn(t) == {v \in Validators : t.validator[v].registered}
RowQuantities(t) == [v \in RegisteredIn(t) |-> t.validator[v].quantity]
RowXsats(t) == [v \in RegisteredIn(t) |-> t.validator[v].xsat_quantity]

\* StakesAddUp, in any tables.
AddUp(t) ==
  /\ \A v \in RegisteredIn(t) :
       /\ t.validator[v].quantity = Total(Counts(t, v))
       /\ t.validator[v].xsat_quantity = Total(XsatsOf(t, v))
  /\ t.stat.total_staking = Total(RowQuantities(t))
  /\ t.stat.xsat_total_staking = Total(RowXsats(t))

\* StakesAddUp is about the tables of the state.
LEMMA AddUpOfTables ==
  StakesAddUp <=> AddUp(Tables)
BY DEF StakesAddUp, AddUp, Counts, XsatsOf, RegisteredIn, RowQuantities, RowXsats, Registered, Tables

\* The numbers that are added.
LEMMA SummandTypes ==
  ASSUME NEW t \in TablesType
  PROVE  /\ IsFiniteSet(RegisteredIn(t)) /\ RegisteredIn(t) \subseteq Validators
         /\ DOMAIN RowQuantities(t) = RegisteredIn(t) /\ DOMAIN RowXsats(t) = RegisteredIn(t)
         /\ \A v \in RegisteredIn(t) :
              /\ t.validator[v] \in ValidatorRow
              /\ RowQuantities(t)[v] = t.validator[v].quantity /\ RowQuantities(t)[v] \in Int
              /\ RowXsats(t)[v] = t.validator[v].xsat_quantity /\ RowXsats(t)[v] \in Int
              /\ \A u \in Stakers : Counts(t, v)[u] \in Nat
         /\ \A v \in Validators, u \in Stakers :
              /\ Counts(t, v)[u] = Counted(t, u, v)
              /\ XsatsOf(t, v)[u] = t.staker[u][v].xsat_quantity /\ XsatsOf(t, v)[u] \in Nat
         /\ \A v \in Validators : DOMAIN Counts(t, v) = Stakers /\ DOMAIN XsatsOf(t, v) = Stakers
<1>1. RegisteredIn(t) \subseteq Validators /\ IsFiniteSet(RegisteredIn(t))
  BY StakersFinite, FS_Subset DEF RegisteredIn
<1>2. \A v \in RegisteredIn(t) : t.validator[v] \in ValidatorRow
  BY RowOfRegistered DEF RegisteredIn
<1>3. \A v \in RegisteredIn(t) : t.validator[v].quantity \in Int /\ t.validator[v].xsat_quantity \in Int
  <2>1. \A r \in ValidatorRow : r.quantity \in Int /\ r.xsat_quantity \in Int
    BY DEF ValidatorRow
  <2> QED
    BY <1>2, <2>1
<1>4. \A v \in RegisteredIn(t), u \in Stakers : Counted(t, u, v) \in Nat
  BY <1>1, <1>2, CountedType
<1>5. \A v \in Validators, u \in Stakers : t.staker[u][v].xsat_quantity \in Nat
  BY TablesParts DEF StakeRow
<1> QED
  BY <1>1, <1>2, <1>3, <1>4, <1>5 DEF RowQuantities, RowXsats, Counts, XsatsOf

\* A stake that moves moves all the sums it is part of.
LEMMA AddUpMoves ==
  ASSUME NEW t \in TablesType, AddUp(t), NEW s, NEW u \in Stakers, NEW v \in Validators,
         NEW q \in Int, NEW x \in Int, t.validator[v].registered, Moved(t, s, u, v, q, x),
         \/ KeepsWeight(t.validator[v], s.validator[v])
         \/ \A y \in CreditStakers : y # u => t.staker[y][v].quantity = 0,
         Counted(s, u, v) = Counted(t, u, v) + q,
         s.staker[u][v].xsat_quantity = t.staker[u][v].xsat_quantity + x
  PROVE  AddUp(s)
<1>1. /\ s \in TablesType /\ s.validator[v].registered
      /\ \A w \in Validators : w # v => s.validator[w] = t.validator[w]
      /\ \A y \in Stakers, w \in Validators : y # u \/ w # v => s.staker[y][w] = t.staker[y][w]
      /\ s.validator[v].quantity = t.validator[v].quantity + q
      /\ s.validator[v].xsat_quantity = t.validator[v].xsat_quantity + x
      /\ s.stat.total_staking = t.stat.total_staking + q
      /\ s.stat.xsat_total_staking = t.stat.xsat_total_staking + x
  BY DEF Moved, KeepsRow
<1>2. RegisteredIn(s) = RegisteredIn(t) /\ v \in RegisteredIn(t)
  BY <1>1 DEF RegisteredIn
<1>3. \A y \in Stakers, w \in RegisteredIn(t) : y # u \/ w # v => Counted(s, y, w) = Counted(t, y, w)
  <2>1. SUFFICES ASSUME NEW y \in Stakers, NEW w \in RegisteredIn(t), y # u \/ w # v
                 PROVE  Counted(s, y, w) = Counted(t, y, w)
    OBVIOUS
  <2>2. w \in Validators /\ t.validator[w].registered
    BY DEF RegisteredIn
  <2>3. CASE KeepsWeight(t.validator[v], s.validator[v])
    BY ONLY <2>1, <2>2, <2>3, t \in TablesType, u \in Stakers, v \in Validators, t.validator[v].registered,
            Moved(t, s, u, v, q, x), DueOfOthers
  <2>4. CASE \A z \in CreditStakers : z # u => t.staker[z][v].quantity = 0
    BY ONLY <2>1, <2>2, <2>4, t \in TablesType, u \in Stakers, v \in Validators, t.validator[v].registered,
            Moved(t, s, u, v, q, x), DueOfOthers
  <2> QED
    BY <2>3, <2>4
<1>4. IsFiniteSet(Stakers)
  BY StakersFinite
<1>5. ASSUME NEW w \in RegisteredIn(t), w # v
      PROVE  /\ s.validator[w].quantity = Total(Counts(s, w))
             /\ s.validator[w].xsat_quantity = Total(XsatsOf(s, w))
  <2>1. w \in Validators /\ s.validator[w] = t.validator[w]
    BY <1>1, <1>5 DEF RegisteredIn
  <2>2. Counts(s, w) = Counts(t, w) /\ XsatsOf(s, w) = XsatsOf(t, w)
    BY <1>1, <1>3, <1>5, <2>1 DEF Counts, XsatsOf
  <2> QED
    BY <2>1, <2>2 DEF AddUp
<1>6. s.validator[v].quantity = Total(Counts(s, v))
  <2>1. PICK f, g, S : f = Counts(t, v) /\ g = Counts(s, v) /\ S = Stakers
    OBVIOUS
  <2>2. /\ IsFiniteSet(S) /\ DOMAIN f = S /\ DOMAIN g = S /\ u \in S /\ \A y \in S : f[y] \in Int
        /\ g[u] = f[u] + q /\ \A y \in S \ {u} : g[y] = f[y]
    BY <1>1, <1>2, <1>3, <1>4, <2>1, SummandTypes
  <2>3. Total(g) = Total(f) + q
    BY ONLY <2>2, q \in Int, TotalMoves
  <2> QED
    BY <1>1, <1>2, <2>1, <2>3 DEF AddUp
<1>7. s.validator[v].xsat_quantity = Total(XsatsOf(s, v))
  <2>1. PICK f, g, S : f = XsatsOf(t, v) /\ g = XsatsOf(s, v) /\ S = Stakers
    OBVIOUS
  <2>2. /\ IsFiniteSet(S) /\ DOMAIN f = S /\ DOMAIN g = S /\ u \in S /\ \A y \in S : f[y] \in Int
        /\ g[u] = f[u] + x /\ \A y \in S \ {u} : g[y] = f[y]
    <3>1. DOMAIN f = S /\ DOMAIN g = S /\ \A y \in S : f[y] \in Int
      BY <1>1, <2>1, SummandTypes
    <3>2. \A y \in S : f[y] = t.staker[y][v].xsat_quantity /\ g[y] = s.staker[y][v].xsat_quantity
      BY <2>1 DEF XsatsOf
    <3> QED
      BY <1>1, <1>4, <2>1, <3>1, <3>2
  <2>3. Total(g) = Total(f) + x
    BY ONLY <2>2, x \in Int, TotalMoves
  <2> QED
    BY <1>1, <1>2, <2>1, <2>3 DEF AddUp
<1>8. s.stat.total_staking = Total(RowQuantities(s))
  <2>1. PICK f, g, S : f = RowQuantities(t) /\ g = RowQuantities(s) /\ S = RegisteredIn(t)
    OBVIOUS
  <2>2. /\ IsFiniteSet(S) /\ DOMAIN f = S /\ DOMAIN g = S /\ v \in S /\ \A y \in S : f[y] \in Int
        /\ g[v] = f[v] + q /\ \A y \in S \ {v} : g[y] = f[y]
    <3>1. IsFiniteSet(S) /\ DOMAIN f = S /\ DOMAIN g = S /\ v \in S /\ \A y \in S : f[y] \in Int
      BY <1>1, <1>2, <2>1, SummandTypes
    <3>2. \A y \in S : f[y] = t.validator[y].quantity /\ g[y] = s.validator[y].quantity /\ y \in Validators
      BY <1>1, <1>2, <2>1, SummandTypes
    <3> QED
      BY <1>1, <3>1, <3>2
  <2>3. Total(g) = Total(f) + q
    BY ONLY <2>2, q \in Int, TotalMoves
  <2> QED
    BY <1>1, <2>1, <2>3 DEF AddUp
<1>9. s.stat.xsat_total_staking = Total(RowXsats(s))
  <2>1. PICK f, g, S : f = RowXsats(t) /\ g = RowXsats(s) /\ S = RegisteredIn(t)
    OBVIOUS
  <2>2. /\ IsFiniteSet(S) /\ DOMAIN f = S /\ DOMAIN g = S /\ v \in S /\ \A y \in S : f[y] \in Int
        /\ g[v] = f[v] + x /\ \A y \in S \ {v} : g[y] = f[y]
    <3>1. IsFiniteSet(S) /\ DOMAIN f = S /\ DOMAIN g = S /\ v \in S /\ \A y \in S : f[y] \in Int
      BY <1>1, <1>2, <2>1, SummandTypes
    <3>2. \A y \in S : f[y] = t.validator[y].xsat_quantity /\ g[y] = s.validator[y].xsat_quantity /\ y \in Validators
      BY <1>1, <1>2, <2>1, SummandTypes
    <3> QED
      BY <1>1, <3>1, <3>2
  <2>3. Total(g) = Total(f) + x
    BY ONLY <2>2, x \in Int, TotalMoves
  <2> QED
    BY <1>1, <2>1, <2>3 DEF AddUp
<1>10. \A w \in RegisteredIn(s) : /\ s.validator[w].quantity = Total(Counts(s, w))
                                  /\ s.validator[w].xsat_quantity = Total(XsatsOf(s, w))
  BY <1>2, <1>5, <1>6, <1>7
<1> QED
  BY <1>8, <1>9, <1>10 DEF AddUp

\* Rows that follow keep the sums.
LEMMA AddUpFollows ==
  ASSUME NEW t \in TablesType, AddUp(t), NEW s, RowsFollow(t, s)
  PROVE  AddUp(s)
<1>1. s.staker = t.staker /\ s.stat = t.stat /\ \A w \in Validators : Follows(t.validator[w], s.validator[w])
  BY DEF RowsFollow
<1>2. RegisteredIn(s) = RegisteredIn(t) /\ RegisteredIn(t) \subseteq Validators
  BY <1>1 DEF RegisteredIn, Follows
<1>3. \A w \in RegisteredIn(t) :
        /\ s.validator[w].quantity = t.validator[w].quantity
        /\ s.validator[w].xsat_quantity = t.validator[w].xsat_quantity
        /\ s.validator[w].credit_weight = t.validator[w].credit_weight
  BY <1>1 DEF RegisteredIn, Follows
<1>4. \A w \in RegisteredIn(t), u \in Stakers : Counted(s, u, w) = Counted(t, u, w)
  BY <1>1, <1>2, <1>3, CountedSame
<1>5. \A w \in RegisteredIn(t) : Counts(s, w) = Counts(t, w) /\ XsatsOf(s, w) = XsatsOf(t, w)
  BY <1>1, <1>4 DEF Counts, XsatsOf
<1>6. RowQuantities(s) = RowQuantities(t) /\ RowXsats(s) = RowXsats(t)
  BY <1>2, <1>3 DEF RowQuantities, RowXsats
<1> QED
  BY <1>1, <1>2, <1>3, <1>5, <1>6 DEF AddUp

\* A new row has no stakes.
LEMMA AddUpNewRow ==
  ASSUME NEW t \in TablesType, AddUp(t), NoStrayStake(t), NEW v \in Validators, NEW s,
         ~t.validator[v].registered, OneRow(t, s, v), s.validator[v] \in ValidatorRow,
         s.validator[v].quantity = 0, s.validator[v].xsat_quantity = 0
  PROVE  AddUp(s)
<1>1. /\ s \in TablesType /\ s.staker = t.staker /\ s.stat = t.stat
      /\ \A w \in Validators : w # v => s.validator[w] = t.validator[w]
      /\ s.validator[v].registered
  BY RowOfRegistered DEF OneRow
<1>2. RegisteredIn(s) = RegisteredIn(t) \cup {v} /\ v \notin RegisteredIn(t)
  BY <1>1 DEF RegisteredIn
<1>3. \A u \in Stakers : s.staker[u][v].quantity = 0 /\ s.staker[u][v].xsat_quantity = 0
  BY <1>1 DEF NoStrayStake
<1>4. Total(Counts(s, v)) = 0 /\ Total(XsatsOf(s, v)) = 0
  <2>1. \A u \in Stakers : Counted(s, u, v) = 0
    BY <1>1, <1>3, NothingCounts
  <2> QED
    BY <1>3, <2>1, StakersFinite, TotalZero DEF Counts, XsatsOf
<1>5. \A w \in RegisteredIn(t) :
        /\ s.validator[w].quantity = Total(Counts(s, w))
        /\ s.validator[w].xsat_quantity = Total(XsatsOf(s, w))
  <2>1. SUFFICES ASSUME NEW w \in RegisteredIn(t)
                 PROVE  /\ s.validator[w].quantity = Total(Counts(s, w))
                        /\ s.validator[w].xsat_quantity = Total(XsatsOf(s, w))
    OBVIOUS
  <2>2. w \in Validators /\ s.validator[w] = t.validator[w]
    BY <1>1, <1>2 DEF RegisteredIn
  <2>3. \A u \in Stakers : Counted(s, u, w) = Counted(t, u, w)
    BY <1>1, <2>2, CountedSame
  <2>4. Counts(s, w) = Counts(t, w) /\ XsatsOf(s, w) = XsatsOf(t, w)
    BY <1>1, <2>3 DEF Counts, XsatsOf
  <2> QED
    BY <2>2, <2>4 DEF AddUp
<1>6. ASSUME NEW f, NEW g, NEW T, T = RegisteredIn(t), DOMAIN f = T, DOMAIN g = T \cup {v},
             \A w \in T : f[w] \in Int /\ g[w] = f[w], g[v] = 0
      PROVE  Total(g) = Total(f)
  <2>1. IsFiniteSet(T) /\ v \notin T /\ \A w \in T \cup {v} : g[w] \in Int
    BY <1>2, <1>6, SummandTypes
  <2>2. SumFunctionOnSet(g, T \cup {v}) = SumFunctionOnSet(g, T) + g[v] /\ SumFunctionOnSet(g, T) \in Int
    BY ONLY <2>1, SumInsert
  <2>3. SumFunctionOnSet(g, T) = SumFunctionOnSet(f, T)
    BY <1>6, <2>1, SumEqual
  <2> QED
    BY <1>6, <2>2, <2>3 DEF Total, SumFunction
<1>7. \A w \in RegisteredIn(t) : s.validator[w] = t.validator[w] /\ w \in RegisteredIn(s)
  BY <1>1, <1>2 DEF RegisteredIn
<1>8. Total(RowQuantities(s)) = Total(RowQuantities(t))
  <2>1. PICK f, g, T : f = RowQuantities(t) /\ g = RowQuantities(s) /\ T = RegisteredIn(t)
    OBVIOUS
  <2>2. DOMAIN f = T /\ DOMAIN g = T \cup {v} /\ g[v] = 0 /\ \A w \in T : f[w] \in Int /\ g[w] = f[w]
    <3>1. DOMAIN f = T /\ DOMAIN g = T \cup {v} /\ \A w \in T : f[w] \in Int
      BY <1>1, <1>2, <2>1, SummandTypes
    <3>2. \A w \in T : f[w] = t.validator[w].quantity
      BY <2>1 DEF RowQuantities
    <3>3. \A w \in T \cup {v} : g[w] = s.validator[w].quantity
      BY <1>2, <2>1 DEF RowQuantities
    <3> QED
      BY <1>7, <2>1, <3>1, <3>2, <3>3
  <2> QED
    BY <1>6, <2>1, <2>2
<1>9. Total(RowXsats(s)) = Total(RowXsats(t))
  <2>1. PICK f, g, T : f = RowXsats(t) /\ g = RowXsats(s) /\ T = RegisteredIn(t)
    OBVIOUS
  <2>2. DOMAIN f = T /\ DOMAIN g = T \cup {v} /\ g[v] = 0 /\ \A w \in T : f[w] \in Int /\ g[w] = f[w]
    <3>1. DOMAIN f = T /\ DOMAIN g = T \cup {v} /\ \A w \in T : f[w] \in Int
      BY <1>1, <1>2, <2>1, SummandTypes
    <3>2. \A w \in T : f[w] = t.validator[w].xsat_quantity
      BY <2>1 DEF RowXsats
    <3>3. \A w \in T \cup {v} : g[w] = s.validator[w].xsat_quantity
      BY <1>2, <2>1 DEF RowXsats
    <3> QED
      BY <1>7, <2>1, <3>1, <3>2, <3>3
  <2> QED
    BY <1>6, <2>1, <2>2
<1> QED
  BY <1>1, <1>2, <1>4, <1>5, <1>8, <1>9 DEF AddUp

\* A row that keeps its amounts, its share and its weight.
LEMMA SameRowFollows ==
  ASSUME EndorseManageTypeOK, EndorseManageTypeOK', NEW v \in Validators, OneRow(Tables, Tables', v),
         Tables.validator[v].registered, Tables'.validator[v].registered,
         Tables'.validator[v].quantity = Tables.validator[v].quantity,
         Tables'.validator[v].xsat_quantity = Tables.validator[v].xsat_quantity,
         Tables'.validator[v].credit_weight = Tables.validator[v].credit_weight,
         Tables'.validator[v].acc_per_share = Tables.validator[v].acc_per_share,
         Tables'.validator[v].balance = Tables.validator[v].balance,
         Tables'.validator[v].unclaimed = Tables.validator[v].unclaimed
  PROVE  RowsFollow(Tables, Tables')
<1>1. PICK t, s : t = Tables /\ s = Tables'
  OBVIOUS
<1>2. /\ t \in TablesType /\ s \in TablesType /\ s.staker = t.staker /\ s.stat = t.stat
      /\ \A w \in Validators : w # v => s.validator[w] = t.validator[w]
  BY <1>1 DEF OneRow, EndorseManageTypeOK
<1>3. \A k \in RewardKinds : t.validator[v].acc_per_share[k] \in Nat
  <2>1. t.validator[v] \in ValidatorRow
    BY <1>1, <1>2, RowOfRegistered
  <2> QED
    BY <2>1 DEF ValidatorRow, RewardType
<1>4. \A k \in RewardKinds : s.validator[v].acc_per_share[k] >= t.validator[v].acc_per_share[k]
  <2>1. \A n \in Nat : n >= n
    OBVIOUS
  <2> QED
    BY <1>1, <1>3, <2>1
<1>5. Follows(t.validator[v], s.validator[v])
  <2>1. t.validator[v] \in ValidatorRow
    BY <1>1, <1>2, RowOfRegistered
  <2>2. Funded(t.validator[v], s.validator[v])
    <3>1. \A k \in RewardKinds : Left(s.validator[v], k) = Left(t.validator[v], k)
      BY <1>1 DEF Left
    <3> QED
      BY <1>1, <2>1, <3>1, FundsStay
  <2> QED
    BY <1>1, <1>4, <2>2 DEF Follows
<1>6. \A w \in Validators : Follows(t.validator[w], s.validator[w])
  BY <1>2, <1>5, FollowsSelf
<1> QED
  BY <1>1, <1>2, <1>6 DEF RowsFollow

\* A row that is added, or whose sums are replaced by what they are: no deposit
\* is found for a validator of XSAT without stakes, and the EVM stakes of a
\* validator without native stakes are all it has.
LEMMA RowAddsUp ==
  ASSUME EndorseManageTypeOK, AddUp(Tables), NEW v \in Validators,
         \/ \E role \in {0, 1}, a \in Addresses, c \in Commissions : newregvldtor(v, role, a, c)
         \/ \E a \in Addresses : evmsetstaker(v, a)
         \/ /\ \E is_close \in BOOLEAN : updcreditstk(v, is_close)
            /\ \A u \in NativeStakers : staker[u][v].quantity = 0
  PROVE  AddUp(Tables')
<1>1. Tables \in TablesType /\ NoStrayStake(Tables) /\ Tables.staker = staker /\ Tables.validator = validator
  BY DEF EndorseManageTypeOK, Tables
<1>2. ASSUME Tables.validator[v].registered
      PROVE  /\ v \in RegisteredIn(Tables) /\ Tables.validator[v] \in ValidatorRow
             /\ Tables.validator[v].quantity = Total(Counts(Tables, v))
             /\ Tables.validator[v].xsat_quantity = Total(XsatsOf(Tables, v))
  BY <1>1, <1>2, RowOfRegistered DEF AddUp, RegisteredIn
<1>3. CASE \E role \in {0, 1}, a \in Addresses, c \in Commissions : newregvldtor(v, role, a, c)
  <2>1. PICK s : /\ s = Tables' /\ ~Tables.validator[v].registered /\ OneRow(Tables, s, v)
                 /\ s.validator[v] \in ValidatorRow
                 /\ s.validator[v].quantity = 0 /\ s.validator[v].xsat_quantity = 0
    BY <1>3, NewRow
  <2> QED
    BY <1>1, <2>1, AddUpNewRow
<1>4. ASSUME NEW a \in Addresses, evmsetstaker(v, a)
      PROVE  RowsFollow(Tables, Tables')
  <2>1. /\ OneRow(Tables, Tables', v) /\ Tables.validator[v].registered /\ Tables'.validator[v].registered
        /\ Tables'.validator[v].quantity = Tables.validator[v].quantity
        /\ Tables'.validator[v].credit_weight = Tables.validator[v].credit_weight
        /\ Tables'.validator[v].acc_per_share = Tables.validator[v].acc_per_share
        /\ Tables'.validator[v].balance = Tables.validator[v].balance
        /\ Tables'.validator[v].unclaimed = Tables.validator[v].unclaimed
        /\ \/ Tables'.validator[v].xsat_quantity = Tables.validator[v].xsat_quantity
           \/ /\ Tables.validator[v].role = 1 /\ Tables.validator[v].xsat_quantity = 0
              /\ Tables'.validator[v].xsat_quantity = get_qualification(v, a)
        /\ EndorseManageTypeOK'
    BY <1>4, SetStakerRow
  <2>2. ASSUME Tables.validator[v].xsat_quantity = 0, Tables.validator[v].role = 1
        PROVE  get_qualification(v, a) = 0
    <3>1. PICK f : f = XsatsOf(Tables, v)
      OBVIOUS
    <3>2. Total(f) = 0 /\ DOMAIN f = Stakers /\ \A u \in Stakers : f[u] = staker[u][v].xsat_quantity /\ f[u] \in Nat
      BY <1>1, <1>2, <2>1, <2>2, <3>1, SummandTypes
    <3>3. \A u \in Stakers : f[u] <= 0
      BY <3>2, StakersFinite, TotalType
    <3>4. \A u \in Stakers : staker[u][v].xsat_quantity = 0
      BY <3>2, <3>3
    <3> QED
      BY <1>1, <2>2, <3>4, QualificationType
  <2>3. Tables'.validator[v].xsat_quantity = Tables.validator[v].xsat_quantity
    BY <2>1, <2>2
  <2> QED
    BY <2>1, <2>3, SameRowFollows
<1>5. ASSUME NEW is_close \in BOOLEAN, updcreditstk(v, is_close), \A u \in NativeStakers : staker[u][v].quantity = 0
      PROVE  RowsFollow(Tables, Tables')
  <2>1. /\ OneRow(Tables, Tables', v) /\ Tables.validator[v].registered /\ Tables'.validator[v].registered
        /\ Tables'.validator[v].xsat_quantity = Tables.validator[v].xsat_quantity
        /\ Tables'.validator[v].credit_weight = Tables.validator[v].credit_weight
        /\ Tables'.validator[v].acc_per_share = Tables.validator[v].acc_per_share
        /\ Tables'.validator[v].balance = Tables.validator[v].balance
        /\ Tables'.validator[v].unclaimed = Tables.validator[v].unclaimed
        /\ Tables'.validator[v].quantity = Total([u \in EvmStakers |-> Counted(Tables, u, v)])
        /\ EndorseManageTypeOK'
    BY <1>5, UpdCreditRow
  <2>2. PICK f, g : f = Counts(Tables, v) /\ g = [u \in EvmStakers |-> Counted(Tables, u, v)]
    OBVIOUS
  <2>3. /\ DOMAIN f = NativeStakers \cup EvmStakers
        /\ \A u \in NativeStakers \cup EvmStakers : f[u] = Counted(Tables, u, v) /\ f[u] \in Int
    <3>1. v \in RegisteredIn(Tables)
      BY <1>2, <2>1
    <3>2. DOMAIN f = Stakers /\ \A u \in Stakers : f[u] = Counted(Tables, u, v) /\ f[u] \in Nat
      BY <1>1, <2>2, <3>1, SummandTypes
    <3>3. \A u \in Stakers : f[u] \in Int
      BY <3>2
    <3> QED
      BY <3>2, <3>3 DEF Stakers
  <2>4. \A u \in NativeStakers : f[u] = 0
    BY <1>1, <1>5, <2>1, <2>3, NothingCounts DEF Stakers
  <2>5. IsFiniteSet(NativeStakers) /\ IsFiniteSet(EvmStakers) /\ NativeStakers \cap EvmStakers = {}
    BY EndorseManageAssumption
  <2>6. SumFunctionOnSet(f, NativeStakers \cup EvmStakers)
          = SumFunctionOnSet(f, NativeStakers) + SumFunctionOnSet(f, EvmStakers)
    BY <2>3, <2>5, SumUnion
  <2>7. SumFunctionOnSet(f, NativeStakers) = 0
    <3>1. SumFunctionOnSet(f, NativeStakers) = 0 * Cardinality(NativeStakers)
      BY <2>4, <2>5, SumConstant
    <3> QED
      BY <2>5, <3>1, FS_CardinalityType
  <2>8. SumFunctionOnSet(g, EvmStakers) = SumFunctionOnSet(f, EvmStakers) /\ SumFunctionOnSet(f, EvmStakers) \in Int
    <3>1. \A u \in EvmStakers : f[u] \in Int /\ g[u] = f[u]
      BY <2>2, <2>3
    <3> QED
      BY <2>5, <3>1, SumEqual, SumType
  <2>9. DOMAIN g = EvmStakers
    BY <2>2
  <2>10. Total(g) = Total(f)
    BY <2>3, <2>6, <2>7, <2>8, <2>9 DEF Total, SumFunction
  <2>11. Tables'.validator[v].quantity = Tables.validator[v].quantity
    BY <1>2, <2>1, <2>2, <2>10
  <2> QED
    BY <2>1, <2>11, SameRowFollows
<1> QED
  BY <1>1, <1>3, <1>4, <1>5, AddUpFollows

\* A stake that is made or taken back, of BTC, of XSAT or of the custody.
LEMMA StakeAddsUp ==
  ASSUME NEW t \in TablesType, AddUp(t), NEW s, NEW u \in Stakers, ~IsCredit(u), NEW v \in Validators,
         NEW q \in Int, t.validator[v].registered, StakeChanged(t, s, u, v, q)
  PROVE  AddUp(s) /\ s \in TablesType
<1>1. Counted(t, u, v) \in Nat /\ t.staker[u][v] \in StakeRow
  BY RowOfRegistered, CountedType, TablesParts
<1>2. /\ s \in TablesType /\ Moved(t, s, u, v, q, 0) /\ KeepsWeight(t.validator[v], s.validator[v])
      /\ Counted(s, u, v) = Counted(t, u, v) + q
      /\ s.staker[u][v].xsat_quantity = t.staker[u][v].xsat_quantity + 0
  <2>1. t.staker[u][v].xsat_quantity \in Nat
    BY <1>1 DEF StakeRow
  <2> QED
    BY <2>1 DEF StakeChanged, Moved, Counted
<1>3. 0 \in Int
  OBVIOUS
<1> QED
  BY <1>2, <1>3, AddUpMoves

\* A stake of XSAT moves the sums of XSAT.
LEMMA XsatAddsUp ==
  ASSUME NEW t \in TablesType, AddUp(t), NEW s, NEW u \in Stakers, NEW v \in Validators,
         NEW q \in Int, t.validator[v].registered, XsatChanged(t, s, u, v, q)
  PROVE  AddUp(s) /\ s \in TablesType
<1>1. Counted(t, u, v) \in Nat
  BY RowOfRegistered, CountedType
<1>2. /\ s \in TablesType /\ Moved(t, s, u, v, 0, q) /\ KeepsWeight(t.validator[v], s.validator[v])
      /\ s.staker[u][v].quantity = t.staker[u][v].quantity
      /\ s.staker[u][v].xsat_quantity = t.staker[u][v].xsat_quantity + q
  BY DEF XsatChanged, Moved
<1>3. Counted(s, u, v) = Counted(t, u, v)
  BY <1>2, CountedSame DEF KeepsWeight
<1>4. Counted(s, u, v) = Counted(t, u, v) + 0 /\ 0 \in Int
  BY <1>1, <1>3
<1> QED
  BY <1>2, <1>4, AddUpMoves

\* A credit stake moves the sum by what it counts for more or less.
LEMMA CreditAddsUp ==
  ASSUME NEW t \in TablesType, AddUp(t), NEW s, NEW u \in Stakers, NEW v \in Validators,
         NEW quantity \in Nat, NEW weight \in Nat,
         t.validator[v].registered, CreditChanged(t, s, u, v, quantity, weight),
         \A y \in CreditStakers : y # u => t.staker[y][v].quantity = 0
  PROVE  AddUp(s) /\ s \in TablesType
<1>1. PICK c, n, q : c = Counted(t, u, v) /\ n = Weighted(quantity, weight) /\ q = n - c
  OBVIOUS
<1>2. c \in Nat /\ n \in Nat /\ t.staker[u][v].xsat_quantity \in Nat
  <2>1. c \in Nat
    BY <1>1, RowOfRegistered, CountedType
  <2>2. n \in Nat
    BY <1>1, WeightedType
  <2>3. t.staker[u][v].xsat_quantity \in Nat
    BY TablesParts DEF StakeRow
  <2> QED
    BY <2>1, <2>2, <2>3
<1>3. q \in Int /\ 0 \in Int /\ n = c + q
  BY <1>1, <1>2
<1>4. /\ s \in TablesType /\ Moved(t, s, u, v, q, 0)
      /\ Counted(s, u, v) = n
      /\ s.staker[u][v].xsat_quantity = t.staker[u][v].xsat_quantity
  BY <1>1 DEF CreditChanged, Moved
<1>5. Counted(s, u, v) = Counted(t, u, v) + q /\ s.staker[u][v].xsat_quantity = t.staker[u][v].xsat_quantity + 0
  BY <1>1, <1>2, <1>3, <1>4
<1> QED
  BY <1>3, <1>4, <1>5, AddUpMoves

\* An endorsement that counts a credit stake again.
LEMMA EndorseAddsUp ==
  ASSUME EndorseManageTypeOK, CreditInCustody, OneCustodyPerValidator, AddUp(Tables),
         NEW v \in Validators, NEW h \in Nat, endorse(v, h)
  PROVE  AddUp(Tables')
<1>1. PICK m : /\ RowsFollow(Tables, m) /\ m.validator[v].registered
               /\ \/ Tables' = m
                  \/ \E u \in EvmStakers :
                       /\ IsCredit(u) /\ m.staker[u][v].quantity # 0
                       /\ CreditChanged(m, Tables', u, v, m.staker[u][v].quantity, get_credit_weight(h))
  BY EndorseMoves
<1>2. Tables \in TablesType /\ Tables.staker = staker
  BY DEF EndorseManageTypeOK, Tables
<1>3. AddUp(m) /\ m \in TablesType /\ m.staker = staker
  BY <1>1, <1>2, AddUpFollows DEF RowsFollow
<1>4. CASE Tables' = m
  BY <1>3, <1>4
<1>5. ASSUME NEW u \in EvmStakers, IsCredit(u), m.staker[u][v].quantity # 0,
             CreditChanged(m, Tables', u, v, m.staker[u][v].quantity, get_credit_weight(h))
      PROVE  AddUp(Tables')
  <2>1. u \in CreditStakers /\ u \in Stakers
    BY <1>5, Inputs DEF CreditStakers
  <2>2. \A y \in CreditStakers : y # u => m.staker[y][v].quantity = 0
    BY <1>3, <1>5, <2>1, CreditIsInCustody, AloneWithValidator
  <2>3. PICK s, quantity, weight : /\ s = Tables' /\ CreditChanged(m, s, u, v, quantity, weight)
                                   /\ quantity = m.staker[u][v].quantity /\ weight = get_credit_weight(h)
    BY <1>5
  <2>4. quantity \in Nat
    BY <1>3, <2>1, <2>3, TablesParts DEF StakeRow
  <2>5. weight \in Nat
    BY <2>3, WeightOfHeight, EndorseManageAssumption DEF EndorseManageTypeOK
  <2> QED
    BY <1>1, <1>3, <2>1, <2>2, <2>3, <2>4, <2>5, CreditAddsUp
<1> QED
  BY <1>1, <1>4, <1>5

\* A stake that moves from a validator to another.
LEMMA RestakeAddsUp ==
  ASSUME EndorseManageTypeOK, AddUp(Tables), NEW u \in Stakers, NEW v \in Validators, NEW w \in Validators,
         NEW q \in Nat \ {0}, newstake(u, v, w, q) \/ restakexsat(u, v, w, q)
  PROVE  AddUp(Tables')
<1>1. Tables \in TablesType
  BY DEF EndorseManageTypeOK
<1>2. PICK s, e : s = Tables' /\ e = -q
  OBVIOUS
<1>3. q \in Int /\ e \in Int
  BY <1>2
<1>4. CASE newstake(u, v, w, q)
  <2>1. PICK m \in TablesType :
          /\ Tables.validator[v].registered /\ StakeChanged(Tables, m, u, v, e)
          /\ m.validator[w].registered /\ StakeChanged(m, s, u, w, q)
    BY <1>2, <1>4, RestakeKeeps
  <2>2. ~IsCredit(u)
    BY <1>4, RestakeKeeps
  <2>3. AddUp(m)
    BY <1>1, <1>3, <2>1, <2>2, StakeAddsUp
  <2> QED
    BY <1>2, <1>3, <2>1, <2>2, <2>3, StakeAddsUp
<1>5. CASE restakexsat(u, v, w, q)
  <2>1. PICK m \in TablesType :
          /\ Tables.validator[v].registered /\ XsatChanged(Tables, m, u, v, e)
          /\ m.validator[w].registered /\ XsatChanged(m, s, u, w, q)
    BY <1>2, <1>5, RestakeXsatKeeps
  <2>2. AddUp(m)
    BY <1>1, <1>3, <2>1, XsatAddsUp
  <2> QED
    BY <1>2, <1>3, <2>1, <2>2, XsatAddsUp
<1> QED
  BY <1>4, <1>5

\* A stake, of either token, made or taken back.
LEMMA StakingAddsUp ==
  ASSUME EndorseManageTypeOK, AddUp(Tables), NEW u \in Stakers, NEW v \in Validators, NEW q \in Nat \ {0},
         stake(u, v, q) \/ unstake(u, v, q) \/ stakexsat(u, v, q) \/ unstakexsat(u, v, q)
  PROVE  AddUp(Tables')
<1>1. Tables \in TablesType
  BY DEF EndorseManageTypeOK
<1>2. PICK s, e : s = Tables' /\ e = -q
  OBVIOUS
<1>3. q \in Int /\ e \in Int
  BY <1>2
<1>4. CASE stake(u, v, q) \/ unstake(u, v, q)
  <2>1. /\ ~IsCredit(u) /\ Tables.validator[v].registered
        /\ StakeChanged(Tables, s, u, v, q) \/ StakeChanged(Tables, s, u, v, e)
    BY <1>2, <1>4, StakeKeeps
  <2> QED
    BY <1>1, <1>2, <1>3, <2>1, StakeAddsUp
<1>5. CASE stakexsat(u, v, q) \/ unstakexsat(u, v, q)
  <2>1. /\ Tables.validator[v].registered
        /\ XsatChanged(Tables, s, u, v, q) \/ XsatChanged(Tables, s, u, v, e)
    BY <1>2, <1>5, StakeXsatKeeps
  <2> QED
    BY <1>1, <1>2, <1>3, <2>1, XsatAddsUp
<1> QED
  BY <1>4, <1>5

\* A claim leaves the amounts.
LEMMA ClaimAddsUp ==
  ASSUME EndorseManageTypeOK, AddUp(Tables), NEW u \in Stakers, NEW v \in Validators, claim(u, v)
  PROVE  AddUp(Tables')
<1>1. PICK s : s = Tables'
  OBVIOUS
<1>2. /\ Tables \in TablesType /\ Tables.validator[v].registered /\ Moved(Tables, s, u, v, 0, 0)
      /\ KeepsWeight(Tables.validator[v], s.validator[v])
      /\ s.staker[u][v].quantity = Tables.staker[u][v].quantity
      /\ s.staker[u][v].xsat_quantity = Tables.staker[u][v].xsat_quantity
  BY <1>1, ClaimMoves DEF EndorseManageTypeOK
<1>3. Counted(s, u, v) = Counted(Tables, u, v)
  BY <1>2, CountedSame DEF KeepsWeight
<1>4. Counted(Tables, u, v) \in Nat /\ Tables.staker[u][v].xsat_quantity \in Nat /\ 0 \in Int
  BY <1>2, RowOfRegistered, CountedType, TablesParts DEF StakeRow
<1>5. Counted(s, u, v) = Counted(Tables, u, v) + 0
      /\ s.staker[u][v].xsat_quantity = Tables.staker[u][v].xsat_quantity + 0
  BY <1>2, <1>3, <1>4
<1> QED
  BY <1>1, <1>2, <1>4, <1>5, AddUpMoves

\* The custody changes the only credit stake of its validator.
LEMMA CustodyAddsUp ==
  ASSUME EndorseManageTypeOK, CustodyTypeOK, CreditInCustody, OneCustodyPerValidator, AddUp(Tables),
         CustodyNext(Stakers, Validators)
  PROVE  AddUp(Tables')
<1>1. Tables \in TablesType /\ Tables.staker = staker
  BY DEF EndorseManageTypeOK, Tables
<1>2. CASE UNCHANGED endorseManageVars
  BY <1>2, EndorseManageStays
<1>3. ASSUME NEW u \in CreditStakers, delcustody(u) \/ \E enough \in BOOLEAN : handle_staking(u, enough)
      PROVE  AddUp(Tables')
  <2>1. PICK v \in Validators : v = custody[u].validator /\ HasCustody(u)
    BY <1>3, CustodyCalls
  <2>2. \A y \in CreditStakers : y # u => Tables.staker[y][v].quantity = 0
    BY <1>1, <2>1, AloneWithValidator
  <2>3. ASSUME NEW q \in Nat, creditstake(u, v, q)
        PROVE  AddUp(Tables')
    <3>1. PICK s, weight : /\ s = Tables' /\ Tables.validator[v].registered /\ u \in Stakers
                           /\ CreditChanged(Tables, s, u, v, q, weight)
                           /\ weight \in 1..RATE_BASE_10000
      BY <2>3, Inputs, CreditStakeKeeps
    <3>2. weight \in Nat
      BY <3>1, EndorseManageAssumption
    <3> QED
      BY <1>1, <2>2, <3>1, <3>2, CreditAddsUp
  <2>4. UNCHANGED endorseManageVars \/ \E q \in Nat : creditstake(u, v, q)
    BY <1>3, <2>1, CustodyCalls
  <2> QED
    BY <1>2, <2>3, <2>4
<1>4. \/ UNCHANGED endorseManageVars
      \/ \E u \in CreditStakers : delcustody(u) \/ \E enough \in BOOLEAN : handle_staking(u, enough)
  BY DEF CustodyNext, addcustody, enroll, verifytx, activate, verifyresult, addround
<1> QED
  BY <1>2, <1>3, <1>4

\* An administrator has the sums of a validator made anew only where no native
\* account stakes with it: they are made of the EVM stakes alone.
SumsWithoutNativeStakes ==
  \A v \in Validators, is_close \in BOOLEAN :
    updcreditstk(v, is_close) => \A u \in NativeStakers : staker[u][v].quantity = 0

\* Then every step keeps the sums.
LEMMA StepAddsUp ==
  ASSUME StakingInv, OneCustodyPerValidator, StakesAddUp, [StakingNext]_allStakingVars,
         [SumsWithoutNativeStakes]_allStakingVars
  PROVE  StakesAddUp'
<1>1. /\ EndorseManageTypeOK /\ CustodyTypeOK /\ CreditInCustody /\ Tables \in TablesType /\ AddUp(Tables)
  BY AddUpOfTables DEF StakingInv, StakingTypeOK, EndorseManageTypeOK
<1>2. AddUp(Tables') => StakesAddUp'
  BY DEF StakesAddUp, AddUp, Counts, XsatsOf, RegisteredIn, RowQuantities, RowXsats, Registered, Tables
<1>3. CASE UNCHANGED endorseManageVars
  BY <1>1, <1>2, <1>3, EndorseManageStays
<1>4. CASE CustodyNext(Stakers, Validators)
  BY <1>1, <1>2, <1>4, CustodyAddsUp
<1>5. CASE DirectNext(Stakers, Validators) \/ ConsensusCalls(Validators, Rewards)
  <2>1. CASE AdminStep(Validators, Rewards)
    BY <1>1, <1>2, <2>1, AdminFollows, AddUpFollows
  <2>2. ASSUME NEW v \in Validators,
               \/ \E role \in {0, 1}, a \in Addresses, c \in Commissions : newregvldtor(v, role, a, c)
               \/ \E a \in Addresses : evmsetstaker(v, a)
               \/ \E is_close \in BOOLEAN : updcreditstk(v, is_close)
        PROVE  AddUp(Tables')
    <3>1. CASE UNCHANGED allStakingVars
      <4>1. UNCHANGED endorseManageVars
        BY <3>1 DEF allStakingVars
      <4> QED
        BY <1>1, <4>1, EndorseManageStays
    <3>2. CASE SumsWithoutNativeStakes
      BY <1>1, <2>2, <3>2, RowAddsUp DEF SumsWithoutNativeStakes
    <3> QED
      BY <3>1, <3>2
  <2>3. ASSUME NEW v \in Validators, NEW h \in Nat, endorse(v, h)
        PROVE  AddUp(Tables')
    BY <1>1, <2>3, EndorseAddsUp
  <2>4. ASSUME NEW u \in EvmStakers, NEW v \in Validators, NEW q \in Nat \ {0},
               stake(u, v, q) \/ unstake(u, v, q) \/ stakexsat(u, v, q) \/ unstakexsat(u, v, q)
        PROVE  AddUp(Tables')
    BY <1>1, <2>4, StakingAddsUp, Inputs
  <2>5. ASSUME NEW u \in Stakers, NEW v \in Validators, NEW w \in Validators, NEW q \in Nat \ {0},
               newstake(u, v, w, q) \/ restakexsat(u, v, w, q)
        PROVE  AddUp(Tables')
    BY <1>1, <2>5, RestakeAddsUp
  <2>6. ASSUME NEW u \in Stakers, NEW v \in Validators, claim(u, v)
        PROVE  AddUp(Tables')
    BY <1>1, <2>6, ClaimAddsUp
  <2> QED
    BY <1>2, <1>5, <2>1, <2>2, <2>3, <2>4, <2>5, <2>6, StepKinds
<1>6. ASSUME NEW s \in Stakers \cap NativeStakers, NEW v \in Validators, NEW t \in AllTokens, NEW q \in Amounts,
             Deposit(s, v, t, q) \/ ReleaseStake(s, v, t, q)
      PROVE  AddUp(Tables')
  <2>1. stake(s, v, q) \/ unstake(s, v, q) \/ stakexsat(s, v, q) \/ unstakexsat(s, v, q)
    BY <1>6 DEF Deposit, ReleaseStake
  <2>2. q \in Nat \ {0}
    BY Inputs
  <2> QED
    BY <1>1, <2>1, <2>2, StakingAddsUp
<1>7. \/ UNCHANGED endorseManageVars
      \/ CustodyNext(Stakers, Validators)
      \/ DirectNext(Stakers, Validators) \/ ConsensusCalls(Validators, Rewards)
      \/ \E s \in Stakers \cap NativeStakers, v \in Validators, t \in AllTokens, q \in Amounts :
           Deposit(s, v, t, q) \/ ReleaseStake(s, v, t, q)
  BY DEF StakingNext, StakingStep, TokenActions, allStakingVars
<1> QED
  BY <1>2, <1>3, <1>4, <1>5, <1>6, <1>7

\* At first there is nothing to add.
LEMMA InitAddsUp ==
  ASSUME StakingInit
  PROVE  StakesAddUp
<1>1. validator = [v \in Validators |-> Unregistered] /\ stat = [total_staking |-> 0, xsat_total_staking |-> 0]
  BY DEF StakingInit, EndorseManageInit
<1>2. Registered = {}
  BY <1>1 DEF Registered, Unregistered
<1>3. \A f : DOMAIN f = {} => Total(f) = 0
  BY FS_EmptySet, TotalZero
<1> QED
  BY <1>1, <1>2, <1>3 DEF StakesAddUp

\* Where a validator has one custody at most, and no administrator drops native
\* stakes from its sums, the stakes of a validator and the totals are the sums
\* of the rows: rewards are divided by the number of shares there are.
THEOREM StakesStayAddedUp ==
  StakingSpec /\ []OneCustodyPerValidator /\ [][SumsWithoutNativeStakes]_allStakingVars => []StakesAddUp
<1>1. StakingInit => StakesAddUp
  BY InitAddsUp
<1>2. StakingInv /\ OneCustodyPerValidator /\ StakesAddUp /\ [StakingNext]_allStakingVars
        /\ [SumsWithoutNativeStakes]_allStakingVars => StakesAddUp'
  BY StepAddsUp
<1> QED
  BY <1>1, <1>2, StakingInvariant, PTL DEF StakingSpec

-----------------------------------------------------------------------------
(* Earnings and debts.  An unsigned difference below zero aborts a call.   *)

\* Of no stake but a credit one does the debt exceed what it earned.
DebtsCovered(t) ==
  \A u \in Stakers, v \in Validators, k \in RewardKinds : ~IsCredit(u) =>
    t.staker[u][v].debt[k]
      <= IF t.validator[v].registered THEN Earned(t.staker[u][v].quantity, t.validator[v].acc_per_share[k])
                                      ELSE 0

\* The numbers compared.
LEMMA DebtTypes ==
  ASSUME NEW t \in TablesType, NEW u \in Stakers, NEW v \in Validators, NEW k \in RewardKinds
  PROVE  /\ t.staker[u][v].quantity \in Nat /\ t.staker[u][v].debt[k] \in Nat
         /\ t.staker[u][v].unclaimed[k] \in Nat
         /\ t.validator[v].registered => t.validator[v].acc_per_share[k] \in Nat
<1>1. t.staker[u][v] \in StakeRow
  BY TablesParts
<1>2. t.validator[v].registered => t.validator[v] \in ValidatorRow
  BY RowOfRegistered
<1> QED
  BY <1>1, <1>2 DEF StakeRow, ValidatorRow, RewardType

\* Rows that follow let earnings grow.
LEMMA CoveredFollows ==
  ASSUME NEW t \in TablesType, DebtsCovered(t), NEW s, RowsFollow(t, s)
  PROVE  DebtsCovered(s)
<1>1. SUFFICES ASSUME NEW u \in Stakers, NEW v \in Validators, NEW k \in RewardKinds, ~IsCredit(u)
               PROVE  s.staker[u][v].debt[k]
                        <= IF s.validator[v].registered
                             THEN Earned(s.staker[u][v].quantity, s.validator[v].acc_per_share[k]) ELSE 0
  BY DEF DebtsCovered
<1>2. /\ s \in TablesType /\ s.staker = t.staker /\ s.validator[v].registered = t.validator[v].registered
      /\ t.validator[v].registered => s.validator[v].acc_per_share[k] >= t.validator[v].acc_per_share[k]
  BY DEF RowsFollow, Follows
<1>3. PICK q, d, x, y : /\ q = t.staker[u][v].quantity /\ d = t.staker[u][v].debt[k]
                        /\ x = t.validator[v].acc_per_share[k] /\ y = s.validator[v].acc_per_share[k]
  OBVIOUS
<1>4. q \in Nat /\ d \in Nat /\ (t.validator[v].registered => x \in Nat /\ y \in Nat)
  BY <1>2, <1>3, DebtTypes
<1>5. CASE t.validator[v].registered
  <2>1. Earned(q, x) <= Earned(q, y) /\ Earned(q, x) \in Nat /\ Earned(q, y) \in Nat
    BY <1>2, <1>3, <1>4, <1>5, EarnedGrows
  <2>2. d <= Earned(q, x)
    BY <1>1, <1>3, <1>5 DEF DebtsCovered
  <2>3. d <= Earned(q, y)
    BY <1>4, <2>1, <2>2
  <2> QED
    BY <1>2, <1>3, <1>5, <2>3
<1>6. CASE ~t.validator[v].registered
  BY <1>1, <1>2, <1>6 DEF DebtsCovered
<1> QED
  BY <1>5, <1>6

\* A new row: nobody has a debt with its validator.
LEMMA CoveredRow ==
  ASSUME NEW t \in TablesType, DebtsCovered(t), NEW v \in Validators, NEW s, OneRow(t, s, v),
         s.validator[v].registered,
         t.validator[v].registered => s.validator[v].acc_per_share = t.validator[v].acc_per_share
  PROVE  DebtsCovered(s)
<1>1. SUFFICES ASSUME NEW u \in Stakers, NEW w \in Validators, NEW k \in RewardKinds, ~IsCredit(u)
               PROVE  s.staker[u][w].debt[k]
                        <= IF s.validator[w].registered
                             THEN Earned(s.staker[u][w].quantity, s.validator[w].acc_per_share[k]) ELSE 0
  BY DEF DebtsCovered
<1>2. s \in TablesType /\ s.staker = t.staker /\ \A y \in Validators : y # v => s.validator[y] = t.validator[y]
  BY DEF OneRow
<1>3. CASE w # v \/ t.validator[v].registered
  BY <1>1, <1>2, <1>3 DEF DebtsCovered
<1>4. CASE w = v /\ ~t.validator[v].registered
  <2>1. PICK q, d, x : /\ q = t.staker[u][v].quantity /\ d = t.staker[u][v].debt[k]
                       /\ x = s.validator[v].acc_per_share[k]
    OBVIOUS
  <2>2. q \in Nat /\ d \in Nat /\ x \in Nat /\ d <= 0
    BY <1>1, <1>2, <1>4, <2>1, DebtTypes DEF DebtsCovered
  <2>3. Earned(q, x) \in Nat
    BY <2>2, EarnedType
  <2>4. d <= Earned(q, x)
    BY <2>2, <2>3
  <2> QED
    BY <1>2, <1>4, <2>1, <2>4
<1> QED
  BY <1>3, <1>4

\* A stake that moves disturbs no other's debt.
LEMMA CoveredMoves ==
  ASSUME NEW t \in TablesType, DebtsCovered(t), NEW s, NEW u \in Stakers, NEW v \in Validators,
         NEW q, NEW x, t.validator[v].registered, Moved(t, s, u, v, q, x),
         ~IsCredit(u) => \A k \in RewardKinds :
           s.staker[u][v].debt[k] <= Earned(s.staker[u][v].quantity, t.validator[v].acc_per_share[k])
  PROVE  DebtsCovered(s)
<1>1. SUFFICES ASSUME NEW y \in Stakers, NEW w \in Validators, NEW k \in RewardKinds, ~IsCredit(y)
               PROVE  s.staker[y][w].debt[k]
                        <= IF s.validator[w].registered
                             THEN Earned(s.staker[y][w].quantity, s.validator[w].acc_per_share[k]) ELSE 0
  BY DEF DebtsCovered
<1>2. /\ y # u \/ w # v => s.staker[y][w] = t.staker[y][w]
      /\ s.validator[w].registered = t.validator[w].registered
      /\ t.validator[w].registered => s.validator[w].acc_per_share = t.validator[w].acc_per_share
  BY DEF Moved, KeepsRow
<1>3. CASE y = u /\ w = v
  BY <1>1, <1>2, <1>3
<1>4. CASE y # u \/ w # v
  BY <1>1, <1>2, <1>4 DEF DebtsCovered
<1> QED
  BY <1>3, <1>4

\* A settled stake owes what it has earned.
LEMMA StakeCovered ==
  ASSUME NEW t \in TablesType, DebtsCovered(t), NEW s, NEW u \in Stakers, NEW v \in Validators,
         NEW q \in Int, t.validator[v].registered, StakeChanged(t, s, u, v, q)
  PROVE  DebtsCovered(s) /\ s \in TablesType
<1>1. /\ s \in TablesType /\ Moved(t, s, u, v, q, 0)
      /\ \A k \in RewardKinds :
           s.staker[u][v].debt[k] = Earned(s.staker[u][v].quantity, t.validator[v].acc_per_share[k])
  BY DEF StakeChanged, Moved, RewardsSettled
<1>2. \A k \in RewardKinds :
        s.staker[u][v].debt[k] <= Earned(s.staker[u][v].quantity, t.validator[v].acc_per_share[k])
  <2>1. \A k \in RewardKinds : s.staker[u][v].debt[k] \in Nat
    BY <1>1, DebtTypes
  <2>2. \A n \in Nat : n <= n
    OBVIOUS
  <2> QED
    BY <1>1, <2>1, <2>2
<1> QED
  BY <1>1, <1>2, CoveredMoves

\* A stake of XSAT changes neither.
LEMMA XsatCovered ==
  ASSUME NEW t \in TablesType, DebtsCovered(t), NEW s, NEW u \in Stakers, NEW v \in Validators,
         NEW q \in Int, t.validator[v].registered, XsatChanged(t, s, u, v, q)
  PROVE  DebtsCovered(s) /\ s \in TablesType
<1>1. /\ s \in TablesType /\ Moved(t, s, u, v, 0, q)
      /\ s.staker[u][v].quantity = t.staker[u][v].quantity /\ s.staker[u][v].debt = t.staker[u][v].debt
  BY DEF XsatChanged, Moved
<1>2. ~IsCredit(u) => \A k \in RewardKinds :
        s.staker[u][v].debt[k] <= Earned(s.staker[u][v].quantity, t.validator[v].acc_per_share[k])
  BY <1>1 DEF DebtsCovered
<1> QED
  BY <1>1, <1>2, CoveredMoves

\* A credit stake is not spoken of.
LEMMA CreditCovered ==
  ASSUME NEW t \in TablesType, DebtsCovered(t), NEW s, NEW u \in Stakers, IsCredit(u), NEW v \in Validators,
         NEW quantity, NEW weight, t.validator[v].registered, CreditChanged(t, s, u, v, quantity, weight)
  PROVE  DebtsCovered(s) /\ s \in TablesType
<1>1. PICK q : q = Weighted(quantity, weight) - Counted(t, u, v)
  OBVIOUS
<1>2. s \in TablesType /\ Moved(t, s, u, v, q, 0)
  BY <1>1 DEF CreditChanged, Moved
<1> QED
  BY <1>2, CoveredMoves

\* A claim settles a stake, but a credit one, at its amount.
LEMMA ClaimCovered ==
  ASSUME EndorseManageTypeOK, DebtsCovered(Tables), NEW u \in Stakers, NEW v \in Validators, claim(u, v)
  PROVE  DebtsCovered(Tables')
<1> DEFINE q == staker[u][v].quantity
           amount == IF IsCredit(u) THEN Weighted(q, current_credit_weight) ELSE q
           Claimed(s) == [s EXCEPT !.staker[u][v] = [s.staker[u][v] EXCEPT !.unclaimed = NoReward, !.quantity = q],
                                   !.validator[v].balance = TakeFrom(@, s.staker[u][v].unclaimed)]
           settled == {s \in update_staking_reward(Tables, u, v, amount, amount) :
                         Claimable(s.staker[u][v].unclaimed) > 0}
<1>1. /\ Tables \in TablesType /\ Tables.staker = staker /\ Tables.validator = validator
      /\ q = Tables.staker[u][v].quantity /\ q \in Nat
  <2>1. Tables \in TablesType /\ Tables.staker = staker /\ Tables.validator = validator
    BY DEF EndorseManageTypeOK, Tables
  <2> QED
    BY <2>1, TablesParts DEF StakeRow
<1>2. PICK a : /\ a = Tables' /\ Tables.validator[v].registered /\ Moved(Tables, a, u, v, 0, 0)
               /\ a.staker[u][v].quantity = q
  BY <1>1, ClaimMoves
<1>3. CASE IsCredit(u)
  BY <1>1, <1>2, <1>3, CoveredMoves
<1>4. CASE ~IsCredit(u)
  <2>1. Call({Claimed(s) : s \in settled})
    BY DEF claim
  <2>2. PICK s \in settled : a.staker = Claimed(s).staker
    <3>1. PICK t \in {Claimed(s) : s \in settled} : staker' = t.staker
      BY <2>1 DEF Call, Become
    <3>2. PICK s \in settled : t = Claimed(s)
      BY <3>1
    <3>3. a.staker = t.staker
      BY <1>2, <3>1 DEF Tables
    <3> QED
      BY <3>2, <3>3
  <2>3. amount = q /\ s \in update_staking_reward(Tables, u, v, q, q)
    BY <1>4
  <2>4. Tables.validator[v] \in ValidatorRow
    BY <1>1, <1>2, RowOfRegistered
  <2>5. /\ s \in TablesType
        /\ \A k \in RewardKinds : s.staker[u][v].debt[k] = Earned(q, Tables.validator[v].acc_per_share[k])
    BY <1>1, <2>3, <2>4, UpdateReward
  <2>6. a.staker[u][v].debt = s.staker[u][v].debt
    <3>1. s.staker[u][v] \in StakeRow /\ s.staker \in [Stakers -> [Validators -> StakeRow]]
      BY <2>5, TablesParts
    <3>2. PICK st : st = [s.staker[u][v] EXCEPT !.unclaimed = NoReward, !.quantity = q]
      OBVIOUS
    <3>3. st.debt = s.staker[u][v].debt
      BY <3>1, <3>2 DEF StakeRow
    <3>4. a.staker = [s.staker EXCEPT ![u][v] = st]
      BY <2>2, <2>5, <3>2 DEF TablesType
    <3>5. a.staker[u][v] = st
      BY <3>1, <3>4
    <3> QED
      BY <3>3, <3>5
  <2>7. \A k \in RewardKinds :
          a.staker[u][v].debt[k] <= Earned(a.staker[u][v].quantity, Tables.validator[v].acc_per_share[k])
    <3>1. \A k \in RewardKinds : a.staker[u][v].debt[k] = Earned(q, Tables.validator[v].acc_per_share[k])
      BY <2>5, <2>6
    <3>2. \A k \in RewardKinds : Earned(q, Tables.validator[v].acc_per_share[k]) \in Nat
      BY <1>1, <1>2, DebtTypes, EarnedType
    <3>3. \A n \in Nat : n <= n
      OBVIOUS
    <3> QED
      BY <1>2, <3>1, <3>2, <3>3
  <2> QED
    BY <1>1, <1>2, <2>7, CoveredMoves
<1> QED
  BY <1>2, <1>3, <1>4

\* Every step keeps debts covered.
LEMMA StepCovered ==
  ASSUME EndorseManageTypeOK, CustodyTypeOK, DebtsCovered(Tables), [StakingNext]_allStakingVars
  PROVE  DebtsCovered(Tables')
<1>1. Tables \in TablesType
  BY DEF EndorseManageTypeOK
<1>s. PICK s : s = Tables'
  OBVIOUS
<1>2. CASE UNCHANGED endorseManageVars
  BY <1>2, EndorseManageStays
<1>3. ASSUME NEW u \in Stakers, NEW v \in Validators, NEW q \in Nat \ {0},
             stake(u, v, q) \/ unstake(u, v, q) \/ stakexsat(u, v, q) \/ unstakexsat(u, v, q)
      PROVE  DebtsCovered(Tables')
  <2>1. PICK e : e = -q /\ e \in Int /\ q \in Int
    OBVIOUS
  <2>2. CASE stake(u, v, q) \/ unstake(u, v, q)
    <3>1. /\ Tables.validator[v].registered
          /\ StakeChanged(Tables, s, u, v, q) \/ StakeChanged(Tables, s, u, v, e)
      BY <1>3, <1>s, <2>1, <2>2, StakeKeeps
    <3> QED
      BY <1>1, <1>s, <2>1, <3>1, StakeCovered
  <2>3. CASE stakexsat(u, v, q) \/ unstakexsat(u, v, q)
    <3>1. /\ Tables.validator[v].registered
          /\ XsatChanged(Tables, s, u, v, q) \/ XsatChanged(Tables, s, u, v, e)
      BY <1>3, <1>s, <2>1, <2>3, StakeXsatKeeps
    <3> QED
      BY <1>1, <1>s, <2>1, <3>1, XsatCovered
  <2> QED
    BY <1>3, <2>2, <2>3
<1>4. ASSUME NEW u \in Stakers, NEW v \in Validators, NEW w \in Validators, NEW q \in Nat \ {0},
             newstake(u, v, w, q) \/ restakexsat(u, v, w, q)
      PROVE  DebtsCovered(Tables')
  <2>1. PICK e : e = -q /\ e \in Int /\ q \in Int
    OBVIOUS
  <2>2. CASE newstake(u, v, w, q)
    <3>1. PICK m \in TablesType :
            /\ Tables.validator[v].registered /\ StakeChanged(Tables, m, u, v, e)
            /\ m.validator[w].registered /\ StakeChanged(m, s, u, w, q)
      BY <1>s, <2>1, <2>2, RestakeKeeps
    <3>2. DebtsCovered(m)
      BY <1>1, <2>1, <3>1, StakeCovered
    <3> QED
      BY <1>s, <2>1, <3>1, <3>2, StakeCovered
  <2>3. CASE restakexsat(u, v, w, q)
    <3>1. PICK m \in TablesType :
            /\ Tables.validator[v].registered /\ XsatChanged(Tables, m, u, v, e)
            /\ m.validator[w].registered /\ XsatChanged(m, s, u, w, q)
      BY <1>s, <2>1, <2>3, RestakeXsatKeeps
    <3>2. DebtsCovered(m)
      BY <1>1, <2>1, <3>1, XsatCovered
    <3> QED
      BY <1>s, <2>1, <3>1, <3>2, XsatCovered
  <2> QED
    BY <1>4, <2>2, <2>3
<1>5. ASSUME NEW v \in Validators,
             \/ \E role \in {0, 1}, a \in Addresses, c \in Commissions : newregvldtor(v, role, a, c)
             \/ \E a \in Addresses : evmsetstaker(v, a)
             \/ \E is_close \in BOOLEAN : updcreditstk(v, is_close)
      PROVE  DebtsCovered(Tables')
  <2>1. /\ OneRow(Tables, s, v) /\ s.validator[v].registered
        /\ Tables.validator[v].registered => s.validator[v].acc_per_share = Tables.validator[v].acc_per_share
    <3>1. CASE \E role \in {0, 1}, a \in Addresses, c \in Commissions : newregvldtor(v, role, a, c)
      <4>1. ~Tables.validator[v].registered /\ OneRow(Tables, s, v) /\ s.validator[v] \in ValidatorRow
        BY <1>s, <3>1, NewRow
      <4> QED
        BY <4>1 DEF ValidatorRow
    <3>2. CASE \E a \in Addresses : evmsetstaker(v, a)
      BY <1>s, <3>2, SetStakerRow
    <3>3. CASE \E is_close \in BOOLEAN : updcreditstk(v, is_close)
      BY <1>s, <3>3, UpdCreditRow
    <3> QED
      BY <1>5, <3>1, <3>2, <3>3
  <2> QED
    BY <1>1, <1>s, <2>1, CoveredRow
<1>6. ASSUME NEW v \in Validators, NEW h \in Nat, endorse(v, h)
      PROVE  DebtsCovered(Tables')
  <2>1. PICK m : /\ RowsFollow(Tables, m) /\ m.validator[v].registered
                 /\ \/ s = m
                    \/ \E u \in EvmStakers :
                         /\ IsCredit(u) /\ m.staker[u][v].quantity # 0
                         /\ CreditChanged(m, s, u, v, m.staker[u][v].quantity, get_credit_weight(h))
    BY <1>s, <1>6, EndorseMoves
  <2>2. DebtsCovered(m) /\ m \in TablesType
    BY <1>1, <2>1, CoveredFollows DEF RowsFollow
  <2>3. ASSUME NEW u \in EvmStakers, IsCredit(u),
               CreditChanged(m, s, u, v, m.staker[u][v].quantity, get_credit_weight(h))
        PROVE  DebtsCovered(s)
    <3>1. PICK quantity, weight : CreditChanged(m, s, u, v, quantity, weight)
      BY <2>3
    <3> QED
      BY <2>1, <2>2, <2>3, <3>1, Inputs, CreditCovered
  <2> QED
    BY <1>s, <2>1, <2>2, <2>3
<1>7. CASE DirectNext(Stakers, Validators) \/ ConsensusCalls(Validators, Rewards)
  <2>1. CASE AdminStep(Validators, Rewards)
    BY <1>1, <2>1, AdminFollows, CoveredFollows
  <2>2. ASSUME NEW u \in Stakers, NEW v \in Validators, claim(u, v)
        PROVE  DebtsCovered(Tables')
    BY <2>2, ClaimCovered
  <2>3. ASSUME NEW u \in EvmStakers, NEW v \in Validators, NEW q \in Nat \ {0},
               stake(u, v, q) \/ unstake(u, v, q) \/ stakexsat(u, v, q) \/ unstakexsat(u, v, q)
        PROVE  DebtsCovered(Tables')
    BY <1>3, <2>3, Inputs
  <2> QED
    BY <1>4, <1>5, <1>6, <1>7, <2>1, <2>2, <2>3, StepKinds
<1>8. CASE CustodyNext(Stakers, Validators)
  <2>1. ASSUME NEW u \in CreditStakers, delcustody(u) \/ \E enough \in BOOLEAN : handle_staking(u, enough)
        PROVE  DebtsCovered(Tables')
    <3>1. PICK v \in Validators : v = custody[u].validator
      BY <2>1, CustodyCalls
    <3>2. ASSUME NEW q \in Nat, creditstake(u, v, q)
          PROVE  DebtsCovered(Tables')
      <4>1. PICK weight : /\ Tables.validator[v].registered /\ u \in Stakers /\ IsCredit(u)
                          /\ CreditChanged(Tables, s, u, v, q, weight)
        BY <1>s, <3>2, Inputs, CreditStakeKeeps
      <4> QED
        BY <1>1, <1>s, <4>1, CreditCovered
    <3>3. UNCHANGED endorseManageVars \/ \E q \in Nat : creditstake(u, v, q)
      BY <2>1, <3>1, CustodyCalls
    <3> QED
      BY <1>2, <3>2, <3>3
  <2>2. \/ UNCHANGED endorseManageVars
        \/ \E u \in CreditStakers : delcustody(u) \/ \E enough \in BOOLEAN : handle_staking(u, enough)
    BY <1>8 DEF CustodyNext, addcustody, enroll, verifytx, activate, verifyresult, addround
  <2> QED
    BY <1>2, <2>1, <2>2
<1>9. ASSUME NEW a \in Stakers \cap NativeStakers, NEW v \in Validators, NEW t \in AllTokens, NEW q \in Amounts,
             Deposit(a, v, t, q) \/ ReleaseStake(a, v, t, q)
      PROVE  DebtsCovered(Tables')
  <2>1. stake(a, v, q) \/ unstake(a, v, q) \/ stakexsat(a, v, q) \/ unstakexsat(a, v, q)
    BY <1>9 DEF Deposit, ReleaseStake
  <2>2. q \in Nat \ {0}
    BY Inputs
  <2> QED
    BY <1>3, <2>1, <2>2
<1>10. \/ UNCHANGED endorseManageVars
       \/ CustodyNext(Stakers, Validators)
       \/ DirectNext(Stakers, Validators) \/ ConsensusCalls(Validators, Rewards)
       \/ \E a \in Stakers \cap NativeStakers, v \in Validators, t \in AllTokens, q \in Amounts :
            Deposit(a, v, t, q) \/ ReleaseStake(a, v, t, q)
  BY DEF StakingNext, StakingStep, TokenActions, allStakingVars
<1> QED
  BY <1>2, <1>7, <1>8, <1>9, <1>10

\* At first nobody has a debt.
LEMMA InitCovered ==
  ASSUME StakingInit
  PROVE  DebtsCovered(Tables)
<1>1. /\ validator = [v \in Validators |-> Unregistered]
      /\ staker = [u \in Stakers |-> [v \in Validators |-> NoStake]]
  BY DEF StakingInit, EndorseManageInit
<1>2. \A u \in Stakers, v \in Validators, k \in RewardKinds :
        staker[u][v].debt[k] = 0 /\ ~validator[v].registered
  BY <1>1 DEF NoStake, NoReward, Unregistered
<1> QED
  BY <1>2 DEF DebtsCovered, Tables

\* The debt of a native or EVM stake never exceeds what the stake has earned,
\* whatever is staked, claimed, rewarded or administered: update_staking_reward
\* subtracts nothing from less, and no call of such a staker fails of it.
THEOREM DebtsStayCovered == StakingSpec => []DebtsCovered(Tables)
<1>1. StakingInit => DebtsCovered(Tables)
  BY InitCovered
<1>2. StakingInv /\ DebtsCovered(Tables) /\ [StakingNext]_allStakingVars => DebtsCovered(Tables)'
  <2>1. DebtsCovered(Tables') => DebtsCovered(Tables)'
    BY DEF DebtsCovered, Tables
  <2> QED
    BY <2>1, StepCovered DEF StakingInv, StakingTypeOK
<1> QED
  BY <1>1, <1>2, StakingInvariant, PTL DEF StakingSpec

-----------------------------------------------------------------------------
(* Stakes that can be withdrawn. *)

\* staking_change has an outcome where the sums do not go below zero.
LEMMA ChangeSucceeds ==
  ASSUME NEW t \in TablesType, DebtsCovered(t), NEW u \in Stakers, ~IsCredit(u), NEW v \in Validators,
         t.validator[v].registered, NEW q \in Int, NEW ql \in Int, NEW flag,
         t.validator[v].quantity + q >= 0, t.validator[v].qualification + ql >= 0
  PROVE  staking_change(t, u, v, q, ql, flag) # {}
<1> DEFINE row == t.validator[v]
           n == [row EXCEPT !.quantity = @ + q, !.qualification = @ + ql, !.active_flag = flag]
           pre == Counted(t, u, v)
<1>1. PICK m : m = [t EXCEPT !.validator[v] = n, !.stat.total_staking = @ + q]
  OBVIOUS
<1>2. staking_change(t, u, v, q, ql, flag) = update_staking_reward(m, u, v, pre, pre + q)
  BY <1>1 DEF staking_change
<1>3. m.staker[u][v] = t.staker[u][v] /\ m.validator[v].acc_per_share = row.acc_per_share
  <2>1. row \in ValidatorRow
    BY RowOfRegistered
  <2>2. PICK r : r = n
    OBVIOUS
  <2>3. r.acc_per_share = row.acc_per_share
    BY <2>1, <2>2 DEF ValidatorRow
  <2>4. m.staker = t.staker /\ m.validator[v] = r
    BY <1>1, <2>2 DEF TablesType
  <2> QED
    BY <2>3, <2>4
<1>4. pre = t.staker[u][v].quantity
  BY DEF Counted
<1>5. \A k \in RewardKinds : Earned(pre, m.validator[v].acc_per_share[k]) >= m.staker[u][v].debt[k]
  <2>1. SUFFICES ASSUME NEW k \in RewardKinds
                 PROVE  Earned(pre, m.validator[v].acc_per_share[k]) >= m.staker[u][v].debt[k]
    OBVIOUS
  <2>2. t.staker[u][v].debt[k] <= Earned(t.staker[u][v].quantity, row.acc_per_share[k])
    BY DEF DebtsCovered
  <2>3. Earned(t.staker[u][v].quantity, row.acc_per_share[k]) \in Nat /\ t.staker[u][v].debt[k] \in Nat
    BY DebtTypes, EarnedType
  <2> QED
    BY <1>3, <1>4, <2>2, <2>3
<1> QED
  BY <1>2, <1>5 DEF update_staking_reward

\* Covered debts and right sums are all it takes, and enough qualification where the
\* stake is taken from it.
LEMMA StakesComeBack ==
  ASSUME EndorseManageTypeOK, DebtsCovered(Tables), AddUp(Tables)
  PROVE  StakesCanBeWithdrawn
<1>1. SUFFICES ASSUME NEW u \in Stakers, NEW v \in Registered, ~IsCredit(u), ~Barred(u, v),
                      NEW q \in 1..staker[u][v].quantity,
                      (xsat_active /\ Delegates(u)) \/ validator[v].qualification >= q
               PROVE  Unstaked(Tables, u, v, q) # {}
  BY DEF StakesCanBeWithdrawn
<1>2. PICK t : t = Tables /\ t \in TablesType /\ t.staker = staker /\ t.validator = validator
  BY DEF EndorseManageTypeOK, Tables
<1>3. v \in Validators /\ t.validator[v].registered /\ t.validator[v] \in ValidatorRow /\ ~IsCredit(u)
      /\ v \in RegisteredIn(t)
  BY <1>1, <1>2, RowOfRegistered DEF Registered, RegisteredIn
<1>4. t.staker[u][v].quantity \in Nat /\ q \in Nat /\ t.staker[u][v].quantity >= q
  <2>1. t.staker[u][v].quantity \in Nat
    BY <1>2, <1>3, TablesParts DEF StakeRow
  <2> QED
    BY <1>1, <1>2, <2>1
<1>5. t.validator[v].quantity \in Nat /\ t.validator[v].qualification \in Nat
  BY <1>3 DEF ValidatorRow
<1>6. t.validator[v].quantity >= t.staker[u][v].quantity
  <2>1. PICK f : f = Counts(t, v)
    OBVIOUS
  <2>2. DOMAIN f = Stakers /\ \A y \in Stakers : f[y] = Counted(t, y, v) /\ f[y] \in Nat
    BY <1>2, <1>3, <2>1, SummandTypes
  <2>3. f[u] <= Total(f) /\ Total(f) \in Nat
    BY <2>2, StakersFinite, TotalType
  <2>4. f[u] = t.staker[u][v].quantity
    BY <1>3, <2>2 DEF Counted
  <2>5. t.validator[v].quantity = Total(f)
    BY <1>2, <1>3, <2>1 DEF AddUp
  <2> QED
    BY <1>4, <2>3, <2>4, <2>5
<1>7. PICK e : e = -q /\ e \in Int /\ t.validator[v].quantity + e >= 0 /\ 0 \in Int
               /\ t.validator[v].qualification + 0 >= 0
               /\ (t.validator[v].qualification >= q => t.validator[v].qualification + e >= 0)
  BY <1>4, <1>5, <1>6
<1>8. ASSUME NEW flag, NEW ql \in {0, e}, ql = 0 \/ t.validator[v].qualification >= q
      PROVE  staking_change(t, u, v, e, ql, flag) # {}
  BY <1>2, <1>3, <1>7, <1>8, ChangeSucceeds
<1>9. (xsat_active /\ Delegates(u)) \/ t.validator[v].qualification >= q
  BY <1>1, <1>2
<1>10. CASE u \in NativeStakers
  <2>1. PICK ql : ql = (IF xsat_active THEN 0 ELSE e)
    OBVIOUS
  <2>2. ql \in {0, e} /\ (ql = 0 \/ t.validator[v].qualification >= q)
    BY <1>9, <2>1
  <2>3. staking_change(t, u, v, e, ql, t.validator[v].active_flag) # {}
    BY <1>8, <2>2
  <2> QED
    BY <1>2, <1>4, <1>7, <1>10, <2>1, <2>3 DEF Unstaked, unstake_without_auth
<1>11. CASE u \notin NativeStakers
  <2>1. u \in EvmStakers /\ (IsDeposit(u) => u.address = t.validator[v].stake_address)
    BY <1>1, <1>2, <1>11 DEF Barred, Stakers
  <2>2. PICK qualifies : /\ qualifies = (IsDeposit(u) \/ IsCredit(u))
                         /\ Delegates(u) => ~qualifies
    BY <1>3, <2>1 DEF Delegates
  <2>3. PICK ql : ql = (IF xsat_active /\ ~qualifies THEN 0 ELSE e)
    OBVIOUS
  <2>4. ql \in {0, e} /\ (ql = 0 \/ t.validator[v].qualification >= q)
    BY <1>9, <2>2, <2>3
  <2>5. \A flag : staking_change(t, u, v, e, ql, flag) # {}
    BY <1>8, <2>4
  <2> QED
    BY <1>2, <1>4, <1>7, <1>11, <2>1, <2>2, <2>3, <2>5 DEF Unstaked, evm_unstake_without_auth
<1> QED
  BY <1>10, <1>11

\* Nothing but a short qualification keeps a stake of BTC: whatever was claimed,
\* moved, rewarded or rewritten since it was made, neither its debts nor the sums of
\* its validator stop unstake_without_auth and evm_unstake_without_auth; if a custody
\* is the only one of its validator, and no sum is taken anew without the native
\* stakes.
THEOREM StakesCanBeWithdrawnHolds ==
  StakingSpec /\ []OneCustodyPerValidator /\ [][SumsWithoutNativeStakes]_allStakingVars
    => []StakesCanBeWithdrawn
<1>1. StakingInv /\ DebtsCovered(Tables) /\ StakesAddUp => StakesCanBeWithdrawn
  BY StakesComeBack, AddUpOfTables DEF StakingInv, StakingTypeOK
<1> QED
  BY <1>1, StakingInvariant, DebtsStayCovered, StakesStayAddedUp, PTL
-----------------------------------------------------------------------------
(* Rewards and funds.  In the unit rewards are divided in: RATE_BASE for a   *)
(* token, so that what rounding takes is seen.                               *)

\* What the stake of u with v is owed, before it is rounded.
Owed(t, u, v, k) ==
  Counted(t, u, v) * t.validator[v].acc_per_share[k]
    + RATE_BASE * (t.staker[u][v].unclaimed[k] - t.staker[u][v].debt[k])
Owing(t, v, k) == [u \in Stakers |-> Owed(t, u, v, k)]

\* What is held for the stakers of v beyond what they are owed.
Surplus(t, v, k) == RATE_BASE * Left(t.validator[v], k) - SumFunctionOnSet(Owing(t, v, k), Stakers)

\* What is due is what is owed, rounded down.
LEMMA OwedType ==
  ASSUME NEW t \in TablesType, NEW u \in Stakers, NEW v \in Validators, NEW k \in RewardKinds,
         t.validator[v].registered
  PROVE  /\ Owed(t, u, v, k) \in Int /\ RATE_BASE * DueOf(t, u, v, k) \in Int
         /\ RATE_BASE * DueOf(t, u, v, k) <= Owed(t, u, v, k)
         /\ Owed(t, u, v, k) <= RATE_BASE * DueOf(t, u, v, k) + (RATE_BASE - 1)
<1>1. PICK a \in Nat, acc \in Nat, z \in Nat, d \in Nat :
        /\ a = Counted(t, u, v) /\ acc = t.validator[v].acc_per_share[k]
        /\ z = t.staker[u][v].unclaimed[k] /\ d = t.staker[u][v].debt[k]
  BY DueType
<1>2. PICK n \in Nat : n = a * acc
  OBVIOUS
<1>3. RATE_BASE \in Nat \ {0}
  BY EndorseManageAssumption
<1>4. PICK e \in Nat : e = n \div RATE_BASE /\ RATE_BASE * e <= n /\ n - RATE_BASE * e <= RATE_BASE - 1
  BY <1>3, Quotient
<1>5. Owed(t, u, v, k) = n + RATE_BASE * (z - d) /\ DueOf(t, u, v, k) = z + (e - d)
  BY <1>1, <1>2, <1>4 DEF Owed, DueOf, Earned
<1>6. RATE_BASE * (z + (e - d)) = RATE_BASE * e + RATE_BASE * (z - d)
  BY <1>3
<1>7. RATE_BASE * (z - d) \in Int /\ RATE_BASE * e \in Nat
  BY <1>3
<1> QED
  BY <1>3, <1>4, <1>5, <1>6, <1>7

\* The same stake is owed the same.
LEMMA OwedSame ==
  ASSUME NEW t \in TablesType, NEW s \in TablesType, NEW u \in Stakers, NEW v \in Validators,
         NEW k \in RewardKinds, t.validator[v].registered, s.validator[v].registered,
         s.validator[v].acc_per_share[k] = t.validator[v].acc_per_share[k],
         Counted(s, u, v) = Counted(t, u, v), DueOf(s, u, v, k) = DueOf(t, u, v, k)
  PROVE  Owed(s, u, v, k) = Owed(t, u, v, k)
<1>1. PICK a \in Nat, acc \in Nat, e \in Int :
        a = Counted(t, u, v) /\ acc = t.validator[v].acc_per_share[k] /\ e = Earned(a, acc)
  <2>1. Earned(Counted(t, u, v), t.validator[v].acc_per_share[k]) \in Int
    BY DueType
  <2> QED
    BY <2>1, DueType
<1>2. PICK m \in Nat, d \in Nat, n \in Nat, b \in Nat :
        /\ m = t.staker[u][v].unclaimed[k] /\ d = t.staker[u][v].debt[k]
        /\ n = s.staker[u][v].unclaimed[k] /\ b = s.staker[u][v].debt[k]
  BY DueType
<1>3. m + (e - d) = n + (e - b)
  BY <1>1, <1>2 DEF DueOf
<1>4. m - d = n - b
  BY <1>1, <1>2, <1>3
<1> QED
  BY <1>1, <1>2, <1>4 DEF Owed

\* The numbers of a surplus.
LEMMA SurplusType ==
  ASSUME NEW t \in TablesType, NEW v \in Validators, NEW k \in RewardKinds, t.validator[v].registered
  PROVE  /\ Left(t.validator[v], k) \in Int /\ RATE_BASE * Left(t.validator[v], k) \in Int
         /\ \A u \in Stakers : Owing(t, v, k)[u] = Owed(t, u, v, k) /\ Owing(t, v, k)[u] \in Int
         /\ SumFunctionOnSet(Owing(t, v, k), Stakers) \in Int
         /\ Surplus(t, v, k) \in Int
<1>1. t.validator[v] \in ValidatorRow
  BY RowOfRegistered
<1>2. t.validator[v].balance[k] \in Int /\ t.validator[v].unclaimed[k] \in Nat
  BY <1>1 DEF ValidatorRow, RewardType
<1>3. PICK m \in Int : m = Left(t.validator[v], k)
  BY <1>2 DEF Left
<1>4. RATE_BASE * m \in Int
  BY EndorseManageAssumption
<1>5. \A u \in Stakers : Owing(t, v, k)[u] = Owed(t, u, v, k) /\ Owing(t, v, k)[u] \in Int
  BY OwedType DEF Owing
<1>6. PICK n \in Int : n = SumFunctionOnSet(Owing(t, v, k), Stakers)
  BY <1>5, StakersFinite, SumType
<1>7. RATE_BASE * m - n \in Int
  BY <1>4
<1> QED
  BY <1>3, <1>4, <1>5, <1>6, <1>7 DEF Surplus

\* What comes in funds what the shares earn by it: their number is the validator's.
LEMMA SurplusFollows ==
  ASSUME NEW t \in TablesType, AddUp(t), NEW s, RowsFollow(t, s),
         NEW v \in Validators, NEW k \in RewardKinds, t.validator[v].registered
  PROVE  Surplus(s, v, k) >= Surplus(t, v, k)
<1>1. /\ s \in TablesType /\ s.staker = t.staker /\ s.validator[v].registered
      /\ s.validator[v].credit_weight = t.validator[v].credit_weight
      /\ Funded(t.validator[v], s.validator[v])
  BY DEF RowsFollow, Follows
<1>2. PICK acc \in Nat, new \in Nat : acc = t.validator[v].acc_per_share[k] /\ new = s.validator[v].acc_per_share[k]
  <2>1. t.validator[v].acc_per_share \in RewardType /\ s.validator[v].acc_per_share \in RewardType
    BY <1>1, RowOfRegistered DEF ValidatorRow
  <2> QED
    BY <2>1 DEF RewardType
<1>3. PICK c \in Int : c = new - acc
  BY <1>2
<1>4. PICK f, g, h : f = Owing(t, v, k) /\ g = Counts(t, v) /\ h = Owing(s, v, k)
  OBVIOUS
<1>5. /\ \A u \in Stakers : f[u] \in Int /\ h[u] \in Int
      /\ Surplus(t, v, k) = RATE_BASE * Left(t.validator[v], k) - SumFunctionOnSet(f, Stakers)
      /\ Surplus(s, v, k) = RATE_BASE * Left(s.validator[v], k) - SumFunctionOnSet(h, Stakers)
      /\ SumFunctionOnSet(f, Stakers) \in Int
  BY <1>1, <1>4, SurplusType DEF Surplus
<1>6. \A u \in Stakers : g[u] = Counted(t, u, v) /\ g[u] \in Int
  <2>1. v \in RegisteredIn(t)
    BY DEF RegisteredIn
  <2>2. \A u \in Stakers : g[u] = Counted(t, u, v) /\ g[u] \in Nat
    BY <1>4, <2>1, SummandTypes
  <2> QED
    BY <2>2
<1>7. ASSUME NEW u \in Stakers
      PROVE  h[u] = f[u] + g[u] * c
  <2>1. Counted(s, u, v) = Counted(t, u, v)
    BY <1>1, CountedSame
  <2>2. PICK a \in Int, z \in Int :
          /\ a = Counted(t, u, v)
          /\ z = RATE_BASE * (t.staker[u][v].unclaimed[k] - t.staker[u][v].debt[k])
    <3>1. t.staker[u][v].unclaimed[k] \in Nat /\ t.staker[u][v].debt[k] \in Nat
      BY DueType
    <3>2. \A m \in Nat, d \in Nat : RATE_BASE * (m - d) \in Int
      BY EndorseManageAssumption
    <3> QED
      BY <1>6, <3>1, <3>2
  <2>3. h[u] = a * new + z /\ f[u] = a * acc + z /\ g[u] = a
    BY <1>1, <1>2, <1>4, <1>6, <2>1, <2>2 DEF Owing, Owed
  <2>4. a * new = a * acc + a * c
    BY <1>2, <1>3
  <2>5. a * new \in Int /\ a * acc \in Int /\ a * c \in Int
    BY <1>2, <1>3
  <2> QED
    BY <2>3, <2>4, <2>5
<1>8. SumFunctionOnSet(h, Stakers) = SumFunctionOnSet(f, Stakers) + SumFunctionOnSet(g, Stakers) * c
  BY <1>3, <1>5, <1>6, <1>7, StakersFinite, SumLinear
<1>9. PICK q \in Int : q = t.validator[v].quantity /\ q = SumFunctionOnSet(g, Stakers)
  <2>1. v \in RegisteredIn(t) /\ DOMAIN g = Stakers
    BY <1>4, SummandTypes DEF RegisteredIn
  <2>2. t.validator[v].quantity = SumFunctionOnSet(g, Stakers)
    BY <1>4, <2>1 DEF AddUp, Total, SumFunction
  <2>3. t.validator[v].quantity \in Int
    BY <2>1, SummandTypes
  <2> QED
    BY <2>2, <2>3
<1>10. PICK m \in Int, n \in Int : m = Left(t.validator[v], k) /\ n = Left(s.validator[v], k)
  BY <1>1, SurplusType
<1>11. RATE_BASE * (n - m) >= q * c
  BY <1>1, <1>2, <1>3, <1>9, <1>10 DEF Funded
<1>12. PICK x \in Int : x = SumFunctionOnSet(f, Stakers)
  BY <1>5
<1>13. RATE_BASE * n - (x + q * c) >= RATE_BASE * m - x
  <2>1. RATE_BASE * n = RATE_BASE * m + RATE_BASE * (n - m)
    BY <1>10, EndorseManageAssumption
  <2>2. RATE_BASE * n \in Int /\ RATE_BASE * m \in Int /\ RATE_BASE * (n - m) \in Int /\ q * c \in Int
    BY <1>3, <1>9, <1>10, EndorseManageAssumption
  <2> QED
    BY <1>11, <1>12, <2>1, <2>2
<1> QED
  BY <1>5, <1>8, <1>9, <1>10, <1>12, <1>13

\* The stakes with v that count for something else.
CountsChanged(t, s, v) == {u \in Stakers : Counted(s, u, v) # Counted(t, u, v)}

\* A settlement costs less than a unit for each stake that changes.
LEMMA SurplusSame ==
  ASSUME NEW t \in TablesType, NEW s \in TablesType, DueSame(t, s),
         NEW v \in Validators, NEW k \in RewardKinds, t.validator[v].registered
  PROVE  Surplus(s, v, k) >= Surplus(t, v, k) - (RATE_BASE - 1) * Cardinality(CountsChanged(t, s, v))
<1>1. /\ s.validator[v].registered
      /\ s.validator[v].acc_per_share[k] = t.validator[v].acc_per_share[k]
      /\ Left(s.validator[v], k) = Left(t.validator[v], k)
      /\ \A u \in Stakers : DueOf(s, u, v, k) = DueOf(t, u, v, k)
  BY DEF DueSame
<1>2. PICK f, h, D, c : /\ f = Owing(t, v, k) /\ h = Owing(s, v, k) /\ D = CountsChanged(t, s, v)
                        /\ c = RATE_BASE - 1
  OBVIOUS
<1>3. c \in Nat
  BY <1>2, EndorseManageAssumption
<1>4. /\ \A u \in Stakers : f[u] \in Int /\ h[u] \in Int /\ f[u] = Owed(t, u, v, k) /\ h[u] = Owed(s, u, v, k)
      /\ Surplus(t, v, k) = RATE_BASE * Left(t.validator[v], k) - SumFunctionOnSet(f, Stakers)
      /\ Surplus(s, v, k) = RATE_BASE * Left(s.validator[v], k) - SumFunctionOnSet(h, Stakers)
      /\ SumFunctionOnSet(f, Stakers) \in Int /\ SumFunctionOnSet(h, Stakers) \in Int
      /\ RATE_BASE * Left(t.validator[v], k) \in Int
  BY <1>1, <1>2, SurplusType DEF Surplus
<1>5. \A u \in Stakers \ D : h[u] <= f[u]
  <2>1. ASSUME NEW u \in Stakers \ D
        PROVE  h[u] = f[u]
    BY <1>1, <1>2, <1>4, OwedSame DEF CountsChanged
  <2> QED
    BY <1>4, <2>1
<1>6. \A u \in D : h[u] <= f[u] + c
  <2>1. ASSUME NEW u \in D
        PROVE  h[u] <= f[u] + c
    <3>1. u \in Stakers
      BY <1>2, <2>1 DEF CountsChanged
    <3>2. PICK d \in Int : d = RATE_BASE * DueOf(t, u, v, k) /\ d = RATE_BASE * DueOf(s, u, v, k)
      BY <1>1, <3>1, OwedType
    <3>3. d <= f[u] /\ h[u] <= d + c
      BY <1>1, <1>2, <1>4, <3>1, <3>2, OwedType
    <3> QED
      BY <1>3, <1>4, <3>1, <3>2, <3>3
  <2> QED
    BY <2>1
<1>7. D \in SUBSET Stakers
  BY <1>2 DEF CountsChanged
<1>8. SumFunctionOnSet(h, Stakers) <= SumFunctionOnSet(f, Stakers) + c * Cardinality(D)
  BY <1>3, <1>4, <1>5, <1>6, <1>7, StakersFinite, SumLeak
<1>9. c * Cardinality(D) \in Int
  BY <1>3, <1>7, StakersFinite, FS_Subset, FS_CardinalityType
<1> QED
  BY <1>1, <1>2, <1>4, <1>8, <1>9
\* A change of the tables that takes nothing from the funds of a validator but
\* what is rounded; one that is new owes nothing.
FundsKept(t, s) ==
  \A v \in Validators :
    /\ t.validator[v].registered =>
         /\ s.validator[v].registered
         /\ \A k \in RewardKinds :
              Surplus(s, v, k) >= Surplus(t, v, k) - (RATE_BASE - 1) * Cardinality(CountsChanged(t, s, v))
    /\ ~t.validator[v].registered =>
         /\ \A u \in Stakers : s.staker[u][v] = t.staker[u][v]
         /\ s.validator[v].registered => \A k \in RewardKinds : Surplus(s, v, k) = 0

\* What cannot be less than it is with nothing rounded.
LEMMA NotLess ==
  ASSUME NEW x \in Int, NEW y \in Int, y >= x, NEW D \in SUBSET Stakers
  PROVE  y >= x - (RATE_BASE - 1) * Cardinality(D)
<1>1. PICK c \in Nat, n \in Nat : c = RATE_BASE - 1 /\ n = Cardinality(D)
  BY EndorseManageAssumption, StakersFinite, FS_Subset, FS_CardinalityType
<1>2. c * n \in Nat
  OBVIOUS
<1> QED
  BY <1>1, <1>2

\* Rewards come in with their funds, and stakes are settled.
LEMMA SettlingKeepsFunds ==
  ASSUME NEW t \in TablesType, AddUp(t), NEW s \in TablesType, Settles(t, s)
  PROVE  FundsKept(t, s)
<1>1. PICK m \in TablesType : RowsFollow(t, m) /\ DueSame(m, s)
  BY DEF Settles
<1>2. ASSUME NEW v \in Validators
      PROVE  /\ m.validator[v].registered = t.validator[v].registered
             /\ \A u \in Stakers : m.staker[u][v] = t.staker[u][v]
             /\ t.validator[v].registered => m.validator[v].credit_weight = t.validator[v].credit_weight
  BY <1>1 DEF RowsFollow, Follows
<1>3. ASSUME NEW v \in Validators, t.validator[v].registered, NEW k \in RewardKinds
      PROVE  Surplus(s, v, k) >= Surplus(t, v, k) - (RATE_BASE - 1) * Cardinality(CountsChanged(t, s, v))
  <2>1. m.validator[v].registered /\ s.validator[v].registered
    BY <1>1, <1>2, <1>3 DEF DueSame
  <2>2. \A u \in Stakers : Counted(m, u, v) = Counted(t, u, v)
    BY <1>2, <1>3, CountedSame
  <2>3. CountsChanged(m, s, v) = CountsChanged(t, s, v)
    BY <2>2 DEF CountsChanged
  <2>4. Surplus(m, v, k) >= Surplus(t, v, k)
    BY <1>1, <1>3, SurplusFollows
  <2>5. Surplus(s, v, k) >= Surplus(m, v, k) - (RATE_BASE - 1) * Cardinality(CountsChanged(t, s, v))
    BY <1>1, <1>3, <2>1, <2>3, SurplusSame
  <2>6. PICK c \in Nat, n \in Nat : c = RATE_BASE - 1 /\ n = Cardinality(CountsChanged(t, s, v))
    <3>1. CountsChanged(t, s, v) \in SUBSET Stakers
      BY DEF CountsChanged
    <3> QED
      BY <3>1, EndorseManageAssumption, StakersFinite, FS_Subset, FS_CardinalityType
  <2>7. c * n \in Nat
    OBVIOUS
  <2>8. Surplus(s, v, k) \in Int /\ Surplus(m, v, k) \in Int /\ Surplus(t, v, k) \in Int
    BY <1>3, <2>1, SurplusType
  <2> QED
    BY <2>4, <2>5, <2>6, <2>7, <2>8
<1>4. \A v \in Validators : t.validator[v].registered => s.validator[v].registered
  BY <1>1, <1>2 DEF DueSame
<1>5. \A v \in Validators : ~t.validator[v].registered =>
        ~s.validator[v].registered /\ \A u \in Stakers : s.staker[u][v] = t.staker[u][v]
  BY <1>1, <1>2 DEF DueSame
<1> QED
  BY <1>3, <1>4, <1>5 DEF FundsKept

\* A claim is paid from the funds, and is owed no more.
LEMMA ClaimKeepsFunds ==
  ASSUME EndorseManageTypeOK, NEW u \in Stakers, NEW v \in Validators, claim(u, v)
  PROVE  FundsKept(Tables, Tables')
<1>1. PICK t, s : t = Tables /\ s = Tables'
  OBVIOUS
<1>2. /\ t \in TablesType /\ t.validator[v].registered /\ Paid(t, s, u, v) /\ Moved(t, s, u, v, 0, 0)
      /\ s.validator[v].credit_weight = t.validator[v].credit_weight
      /\ s.staker[u][v].quantity = t.staker[u][v].quantity
  BY <1>1, ClaimMoves DEF EndorseManageTypeOK, KeepsWeight
<1>3. /\ s \in TablesType /\ s.validator[v].registered
      /\ s.validator[v].acc_per_share = t.validator[v].acc_per_share
      /\ s.validator[v].unclaimed = t.validator[v].unclaimed
      /\ \A y \in Stakers, w \in Validators : y # u \/ w # v => s.staker[y][w] = t.staker[y][w]
      /\ \A w \in Validators : w # v => s.validator[w] = t.validator[w]
  BY <1>2 DEF Moved, KeepsRow
<1>4. \A y \in Stakers, w \in Validators : Counted(s, y, w) = Counted(t, y, w)
  <2>1. SUFFICES ASSUME NEW y \in Stakers, NEW w \in Validators
                 PROVE  Counted(s, y, w) = Counted(t, y, w)
    OBVIOUS
  <2>2. /\ s.validator[w].credit_weight = t.validator[w].credit_weight
        /\ s.staker[y][w].quantity = t.staker[y][w].quantity
    BY <1>2, <1>3
  <2> QED
    BY <2>2, CountedSame
<1>5. ASSUME NEW y \in Stakers, NEW w \in Validators, y # u \/ w # v, NEW k \in RewardKinds
      PROVE  Owed(s, y, w, k) = Owed(t, y, w, k)
  <2>1. s.validator[w].acc_per_share = t.validator[w].acc_per_share
    BY <1>3
  <2> QED
    BY <1>3, <1>4, <1>5, <2>1 DEF Owed
<1>6. ASSUME NEW k \in RewardKinds
      PROVE  Surplus(s, v, k) = Surplus(t, v, k)
  <2>1. PICK e \in Nat :
          /\ s.staker[u][v].debt[k] = e /\ s.staker[u][v].unclaimed[k] = 0
          /\ s.validator[v].balance[k] =
               t.validator[v].balance[k] - (t.staker[u][v].unclaimed[k] + e - t.staker[u][v].debt[k])
    BY <1>2 DEF Paid
  <2>2. PICK z \in Nat, d \in Nat, b \in Int, c \in Nat :
          /\ z = t.staker[u][v].unclaimed[k] /\ d = t.staker[u][v].debt[k]
          /\ b = t.validator[v].balance[k] /\ c = t.validator[v].unclaimed[k]
    <3>1. t.validator[v] \in ValidatorRow
      BY <1>2, RowOfRegistered
    <3>2. t.validator[v].balance[k] \in Int /\ t.validator[v].unclaimed[k] \in Nat
      BY <3>1 DEF ValidatorRow, RewardType
    <3> QED
      BY <1>2, <3>2, DueType
  <2>3. PICK p \in Int, n \in Int : /\ p = z + e - d
                                    /\ n = Counted(t, u, v) * t.validator[v].acc_per_share[k]
    <3>1. Counted(t, u, v) \in Nat /\ t.validator[v].acc_per_share[k] \in Nat
      BY <1>2, DueType
    <3>2. \A a \in Nat, acc \in Nat : a * acc \in Int
      OBVIOUS
    <3>3. z + e - d \in Int
      OBVIOUS
    <3> QED
      BY <3>1, <3>2, <3>3
  <2>4. Left(t.validator[v], k) = b - c /\ Left(s.validator[v], k) = (b - p) - c
    BY <1>3, <2>1, <2>2, <2>3 DEF Left
  <2>5. Owed(t, u, v, k) = n + RATE_BASE * (z - d) /\ Owed(s, u, v, k) = n + RATE_BASE * (0 - e)
    BY <1>3, <1>4, <2>1, <2>2, <2>3 DEF Owed
  <2>6. RATE_BASE * (z - d) = RATE_BASE * (0 - e) + RATE_BASE * p
    BY <2>3, EndorseManageAssumption
  <2>7. RATE_BASE * (b - c) = RATE_BASE * ((b - p) - c) + RATE_BASE * p
    BY EndorseManageAssumption
  <2>8. PICK f, h : f = Owing(t, v, k) /\ h = Owing(s, v, k)
    OBVIOUS
  <2>9. /\ \A y \in Stakers : f[y] = Owed(t, y, v, k) /\ f[y] \in Int /\ h[y] = Owed(s, y, v, k) /\ h[y] \in Int
        /\ Surplus(t, v, k) = RATE_BASE * Left(t.validator[v], k) - SumFunctionOnSet(f, Stakers)
        /\ Surplus(s, v, k) = RATE_BASE * Left(s.validator[v], k) - SumFunctionOnSet(h, Stakers)
        /\ SumFunctionOnSet(f, Stakers) \in Int
    BY <1>2, <1>3, <2>8, SurplusType DEF Surplus
  <2>10. \A y \in Stakers \ {u} : h[y] = f[y]
    BY <1>5, <2>9
  <2>11. SumFunctionOnSet(h, Stakers) = SumFunctionOnSet(f, Stakers) - f[u] + h[u]
    BY <2>9, <2>10, StakersFinite, SumUpdate
  <2>12. PICK sum \in Int, fu \in Int, hu \in Int : sum = SumFunctionOnSet(f, Stakers) /\ fu = f[u] /\ hu = h[u]
    BY <2>9
  <2>13. fu - hu = RATE_BASE * p
    <3>1. RATE_BASE * (z - d) \in Int /\ RATE_BASE * (0 - e) \in Int /\ RATE_BASE * p \in Int
      BY EndorseManageAssumption
    <3>2. fu = n + RATE_BASE * (z - d) /\ hu = n + RATE_BASE * (0 - e)
      BY <2>5, <2>9, <2>12
    <3> QED
      BY <2>6, <3>1, <3>2
  <2>14. RATE_BASE * (b - c) \in Int /\ RATE_BASE * ((b - p) - c) \in Int /\ RATE_BASE * p \in Int
    BY EndorseManageAssumption
  <2>15. RATE_BASE * ((b - p) - c) - (sum - fu + hu) = RATE_BASE * (b - c) - sum
    BY <2>7, <2>13, <2>14
  <2> QED
    BY <2>4, <2>9, <2>11, <2>12, <2>15
<1>7. ASSUME NEW w \in Validators, w # v, NEW k \in RewardKinds
      PROVE  Surplus(s, w, k) = Surplus(t, w, k)
  <2>1. Owing(s, w, k) = Owing(t, w, k)
    BY <1>5, <1>7 DEF Owing
  <2>2. s.validator[w] = t.validator[w]
    BY <1>3, <1>7
  <2> QED
    BY <2>1, <2>2 DEF Surplus
<1>8. ASSUME NEW w \in Validators, t.validator[w].registered, NEW k \in RewardKinds
      PROVE  Surplus(s, w, k) >= Surplus(t, w, k) - (RATE_BASE - 1) * Cardinality(CountsChanged(t, s, w))
  <2>1. Surplus(s, w, k) = Surplus(t, w, k) /\ Surplus(t, w, k) \in Int
    BY <1>2, <1>6, <1>7, <1>8, SurplusType
  <2>2. CountsChanged(t, s, w) \in SUBSET Stakers
    BY DEF CountsChanged
  <2>3. \A x \in Int : x >= x
    OBVIOUS
  <2> QED
    BY <2>1, <2>2, <2>3, NotLess
<1>9. \A w \in Validators : /\ s.validator[w].registered = t.validator[w].registered
                            /\ ~t.validator[w].registered =>
                                 \A y \in Stakers : s.staker[y][w] = t.staker[y][w]
  <2>1. s.validator[v].registered = t.validator[v].registered
    BY <1>2 DEF Moved, KeepsRow
  <2> QED
    BY <1>2, <1>3, <2>1
<1> QED
  BY <1>1, <1>8, <1>9 DEF FundsKept

\* No stake with a validator that is not registered has earned or owes anything.
NothingElsewhere(t) ==
  \A v \in Validators : ~t.validator[v].registered =>
    \A u \in Stakers, k \in RewardKinds : t.staker[u][v].debt[k] = 0 /\ t.staker[u][v].unclaimed[k] = 0

\* A new validator starts with nothing held and nothing owed.
LEMMA NewRowKeepsFunds ==
  ASSUME NEW t \in TablesType, NothingElsewhere(t), NEW v \in Validators, NEW s,
         ~t.validator[v].registered, OneRow(t, s, v), s.validator[v] \in ValidatorRow,
         s.validator[v].acc_per_share = NoReward, s.validator[v].balance = NoReward,
         s.validator[v].unclaimed = NoReward
  PROVE  FundsKept(t, s)
<1>1. /\ s \in TablesType /\ s.staker = t.staker
      /\ \A w \in Validators : w # v => s.validator[w] = t.validator[w]
  BY DEF OneRow
<1>2. ASSUME NEW k \in RewardKinds
      PROVE  Surplus(s, v, k) = 0
  <2>1. Left(s.validator[v], k) = 0
    BY DEF Left, NoReward
  <2>2. \A u \in Stakers : Owing(s, v, k)[u] = 0
    <3>1. SUFFICES ASSUME NEW u \in Stakers
                   PROVE  Owed(s, u, v, k) = 0
      BY DEF Owing
    <3>2. PICK a \in Nat : a = Counted(s, u, v)
      BY <1>1, CountedType
    <3>3. s.staker[u][v].unclaimed[k] = 0 /\ s.staker[u][v].debt[k] = 0 /\ s.validator[v].acc_per_share[k] = 0
      BY <1>1 DEF NothingElsewhere, NoReward
    <3>4. a * 0 + RATE_BASE * (0 - 0) = 0
      BY EndorseManageAssumption
    <3> QED
      BY <3>2, <3>3, <3>4 DEF Owed
  <2>3. SumFunctionOnSet(Owing(s, v, k), Stakers) = 0 * Cardinality(Stakers) /\ Cardinality(Stakers) \in Nat
    BY <2>2, StakersFinite, SumConstant, FS_CardinalityType
  <2>4. RATE_BASE * 0 - 0 * Cardinality(Stakers) = 0
    BY <2>3, EndorseManageAssumption
  <2> QED
    BY <2>1, <2>3, <2>4 DEF Surplus
<1>3. ASSUME NEW w \in Validators, t.validator[w].registered, NEW k \in RewardKinds
      PROVE  Surplus(s, w, k) >= Surplus(t, w, k) - (RATE_BASE - 1) * Cardinality(CountsChanged(t, s, w))
  <2>1. s.validator[w] = t.validator[w]
    BY <1>1, <1>3
  <2>2. \A u \in Stakers : Counted(s, u, w) = Counted(t, u, w)
    BY <1>1, <2>1, CountedSame
  <2>3. Owing(s, w, k) = Owing(t, w, k)
    BY <1>1, <2>1, <2>2 DEF Owing, Owed
  <2>4. Surplus(s, w, k) = Surplus(t, w, k) /\ Surplus(t, w, k) \in Int
    BY <1>3, <2>1, <2>3, SurplusType DEF Surplus
  <2>5. CountsChanged(t, s, w) \in SUBSET Stakers
    BY DEF CountsChanged
  <2>6. \A x \in Int : x >= x
    OBVIOUS
  <2> QED
    BY <2>4, <2>5, <2>6, NotLess
<1>4. \A w \in Validators : t.validator[w].registered => s.validator[w].registered
  BY <1>1
<1>5. \A w \in Validators : ~t.validator[w].registered /\ w # v => ~s.validator[w].registered
  BY <1>1
<1> QED
  BY <1>1, <1>2, <1>3, <1>4, <1>5 DEF FundsKept
\* The strengthening of RewardsCovered that the steps keep.
FundsHeld ==
  /\ changes \in [Validators -> Nat]
  /\ NothingElsewhere(Tables)
  /\ \A v \in Registered, k \in RewardKinds :
       Surplus(Tables, v, k) + (RATE_BASE - 1) * changes[v] >= 0

\* At first nobody is registered.
LEMMA InitHoldsFunds ==
  ASSUME CountingInit
  PROVE  FundsHeld
<1>1. /\ validator = [v \in Validators |-> Unregistered]
      /\ staker = [u \in Stakers |-> [v \in Validators |-> NoStake]]
      /\ changes = [v \in Validators |-> 0]
  BY DEF CountingInit, StakingInit, EndorseManageInit
<1>2. Registered = {}
  BY <1>1 DEF Registered, Unregistered
<1>3. \A u \in Stakers, v \in Validators, k \in RewardKinds :
        Tables.staker[u][v].debt[k] = 0 /\ Tables.staker[u][v].unclaimed[k] = 0
  BY <1>1 DEF Tables, NoStake, NoReward
<1> QED
  BY <1>1, <1>2, <1>3 DEF FundsHeld, NothingElsewhere

\* Every step takes from the funds only what the changes it counts round down.
LEMMA StepKeepsFunds ==
  ASSUME StakingInv, OneCustodyPerValidator, StakesAddUp, NothingElsewhere(Tables),
         [StakingNext]_allStakingVars
  PROVE  FundsKept(Tables, Tables')
<1>1. EndorseManageTypeOK /\ Tables \in TablesType /\ Tables' \in TablesType /\ AddUp(Tables)
  <2>1. StakingInv'
    BY StepHolds
  <2>2. EndorseManageTypeOK /\ EndorseManageTypeOK'
    BY <2>1 DEF StakingInv, StakingTypeOK
  <2>3. EndorseManageTypeOK' => Tables' \in TablesType
    BY DEF EndorseManageTypeOK, Tables
  <2> QED
    BY <2>2, <2>3, AddUpOfTables DEF EndorseManageTypeOK
<1>2. CASE Settles(Tables, Tables')
  BY <1>1, <1>2, SettlingKeepsFunds
<1>3. ASSUME NEW u \in Stakers, NEW v \in Validators, claim(u, v)
      PROVE  FundsKept(Tables, Tables')
  BY <1>1, <1>3, ClaimKeepsFunds
<1>4. ASSUME NEW v \in Validators, NEW role \in {0, 1}, NEW a \in Addresses, NEW c \in Commissions,
             newregvldtor(v, role, a, c)
      PROVE  FundsKept(Tables, Tables')
  <2>1. PICK t, s : t = Tables /\ s = Tables'
    OBVIOUS
  <2>2. /\ ~t.validator[v].registered /\ OneRow(t, s, v) /\ s.validator[v] \in ValidatorRow
        /\ s.validator[v].acc_per_share = NoReward /\ s.validator[v].balance = NoReward
        /\ s.validator[v].unclaimed = NoReward
    BY <1>1, <1>4, <2>1, NewRow
  <2>3. t \in TablesType /\ NothingElsewhere(t)
    BY <1>1, <2>1
  <2> QED
    BY <2>1, <2>2, <2>3, NewRowKeepsFunds
<1> QED
  BY <1>2, <1>3, <1>4, StepSettles

\* The strengthening is inductive.
LEMMA StepHoldsFunds ==
  ASSUME StakingInv, OneCustodyPerValidator, StakesAddUp, FundsHeld, CountingNext
  PROVE  FundsHeld'
<1>1. PICK t, s : t = Tables /\ s = Tables'
  OBVIOUS
<1>2. /\ t \in TablesType /\ s \in TablesType /\ FundsKept(t, s) /\ NothingElsewhere(t)
      /\ changes \in [Validators -> Nat]
  <2>1. StakingInv' /\ FundsKept(Tables, Tables')
    BY StepHolds, StepKeepsFunds DEF CountingNext, FundsHeld
  <2>2. EndorseManageTypeOK /\ EndorseManageTypeOK'
    BY <2>1 DEF StakingInv, StakingTypeOK
  <2>3. EndorseManageTypeOK' => Tables' \in TablesType
    BY DEF EndorseManageTypeOK, Tables
  <2> QED
    BY <1>1, <2>1, <2>2, <2>3 DEF EndorseManageTypeOK, FundsHeld
<1>3. /\ \A v \in Validators : v \in Registered <=> t.validator[v].registered
      /\ \A v \in Validators : v \in Registered' <=> s.validator[v].registered
  BY <1>1 DEF Registered, Tables
<1>4. ASSUME NEW v \in Validators
      PROVE  /\ ChangedStakes(v) \in SUBSET Stakers
             /\ t.validator[v].registered => ChangedStakes(v) = CountsChanged(t, s, v)
  BY <1>1, <1>3 DEF ChangedStakes, CountsChanged, Counted, validator_weight, Tables
<1>5. ASSUME NEW v \in Validators
      PROVE  /\ Cardinality(ChangedStakes(v)) \in Nat
             /\ changes'[v] = changes[v] + Cardinality(ChangedStakes(v))
             /\ changes[v] \in Nat /\ changes'[v] \in Nat
  <2>1. Cardinality(ChangedStakes(v)) \in Nat
    BY <1>4, StakersFinite, FS_Subset, FS_CardinalityType
  <2>2. changes'[v] = changes[v] + Cardinality(ChangedStakes(v)) /\ changes[v] \in Nat
    BY <1>2 DEF CountingNext, CountChanges
  <2> QED
    BY <2>1, <2>2
<1>6. changes' \in [Validators -> Nat]
  <2>1. changes' = [v \in Validators |-> changes[v] + Cardinality(ChangedStakes(v))]
    BY DEF CountingNext, CountChanges
  <2>2. changes' = [v \in Validators |-> changes'[v]]
    BY <2>1
  <2> QED
    BY <1>5, <2>2
<1>7. NothingElsewhere(s)
  BY <1>2 DEF NothingElsewhere, FundsKept
<1>8. ASSUME NEW v \in Validators, s.validator[v].registered, NEW k \in RewardKinds
      PROVE  Surplus(s, v, k) + (RATE_BASE - 1) * changes'[v] >= 0
  <2>1. PICK c \in Nat, n \in Nat, m \in Nat :
          /\ c = RATE_BASE - 1 /\ n = changes[v] /\ m = Cardinality(ChangedStakes(v))
          /\ changes'[v] = n + m
    BY <1>5, EndorseManageAssumption
  <2>2. c * (n + m) = c * n + c * m /\ c * (n + m) \in Nat /\ c * n \in Nat /\ c * m \in Nat
    OBVIOUS
  <2>3. CASE t.validator[v].registered
    <3>1. Surplus(s, v, k) >= Surplus(t, v, k) - c * m
      BY <1>2, <1>4, <2>1, <2>3 DEF FundsKept
    <3>2. Surplus(t, v, k) + c * n >= 0
      BY <1>1, <1>3, <2>1, <2>3 DEF FundsHeld
    <3>3. Surplus(t, v, k) \in Int /\ Surplus(s, v, k) \in Int
      BY <1>2, <1>8, <2>3, SurplusType
    <3> QED
      BY <2>1, <2>2, <3>1, <3>2, <3>3
  <2>4. CASE ~t.validator[v].registered
    <3>1. Surplus(s, v, k) = 0
      BY <1>2, <1>8, <2>4 DEF FundsKept
    <3> QED
      BY <2>1, <2>2, <3>1
  <2> QED
    BY <2>3, <2>4
<1>9. /\ NothingElsewhere(Tables)' <=> NothingElsewhere(s)
      /\ \A v \in Validators, k \in RewardKinds : Surplus(Tables, v, k)' = Surplus(s, v, k)
  BY <1>1 DEF NothingElsewhere, Surplus, Owing, Owed, Left, Counted, validator_weight, Tables
<1>10. \A v \in Registered', k \in RewardKinds :
         Surplus(Tables, v, k)' + (RATE_BASE - 1) * changes'[v] >= 0
  <2>1. \A v \in Registered' : v \in Validators /\ s.validator[v].registered
    BY <1>3 DEF Registered
  <2> QED
    BY <1>8, <1>9, <2>1
<1> QED
  BY <1>6, <1>7, <1>9, <1>10 DEF FundsHeld

\* The funds held cover what is due, which is what is owed rounded down.
LEMMA FundsCover ==
  ASSUME EndorseManageTypeOK, FundsHeld
  PROVE  RewardsCovered
<1>1. SUFFICES ASSUME NEW v \in Registered, NEW k \in RewardKinds
               PROVE  RATE_BASE * ((validator[v].unclaimed[k] + Total([u \in Stakers |-> Due(u, v, k)]))
                                      - validator[v].balance[k])
                        <= (RATE_BASE - 1) * changes[v]
  BY DEF RewardsCovered
<1>2. PICK t \in TablesType : t = Tables
  BY DEF EndorseManageTypeOK
<1>3. /\ v \in Validators /\ t.validator[v].registered /\ t.validator[v] = validator[v]
      /\ \A u \in Stakers : Due(u, v, k) = DueOf(t, u, v, k)
  BY <1>2 DEF Registered, Due, Pending, DueOf, Tables
<1>4. PICK f, g : f = [u \in Stakers |-> Due(u, v, k)] /\ g = Owing(t, v, k)
  OBVIOUS
<1>5. \A u \in Stakers : f[u] \in Int /\ g[u] \in Int /\ RATE_BASE * f[u] <= g[u]
  <2>1. ASSUME NEW u \in Stakers
        PROVE  f[u] \in Int /\ g[u] \in Int /\ RATE_BASE * f[u] <= g[u]
    <3>1. f[u] = DueOf(t, u, v, k) /\ DueOf(t, u, v, k) \in Int
      BY <1>3, <1>4, DueType
    <3>2. g[u] = Owed(t, u, v, k) /\ g[u] \in Int
      BY <1>3, <1>4, SurplusType
    <3> QED
      BY <1>3, <3>1, <3>2, OwedType
  <2> QED
    BY <2>1
<1>6. PICK x \in Int, y \in Int : x = SumFunctionOnSet(f, Stakers) /\ y = SumFunctionOnSet(g, Stakers)
  BY <1>5, StakersFinite, SumType
<1>7. RATE_BASE * x <= y
  <2>1. \A u \in Stakers : f[u] \in Int /\ g[u] \in Int /\ RATE_BASE * f[u] <= 1 * g[u]
    BY <1>5
  <2>2. PICK d \in Nat, c \in Nat : d = RATE_BASE /\ c = 1
    BY EndorseManageAssumption
  <2>3. d * SumFunctionOnSet(f, Stakers) <= c * SumFunctionOnSet(g, Stakers)
    BY <2>1, <2>2, StakersFinite, SumScaled
  <2> QED
    BY <1>6, <2>2, <2>3
<1>8. Total([u \in Stakers |-> Due(u, v, k)]) = x
  <2>1. DOMAIN f = Stakers
    BY <1>4
  <2> QED
    BY <1>4, <1>6, <2>1 DEF Total, SumFunction
<1>9. PICK b \in Int, z \in Nat, n \in Nat :
        b = validator[v].balance[k] /\ z = validator[v].unclaimed[k] /\ n = changes[v]
  <2>1. t.validator[v] \in ValidatorRow
    BY <1>3, RowOfRegistered
  <2>2. t.validator[v].balance[k] \in Int /\ t.validator[v].unclaimed[k] \in Nat
    BY <2>1 DEF ValidatorRow, RewardType
  <2>3. changes[v] \in Nat
    BY <1>3 DEF FundsHeld
  <2> QED
    BY <1>3, <2>2, <2>3
<1>10. (RATE_BASE * (b - z) - y) + (RATE_BASE - 1) * n >= 0
  <2>1. Surplus(t, v, k) + (RATE_BASE - 1) * changes[v] >= 0
    BY <1>2 DEF FundsHeld
  <2>2. Surplus(t, v, k) = RATE_BASE * (b - z) - y
    BY <1>3, <1>4, <1>6, <1>9 DEF Surplus, Left
  <2> QED
    BY <1>9, <2>1, <2>2
<1>11. RATE_BASE * ((z + x) - b) <= (RATE_BASE - 1) * n
  <2>1. RATE_BASE * ((z + x) - b) = RATE_BASE * x - RATE_BASE * (b - z)
    BY EndorseManageAssumption
  <2>2. /\ RATE_BASE * ((z + x) - b) \in Int /\ RATE_BASE * x \in Int /\ RATE_BASE * (b - z) \in Int
        /\ (RATE_BASE - 1) * n \in Int
    BY EndorseManageAssumption
  <2> QED
    BY <1>7, <1>10, <2>1, <2>2
<1> QED
  BY <1>8, <1>9, <1>11

\* Where a validator has one custody at most, and no administrator drops native
\* stakes from its sums, what is held for a validator covers what it and all its
\* stakers may claim but for less than a unit per change of a stake: whatever
\* weights, commissions and claims there are, nobody is paid from what others
\* have earned.
THEOREM RewardsStayCovered ==
  CountingSpec /\ []OneCustodyPerValidator /\ [][SumsWithoutNativeStakes]_allStakingVars => []RewardsCovered
<1>1. CountingInit => StakingInit
  BY DEF CountingInit
<1>2. [CountingNext]_historyVars => [StakingNext]_allStakingVars
  BY DEF CountingNext, historyVars
<1>3. CountingInit => FundsHeld
  BY InitHoldsFunds
<1>4. StakingInv /\ OneCustodyPerValidator /\ StakesAddUp /\ FundsHeld /\ [CountingNext]_historyVars => FundsHeld'
  <2>1. ASSUME UNCHANGED historyVars, FundsHeld
        PROVE  FundsHeld'
    <3>1. validator' = validator /\ staker' = staker /\ stat' = stat /\ changes' = changes
      BY <2>1 DEF historyVars, allStakingVars, endorseManageVars, tableVars
    <3> QED
      BY <2>1, <3>1 DEF FundsHeld, NothingElsewhere, Registered, Surplus, Owing, Owed, Left, Counted,
                        validator_weight, Tables
  <2> QED
    BY <2>1, StepHoldsFunds
<1>5. StakingInv /\ FundsHeld => RewardsCovered
  BY FundsCover DEF StakingInv, StakingTypeOK
<1> QED
  BY <1>1, <1>2, <1>3, <1>4, <1>5, StakingInvariant, StakesStayAddedUp, PTL DEF CountingSpec, StakingSpec
=============================================================================
