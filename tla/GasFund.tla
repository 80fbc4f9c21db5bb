------------------------------ MODULE GasFund ------------------------------
(***************************************************************************)
(* gasfund.xsat: the fees counted by rescmng.xsat are collected for a      *)
(* window of irreversible heights and shared among those who were rewarded *)
(* at these heights, by the logs of rwddist.xsat.  The fees of the EVM     *)
(* arrive as one transfer and are shared by the rewards accumulated since  *)
(* the transfer before.                                                    *)
(***************************************************************************)
EXTENDS PoolRegister, RewardDistribution

CONSTANTS
  ReceiverOrder,   \* the validators by name, then the synchronizers by name
  Masked,          \* of each synchronizer, its name with the bit of XSAT_SCOPE_MASK set
  GasConfigs,      \* what config may save
  RATE_BASE_10000

Validator(v) == <<"validator", v>>
Synchronizer(s) == <<"synchronizer", s>>
Receivers == {Validator(v) : v \in Validators} \cup {Synchronizer(s) : s \in Pools}

\* get_receiver_id: what the rows of both tables are found by.  Nothing keeps the
\* ids of two receivers apart: one name may have the bit, another may be the same
\* but for it, or one account both roles.  Their rewards and fees share a row.
receiver_id(r) == IF r[1] = "validator" THEN r[2] ELSE Masked[r[2]]
ReceiverIds == {receiver_id(r) : r \in Receivers}
Sharing(id) == {r \in Receivers : receiver_id(r) = id}
ById(f, id) == Sum(Restrict(f, Sharing(id)))

ASSUME GasFundAssumption ==
  /\ ReceiverOrder \in Seq(Receivers) /\ IsInjective(ReceiverOrder) /\ Range(ReceiverOrder) = Receivers
  /\ \A i, j \in DOMAIN ReceiverOrder :
       ReceiverOrder[i][1] = "synchronizer" /\ ReceiverOrder[j][1] = "validator" => j < i
  /\ RATE_BASE_10000 \in Nat \ {0}
  /\ \A c \in GasConfigs :
       /\ c \in [start : Nat, min_interval : Nat, max_interval : Nat, enf_rate : Nat, rams_rate : Nat]
       /\ 0 < c.min_interval /\ c.min_interval <= c.max_interval
       /\ c.enf_rate + c.rams_rate <= RATE_BASE_10000

VARIABLES
  irreversible_height,  \* of utxomng.xsat
  reward_logs,          \* of each height that has them: the two logs of rwddist.xsat
  gas_config,
  fees_stat,            \* last_height, last_evm_height and the three unclaimed sums
  distributes,          \* the record of each EVM window, by its start height
  details,              \* its rows in order: an id of receivers and their rewards
  consensus_fees        \* what may be claimed, by id of receivers

gasVars == <<gas_config, fees_stat, distributes, details, consensus_fees>>
fundVars == <<gasVars, resourceVars, poolVars>>

-----------------------------------------------------------------------------
(***************************************************************************)
(* calculate_reward: the reward of each receiver at a height.  The BTC     *)
(* validators share the staking and the consensus part by stake, the XSAT  *)
(* validators their part evenly, the last of a list takes the rest.        *)
(***************************************************************************)
BtcReward(log) == log.staking + log.consensus
BtcPart(log, i) == (BtcReward(log) * Staking[log.providers[i]]) \div EndorsedStaking(log)

\* The parts of the providers, but for the last of the list, and what is left for it.
Divided(parts, total) ==
  LET n == Len(parts) IN
  [i \in 1..n |-> IF i < n THEN parts[i] ELSE total - Sum([j \in 1..(n - 1) |-> parts[j]])]

BtcRewards(log) ==
  IF log.staking = 0 THEN << >>
    ELSE Divided([i \in 1..Len(log.providers) |-> BtcPart(log, i)], BtcReward(log))
XsatRewards(log) ==
  Divided([i \in 1..Len(log.providers) |-> log.consensus \div Len(log.providers)], log.consensus)

OfValidator(log, parts, v) == Sum(Restrict(parts, {i \in DOMAIN parts : log.providers[i] = v}))

\* Mutant: the XSAT validators are not looked at.
RewardOf_BtcOnly(h, r) ==
  LET logs == reward_logs[h] IN
  IF r[1] = "validator" THEN OfValidator(logs.btc, BtcRewards(logs.btc), r[2])
    ELSE IF r[2] = logs.synchronizer THEN logs.btc.synchronizer ELSE 0

RewardOf(h, r) ==
  LET logs == reward_logs[h] IN
  IF r[1] = "validator"
    THEN OfValidator(logs.btc, BtcRewards(logs.btc), r[2])
           + OfValidator(logs.xsat, XsatRewards(logs.xsat), r[2])
    ELSE IF r[2] = logs.synchronizer THEN logs.btc.synchronizer ELSE 0

\* total_rewards leaves the consensus part of the BTC validators out.
TotalReward(h) ==
  reward_logs[h].btc.synchronizer + reward_logs[h].btc.staking + reward_logs[h].xsat.consensus

-----------------------------------------------------------------------------
safe_pct(value, numerator, denominator) == (value * numerator) \div denominator

EnfPart(fees) == safe_pct(fees, gas_config.enf_rate, RATE_BASE_10000)
RamsPart(fees) == safe_pct(fees, gas_config.rams_rate, RATE_BASE_10000)
ConsensusPart(fees) == fees - EnfPart(fees) - RamsPart(fees)

WindowStart == IF fees_stat.last_height > 0 THEN fees_stat.last_height ELSE gas_config.start
EvmStart == IF fees_stat.last_evm_height > 0 THEN fees_stat.last_evm_height ELSE gas_config.start
Window ==
  (WindowStart + 1)..Min({irreversible_height, WindowStart + gas_config.max_interval})

\* The k-th element of a set of naturals.
Ranked(S, k) == CHOOSE i \in S : Cardinality({j \in S : j < i}) = k - 1

\* Rewards added to the rows of the EVM window: new rows by name, validators first,
\* and one for receivers of the same id.
DetailRow(rows, id) == {i \in DOMAIN rows : rows[i].receiver = id}
Accumulated(rows, reward) ==
  LET id(i) == receiver_id(ReceiverOrder[i])
      new == {i \in DOMAIN ReceiverOrder :
                /\ reward[ReceiverOrder[i]] > 0 /\ DetailRow(rows, id(i)) = {}
                /\ \A j \in 1..(i - 1) : reward[ReceiverOrder[j]] > 0 => id(j) # id(i)}
      added(k) == id(Ranked(new, k)) IN
  [i \in DOMAIN rows |-> [rows[i] EXCEPT !.reward = @ + ById(reward, rows[i].receiver)]]
    \o [k \in 1..Cardinality(new) |-> [receiver |-> added(k), reward |-> ById(reward, added(k))]]

\* The fees C shared by rewards: a proportional part for each receiver, and for
\* the last validator by name what is left, if there is anything left after the
\* synchronizers.
Proportion(C, reward, total, r) == safe_pct(C, reward[r], total)

\* Mutant: the last validator takes its part and the remainder is nobody's.
ConsensusShares_NoRemainder(C, reward, total) ==
  [r \in Receivers |-> Proportion(C, reward, total, r)]

ConsensusShares(C, reward, total) ==
  LET rewarded == {i \in DOMAIN ReceiverOrder :
                     ReceiverOrder[i][1] = "validator" /\ reward[ReceiverOrder[i]] > 0}
      last == ReceiverOrder[Max(rewarded)]
      part(r) == Proportion(C, reward, total, r)
      remaining == C - Sum([r \in {r \in Receivers : r[1] = "synchronizer"} |-> part(r)]) IN
  [r \in Receivers |->
     IF r[1] = "synchronizer" THEN part(r)
     ELSE IF rewarded = {} \/ remaining <= 0 THEN 0
     ELSE IF r = last THEN remaining - Sum([q \in {ReceiverOrder[i] : i \in rewarded} \ {last} |-> part(q)])
     ELSE part(r)]

\* Rows are added for those who get anything.
Credited(fees, share) ==
  [id \in DOMAIN fees \cup {receiver_id(r) : r \in {r \in Receivers : share[r] # 0}} |->
     Row(fees, id, 0) + ById(share, id)]

RecordKey == EvmStart

\* The three unclaimed sums after the fees of some heights, or one transfer, came in.
Collected(stat, enf, rams, consensus) ==
  [stat EXCEPT !.enf_unclaimed = @ + enf, !.rams_unclaimed = @ + rams,
               !.consensus_unclaimed = @ + consensus]

\* distribute: anyone may call it.  Without a reward in the window only the
\* record is written, and the window stays open.
distribute ==
  LET heights == Window
      reward == [r \in Receivers |-> Sum([h \in heights |-> RewardOf(h, r)])]
      total == Sum([h \in heights |-> TotalReward(h)])
      fees == Sum(Restrict(feestat, heights))
      consensus == Sum([h \in heights |-> ConsensusPart(feestat[h])])
      key == RecordKey IN
  /\ irreversible_height >= gas_config.start
  /\ irreversible_height >= WindowStart + gas_config.min_interval
  /\ heights \subseteq DOMAIN feestat \cap DOMAIN reward_logs
  /\ distributes' = Put(distributes, key, [Row(distributes, key, [total_rewards |-> 0, end_height |-> 0])
                                             EXCEPT !.total_rewards = @ + total])
  /\ IF total = 0 THEN UNCHANGED <<details, consensus_fees, fees_stat, btc>>
       ELSE /\ 0 < fees /\ fees <= btc.fees
            /\ btc' = Move("fees", "gasfund", fees)
            /\ details' = Put(details, key, Accumulated(Row(details, key, << >>), reward))
            /\ consensus_fees' = Credited(consensus_fees, ConsensusShares(consensus, reward, total))
            /\ fees_stat' = [Collected(fees_stat, Sum([h \in heights |-> EnfPart(feestat[h])]),
                                       Sum([h \in heights |-> RamsPart(feestat[h])]), consensus)
                               EXCEPT !.last_height = Max(heights)]
  /\ UNCHANGED <<gas_config, resource_config, account, feestat, poolVars, reward_logs>>

\* The shares of an EVM transfer: a proportional part for each row in turn while
\* anything is left, and the rest for the last row.
EvmShares(C, rows, total) ==
  LET part == [i \in DOMAIN rows |-> safe_pct(C, rows[i].reward, total)]
      left == [i \in DOMAIN rows |-> Max({0, C - Sum([j \in 1..(i - 1) |-> part[j]])})]
      share == [i \in DOMAIN rows |-> IF i = Len(rows) THEN left[i] ELSE Min({part[i], left[i]})] IN
  [id \in {rows[i].receiver : i \in DOMAIN rows} |-> share[CHOOSE i \in DOMAIN rows : rows[i].receiver = id]]

\* on_transfer: a transfer of the EVM fees account with the memo of the fund.
handle_evm_fees_transfer(quantity) ==
  LET key == EvmStart
      C == ConsensusPart(quantity)
      share == EvmShares(C, details[key], distributes[key].total_rewards) IN
  /\ fees_stat.last_height > fees_stat.last_evm_height
  /\ key \in DOMAIN distributes /\ Row(details, key, << >>) # << >>
  /\ consensus_fees' = [id \in DOMAIN consensus_fees \cup DOMAIN share |->
                          Row(consensus_fees, id, 0) + Row(share, id, 0)]
  /\ distributes' = [distributes EXCEPT ![key].end_height = fees_stat.last_height]
  /\ fees_stat' = [Collected(fees_stat, EnfPart(quantity), RamsPart(quantity), C)
                     EXCEPT !.last_evm_height = fees_stat.last_height]
  /\ btc' = [btc EXCEPT !.gasfund = @ + quantity]
  /\ UNCHANGED <<gas_config, details, resource_config, account, feestat, poolVars, reward_logs>>

-----------------------------------------------------------------------------
\* claim and evmclaim.  The row of a validator is never deleted, that of a
\* synchronizer may be.  A row that is shared is paid to whoever claims it.
receiver_claim(r) ==
  LET id == receiver_id(r)
      unclaimed == consensus_fees[id] IN
  /\ id \in DOMAIN consensus_fees /\ unclaimed > 0
  /\ r[1] = "synchronizer" => r[2] \in DOMAIN pool
  /\ fees_stat.consensus_unclaimed >= unclaimed /\ btc.gasfund >= unclaimed
  /\ btc' = [btc EXCEPT !.gasfund = @ - unclaimed]
  /\ consensus_fees' = [consensus_fees EXCEPT ![id] = 0]
  /\ fees_stat' = [fees_stat EXCEPT !.consensus_unclaimed = @ - unclaimed]
  /\ UNCHANGED <<gas_config, distributes, details, resource_config, account, feestat, poolVars, reward_logs>>

enfclaim ==
  /\ 0 < fees_stat.enf_unclaimed /\ fees_stat.enf_unclaimed <= btc.gasfund
  /\ btc' = [btc EXCEPT !.gasfund = @ - fees_stat.enf_unclaimed]
  /\ fees_stat' = [fees_stat EXCEPT !.enf_unclaimed = 0]
  /\ UNCHANGED <<gas_config, distributes, details, consensus_fees, resource_config, account, feestat,
                 poolVars, reward_logs>>

ramsclaim ==
  /\ 0 < fees_stat.rams_unclaimed /\ fees_stat.rams_unclaimed <= btc.gasfund
  /\ btc' = [btc EXCEPT !.gasfund = @ - fees_stat.rams_unclaimed]
  /\ fees_stat' = [fees_stat EXCEPT !.rams_unclaimed = 0]
  /\ UNCHANGED <<gas_config, distributes, details, consensus_fees, resource_config, account, feestat,
                 poolVars, reward_logs>>

\* config
SaveConfig(c) ==
  /\ gas_config' = c
  /\ UNCHANGED <<fees_stat, distributes, details, consensus_fees, resourceVars, poolVars, reward_logs>>

\* deldistribut: the loop steps on from a row it has erased, so that it may end
\* there or abort; rows it leaves are not read again.
deldistribut(start_height) ==
  /\ start_height < fees_stat.last_evm_height
  /\ start_height \in DOMAIN distributes
  /\ distributes' = Drop(distributes, {start_height})
  /\ \E left \in {<< >>, Tail(Row(details, start_height, <<0>>))} :
       details' = IF left = << >> THEN Drop(details, {start_height})
                    ELSE [details EXCEPT ![start_height] = left]
  /\ UNCHANGED <<gas_config, fees_stat, consensus_fees, resourceVars, poolVars, reward_logs>>

\* Mutant: logs go as soon as their height is irreversible.
MayDeleteLogs_Irreversible(end_height) == irreversible_height >= end_height
MayDeleteLogs(end_height) == fees_stat.last_height >= end_height

\* delrewardlog of rwddist.xsat.  The XSAT logs stay in their table, where
\* nothing looks for them without the BTC log of the height.
delrewardlog(start_height, end_height) ==
  /\ start_height <= end_height /\ MayDeleteLogs(end_height)
  /\ reward_logs' = Drop(reward_logs, start_height..end_height)
  /\ UNCHANGED fundVars

GasInit ==
  /\ reward_logs = << >>
  /\ gas_config \in GasConfigs
  /\ fees_stat = [last_height |-> 0, last_evm_height |-> 0,
                  enf_unclaimed |-> 0, rams_unclaimed |-> 0, consensus_unclaimed |-> 0]
  /\ distributes = << >> /\ details = << >> /\ consensus_fees = << >>

\* Q: the sums the EVM transfers.
GasNext(Q) ==
  \/ distribute \/ enfclaim \/ ramsclaim
  \/ \E q \in Q : handle_evm_fees_transfer(q)
  \/ \E r \in Receivers : receiver_claim(r)
  \/ \E c \in GasConfigs : SaveConfig(c)
  \/ \E h \in DOMAIN distributes : deldistribut(h)
  \/ \E a, b \in DOMAIN reward_logs : delrewardlog(a, b)

-----------------------------------------------------------------------------
RewardLogs == [btc : LogType, xsat : LogType, synchronizer : Pools]

GasTypeOK ==
  /\ irreversible_height \in Nat
  /\ reward_logs \in [DOMAIN reward_logs -> RewardLogs] /\ DOMAIN reward_logs \subseteq Nat
  /\ gas_config \in GasConfigs
  /\ fees_stat \in [last_height : Nat, last_evm_height : Nat,
                    enf_unclaimed : Nat, rams_unclaimed : Nat, consensus_unclaimed : Nat]
  /\ distributes \in [DOMAIN distributes -> [total_rewards : Nat, end_height : Nat]]
  /\ details \in [DOMAIN details -> Seq([receiver : ReceiverIds, reward : Nat])]
  /\ consensus_fees \in [DOMAIN consensus_fees -> Int] /\ DOMAIN consensus_fees \subseteq ReceiverIds

\* Every BTC paid, deposited or shared is where it is counted.  rescmng.xsat
\* holds the prepaid balances; the fee account still holds the fees of all
\* heights that were not shared, whatever was paid late or for slots; the fund
\* holds what may be claimed, and each unit of the validators' and
\* synchronizers' part belongs to a row.
FeesAreHeld ==
  LET toShare == {h \in DOMAIN feestat : h > WindowStart} IN
  /\ btc.rescmng = Sum(account)
  /\ btc.fees >= Sum(Restrict(feestat, toShare))
  /\ btc.gasfund = fees_stat.enf_unclaimed + fees_stat.rams_unclaimed + fees_stat.consensus_unclaimed
  /\ fees_stat.consensus_unclaimed = Sum(consensus_fees)
=============================================================================
