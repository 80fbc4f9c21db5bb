----------------------------- MODULE ExsatFees -----------------------------
(***************************************************************************)
(* Rewards and fees together.  utxomng.xsat migrates the next height:      *)
(* rwddist.xsat divides and pays its subsidy, the last batch transfers the *)
(* synchronizer reward to the pool of the parser, and the height becomes   *)
(* irreversible with its logs, by which gasfund.xsat shares the fees that  *)
(* rescmng.xsat charged for the height.                                    *)
(***************************************************************************)
EXTENDS GasFund

CONSTANTS InitialHeight, MaxHeight   \* MaxHeight is a bound

ASSUME FeesAssumption == InitialHeight \in Nat /\ MaxHeight \in Nat

VARIABLES
  migrating,   \* synchronizer and parser of the block being rewarded, as in chainstate
  received     \* history: what rwddist.xsat paid each validator, by height

feesVars == <<allRewardVars, fundVars, irreversible_height, reward_logs, migrating, received>>

NextHeight == irreversible_height + 1

\* Each endorsement was charged, so that the height has a row of fees.
StartBlock(L) ==
  /\ NextHeight <= MaxHeight
  /\ NextHeight \in DOMAIN feestat
  /\ StartRewardOf(L)
  /\ \E s, p \in Pools : migrating' = [synchronizer |-> s, parser |-> p]
  /\ UNCHANGED <<fundVars, irreversible_height, reward_logs, received>>

\* The batch that completes the BTC log carries the synchronizer reward.
RewardBatch ==
  /\ Batch
  /\ IF synchronizer_paid' > synchronizer_paid
       THEN RewardPool(migrating.parser, NextHeight, reward_log["btc"].synchronizer)
       ELSE UNCHANGED poolVars
  /\ IF distributing' THEN UNCHANGED <<irreversible_height, reward_logs, received>>
       ELSE /\ irreversible_height' = NextHeight
            /\ reward_logs' = Put(reward_logs, NextHeight,
                                  [btc |-> reward_log["btc"], xsat |-> reward_log["xsat"],
                                   synchronizer |-> migrating.synchronizer])
            /\ received' = Put(received, NextHeight,
                               [v \in Validators |-> paid'["btc"][v] + paid'["xsat"][v]])
  /\ UNCHANGED <<gasVars, resourceVars, migrating>>

\* H are the heights fees are charged for, Q the sums of the EVM.
FeesStep(L, H, Q) ==
  \/ StartBlock(L)
  \/ RewardBatch
  \/ /\ \/ ResourceNext(H) /\ UNCHANGED <<poolVars, gasVars, reward_logs>>
        \/ PoolNext(H) /\ UNCHANGED <<resourceVars, gasVars, reward_logs>>
        \/ /\ \E s, t \in Pools : buyslot(s, t, 1)
           /\ UNCHANGED <<resource_config, gasVars, reward_logs>>
        \/ GasNext(Q)
     /\ UNCHANGED <<allRewardVars, irreversible_height, migrating, received>>

FeesInit ==
  /\ RewardInit /\ ResourceInit /\ PoolInit /\ GasInit
  /\ irreversible_height = InitialHeight
  /\ migrating \in [synchronizer : Pools, parser : Pools]
  /\ received = << >>

FeesSpec == FeesInit /\ [][FeesStep(ProviderLists, 1..MaxHeight, Deposits)]_feesVars

-----------------------------------------------------------------------------
FeesTypeOK ==
  /\ RewardTypeOK /\ ResourceTypeOK /\ PoolTypeOK /\ GasTypeOK
  /\ migrating \in [synchronizer : Pools, parser : Pools]
  /\ received \in [DOMAIN received -> [Validators -> Nat]] /\ DOMAIN received \subseteq Nat

\* What the heights brought a receiver: to a validator what rwddist.xsat paid it, to
\* a synchronizer the reward that the logs name it for.
ReceivedIn(heights, v) == Sum([h \in heights |-> received[h][v]])
SynchronizedIn(heights, s) ==
  Sum([h \in {h \in heights : reward_logs[h].synchronizer = s} |-> reward_logs[h].btc.synchronizer])
RewardedIn(heights) ==
  [r \in Receivers |-> IF r[1] = "validator" THEN ReceivedIn(heights, r[2]) ELSE SynchronizedIn(heights, r[2])]

\* Logs without a BTC consensus part, as they are since XSAT rewards are active.
SinceXsat(heights) ==
  \A h \in heights : h \in DOMAIN reward_logs /\ reward_logs[h].btc.consensus = 0

\* Fees follow the rewards: a distribution credits each row with the parts of the
\* receivers that share it, in proportion to what rwddist.xsat paid for the heights
\* of the window, though gasfund.xsat divides the logged rewards anew; only
\* remainders go to the last validator.
FeesFollowRewards ==
  [][LET heights == (WindowStart + 1)..fees_stat'.last_height
         total == Sum([h \in heights |-> TotalReward(h)])
         C == Sum([h \in heights |-> ConsensusPart(feestat[h])]) IN
     fees_stat'.last_height # fees_stat.last_height /\ SinceXsat(heights) =>
       \A id \in ReceiverIds :
         Row(consensus_fees', id, 0) - Row(consensus_fees, id, 0)
           - Sum([r \in Sharing(id) |-> Proportion(C, RewardedIn(heights), total, r)])
         \in 0..Cardinality(Receivers)]_feesVars

\* No share waits for what is gone: each irreversible height that was not shared
\* has its fees and its logs, and while fees of the EVM may come in, the record
\* of the window is there, with a row for all that was received since the transfer
\* before by those who share it.
FeesCanBeShared ==
  LET evm == (EvmStart + 1)..fees_stat.last_height
      rows == Row(details, EvmStart, << >>) IN
  /\ (WindowStart + 1)..irreversible_height \subseteq DOMAIN feestat \cap DOMAIN reward_logs
  /\ fees_stat.last_height > fees_stat.last_evm_height =>
       /\ EvmStart \in DOMAIN distributes /\ rows # << >>
       /\ SinceXsat(evm) => \A id \in ReceiverIds :
            ById(RewardedIn(evm), id) = Sum([i \in DetailRow(rows, id) |-> rows[i].reward])
=============================================================================
