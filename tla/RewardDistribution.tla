------------------------ MODULE RewardDistribution ------------------------
(***************************************************************************)
(* rwddist.xsat: the subsidy of a migrated block is issued and divided     *)
(* (distribute), then paid in batches to the BTC and the XSAT validators   *)
(* that endorsed it (endtreward, endtreward2).  The batches are cut by     *)
(* utxomng.xsat, whose three chainstate fields are variables here; the     *)
(* module is instanced over those of UtxoManage.                           *)
(***************************************************************************)
EXTENDS Integers, Sequences, FiniteSetsExt, Functions

CONSTANTS
  RewardScopes,   \* {"btc", "xsat"}: the two reward logs
  Validators,
  Staking,        \* Staking[v]: the stake written into the endorsement of v
  Subsidies,      \* values of nSubsidy
  Rates,          \* the rates of a reward version: synchronizer, btc, xsat
  RATE_BASE,
  num_validators_per_distribution

ASSUME RewardAssumption ==
  /\ RewardScopes = {"btc", "xsat"}
  /\ Staking \in [Validators -> Nat \ {0}]
  /\ Subsidies \subseteq Nat
  /\ RATE_BASE \in Nat \ {0}
  /\ \A r \in Rates : /\ r \in [synchronizer : Nat, btc : Nat, xsat : Nat]
                      /\ r.synchronizer + r.btc + r.xsat <= RATE_BASE
  /\ num_validators_per_distribution \in Nat \ {0}
  /\ IsFiniteSet(Validators)

VARIABLES
  reward_log,        \* the log of the current height, by scope
  reward_balance,    \* rewardbal, by scope
  issued,            \* XSAT issued for the current height
  paid,              \* endrmng.xsat: what each validator received, by scope
  synchronizer_paid, \* how often the synchronizer reward was transferred
  num_provider_validators, num_validators_assigned,  \* chainstate of utxomng.xsat
  distributing       \* the height has been migrated and is being rewarded

rewardVars == <<reward_log, reward_balance, issued, paid, synchronizer_paid>>
callerVars == <<num_provider_validators, num_validators_assigned, distributing>>

NoLog == [providers |-> << >>, consensus |-> 0, staking |-> 0, synchronizer |-> 0, assigned |-> 0]
LogExists(s) == reward_log[s].providers # << >>

\* The sum of the values of a function.
Sum(f) == SumFunction(f)
EndorsedStaking(log) == Sum([i \in DOMAIN log.providers |-> Staking[log.providers[i]]])

-----------------------------------------------------------------------------
(***************************************************************************)
(* distribute: the subsidy n is divided by the rates r, the rest being the *)
(* staking reward of the BTC validators.  btc and xsat are the providers   *)
(* of the block in the order they endorsed; without an XSAT endorsement    *)
(* the XSAT part stays in the contract.                                    *)
(***************************************************************************)
Part(n, rate) == (n * rate) \div RATE_BASE

Distribute(n, r, btc, xsat, xsat_reward_active) ==
  LET sync == Part(n, r.synchronizer)
      xsatPart == IF xsat_reward_active THEN Part(n, r.xsat) ELSE 0
      logged == xsat_reward_active /\ xsatPart > 0 /\ xsat # << >>
      btcLog == [providers |-> btc, consensus |-> Part(n, r.btc),
                 staking |-> n - sync - Part(n, r.btc) - xsatPart,
                 synchronizer |-> sync, assigned |-> 0]
      xsatLog == [NoLog EXCEPT !.providers = xsat, !.consensus = xsatPart] IN
  /\ btc # << >>
  /\ issued' = n
  /\ reward_log' = [s \in RewardScopes |->
       IF s = "btc" THEN btcLog ELSE IF logged THEN xsatLog ELSE NoLog]
  /\ reward_balance' = [s \in RewardScopes |->
       IF s = "xsat" /\ ~logged THEN reward_balance[s]
         ELSE [consensus |-> reward_log'[s].consensus, staking |-> reward_log'[s].staking,
               synchronizer |-> reward_log'[s].synchronizer]]
  /\ paid' = [s \in RewardScopes |-> [v \in Validators |-> 0]]
  /\ synchronizer_paid' = 0

(***************************************************************************)
(* endtreward_per_symbol for the slice from..to-1 of the providers.  It    *)
(* returns without effect when the slice does not continue the log, and    *)
(* aborts when nothing is to be paid: a transfer must be positive and the  *)
(* list sent to endrmng.xsat::distribute not empty.                        *)
(***************************************************************************)
Returns(log, from, to) ==
  \/ log.assigned > Len(log.providers)
  \/ from # log.assigned
  \/ to < from

StakingShare(log, i) == (log.staking * Staking[log.providers[i]]) \div EndorsedStaking(log)
StakingShares(log, T) == Sum([i \in T |-> StakingShare(log, i)])
ConsensusShare(log) == log.consensus \div Len(log.providers)

\* Mutant: the last provider receives its share and the remainder is lost.
Shares_NoRemainder(log, balance, slice) ==
  [i \in slice |-> StakingShare(log, i) + ConsensusShare(log)]

\* Mutant: the consensus reward left is divided within the slice.
Shares_OfSlice(log, balance, slice) ==
  [i \in slice |-> StakingShare(log, i) + balance.consensus \div Cardinality(slice)]

\* What each provider of a slice receives: its two shares, or for the last of
\* the list what is left of the balance.
Shares(log, balance, slice) ==
  LET last == Len(log.providers)
      left == balance.staking + balance.consensus
                - Sum([i \in slice \ {last} |-> StakingShare(log, i) + ConsensusShare(log)]) IN
  [i \in slice |-> IF i = last THEN left ELSE StakingShare(log, i) + ConsensusShare(log)]

EndTReward(s, from, to) ==
  LET log == reward_log[s]
      balance == reward_balance[s]
      last == Len(log.providers)
      limited == Min({to, last})
      slice == (from + 1)..limited
      share == Shares(log, balance, slice)
      complete == limited = last
      unclaimed == [consensus |-> balance.consensus - ConsensusShare(log) * Cardinality(slice),
                    staking |-> balance.staking - StakingShares(log, slice),
                    synchronizer |-> balance.synchronizer] IN
  IF Returns(log, from, to)
    THEN [ok |-> TRUE, log |-> log, balance |-> balance, paid |-> paid[s], sync |-> 0]
    ELSE [ok |-> slice # {} /\ Sum(share) > 0,
          log |-> [log EXCEPT !.assigned = limited],
          balance |-> IF complete THEN [consensus |-> 0, staking |-> 0, synchronizer |-> 0]
                                  ELSE unclaimed,
          paid |-> [v \in Validators |->
             paid[s][v] + Sum(Restrict(share, {i \in slice : log.providers[i] = v}))],
          sync |-> IF complete /\ log.synchronizer > 0 THEN 1 ELSE 0]

\* endtreward, and endtreward2 when XSAT rewards are active at the height and
\* its log exists, in one transaction: if one aborts nothing happens.
EndTRewards(from, to, xsat_reward_active) ==
  LET called == {"btc"} \cup (IF xsat_reward_active /\ LogExists("xsat") THEN {"xsat"} ELSE {})
      result == [s \in called |-> EndTReward(s, from, to)] IN
  /\ \A s \in called : result[s].ok
  /\ reward_log' = [s \in RewardScopes |-> IF s \in called THEN result[s].log ELSE reward_log[s]]
  /\ reward_balance' = [s \in RewardScopes |->
                          IF s \in called THEN result[s].balance ELSE reward_balance[s]]
  /\ paid' = [s \in RewardScopes |-> IF s \in called THEN result[s].paid ELSE paid[s]]
  /\ synchronizer_paid' = synchronizer_paid + Sum([s \in called |-> result[s].sync])
  /\ UNCHANGED issued

-----------------------------------------------------------------------------
(***************************************************************************)
(* The caller: utxomng.xsat starts the distribution when it starts to      *)
(* migrate and cuts the batches.  The number of providers was taken from   *)
(* the longer list if XSAT rewards were active at the head height, which   *)
(* they are whenever they are active at the lower migrated height.         *)
(***************************************************************************)
VARIABLES active_here   \* XSAT rewards are active at the migrated height

Orders(S) == {f \in [1..Cardinality(S) -> S] : IsInjective(f)}

NumProviders(btc, xsat, head) == IF head THEN Max({Len(btc), Len(xsat)}) ELSE Len(btc)

\* The validators that endorsed a block, with either role, in every order.
ProviderLists ==
  UNION {Orders(B) \X Orders(X) : B \in (SUBSET Validators) \ {{}}, X \in SUBSET Validators}
Disjoint(lists) == Range(lists[1]) \cap Range(lists[2]) = {}

StartRewardOf(L) ==
  /\ ~distributing
  /\ \E n \in Subsidies, r \in Rates, lists \in L, head, here \in BOOLEAN :
       /\ here => head
       /\ Disjoint(lists)
       /\ Distribute(n, r, lists[1], lists[2], here)
       /\ num_provider_validators' = NumProviders(lists[1], lists[2], head)
       /\ active_here' = here
  /\ num_validators_assigned' = 0
  /\ distributing' = TRUE

StartReward == StartRewardOf(ProviderLists)

Batch ==
  LET to == Min({num_validators_assigned + num_validators_per_distribution,
                 num_provider_validators}) IN
  /\ distributing
  /\ EndTRewards(num_validators_assigned, to, active_here)
  /\ num_validators_assigned' = to
  /\ distributing' = (to # num_provider_validators)
  /\ UNCHANGED <<num_provider_validators, active_here>>

RewardInit ==
  /\ reward_log = [s \in RewardScopes |-> NoLog]
  /\ reward_balance = [s \in RewardScopes |-> [consensus |-> 0, staking |-> 0, synchronizer |-> 0]]
  /\ issued = 0
  /\ paid = [s \in RewardScopes |-> [v \in Validators |-> 0]]
  /\ synchronizer_paid = 0
  /\ num_provider_validators = 0 /\ num_validators_assigned = 0
  /\ distributing = FALSE /\ active_here = FALSE

allRewardVars == <<rewardVars, callerVars, active_here>>
RewardNext == StartReward \/ Batch
RewardSpec == RewardInit /\ [][RewardNext]_allRewardVars
FairRewardSpec == RewardSpec /\ WF_allRewardVars(Batch)

-----------------------------------------------------------------------------
\* What was issued for the height is at every point between the batches with
\* the validators, with the synchronizer or in the balances, and no rounding
\* loses a unit; only the XSAT part of a block without an XSAT endorsement is
\* none of these.
NothingIsLost ==
  LogExists("btc") =>
    LET logs == {s \in RewardScopes : LogExists(s)}
        accounted ==
          Sum([s \in logs |-> Sum(paid[s]) + reward_balance[s].consensus
                              + reward_balance[s].staking + reward_balance[s].synchronizer])
            + synchronizer_paid * reward_log["btc"].synchronizer IN
    /\ accounted <= issued
    /\ LogExists("xsat") \/ ~active_here => accounted = issued

\* When the tip may move, both logs are settled: every provider of either list
\* was in a batch, the whole reward is out and the synchronizer was paid once.
SettledWhenDone ==
  ~distributing =>
    \A s \in RewardScopes : LogExists(s) =>
      /\ reward_log[s].assigned = Len(reward_log[s].providers)
      /\ reward_balance[s] = [consensus |-> 0, staking |-> 0, synchronizer |-> 0]
      /\ reward_log["btc"].synchronizer > 0 => synchronizer_paid = 1

\* From the first batch to the last, no part of a subsidy is lost, paid twice
\* or left over.
RewardsConserved == NothingIsLost /\ SettledWhenDone

\* Equal stakes are rewarded alike, up to the remainder the last one keeps:
\* nobody's share depends on the batch it fell into.
ShareIndependentOfBatch ==
  \A s \in RewardScopes : \A i, j \in 1..reward_log[s].assigned :
    LET log == reward_log[s] IN
    /\ i # Len(log.providers) /\ j # Len(log.providers)
    /\ Staking[log.providers[i]] = Staking[log.providers[j]]
    => paid[s][log.providers[i]] = paid[s][log.providers[j]]

(***************************************************************************)
(* The inductive invariant.                                                *)
(***************************************************************************)
LogType == [providers : Seq(Validators), consensus : Nat, staking : Nat,
            synchronizer : Nat, assigned : Nat]
BalanceType == [consensus : Nat, staking : Nat, synchronizer : Nat]

\* No amount of the logs, the balances and the payments is below zero.
RewardTypeOK ==
  /\ reward_log \in [RewardScopes -> LogType]
  /\ reward_balance \in [RewardScopes -> BalanceType]
  /\ issued \in Nat /\ synchronizer_paid \in Nat
  /\ paid \in [RewardScopes -> [Validators -> Nat]]
  /\ num_provider_validators \in Nat /\ num_validators_assigned \in Nat
  /\ distributing \in BOOLEAN /\ active_here \in BOOLEAN

\* The subsidy is what both logs were made from, and the caller counts the longer.
LogsOfHeight ==
  /\ \A s \in RewardScopes : IF LogExists(s) THEN IsInjective(reward_log[s].providers)
                                              ELSE reward_log[s] = NoLog
  /\ \A s \in RewardScopes : Len(reward_log[s].providers) <= num_provider_validators
  /\ distributing \/ LogExists("xsat") => LogExists("btc")
  /\ LogExists("xsat") => active_here
  /\ reward_log["xsat"].staking = 0 /\ reward_log["xsat"].synchronizer = 0
  /\ LogExists("btc") =>
       LET logged == reward_log["btc"].consensus + reward_log["btc"].staking
                       + reward_log["btc"].synchronizer + reward_log["xsat"].consensus IN
       /\ logged <= issued
       /\ LogExists("xsat") \/ ~active_here => logged = issued

\* Of a log, n validators or all were paid, in one piece or many.
LogInv(log, balance, received, n) ==
  LET last == Len(log.providers)
      due(i) == StakingShare(log, i) + ConsensusShare(log) IN
  /\ log.assigned = Min({n, last})
  /\ balance = IF log.assigned = last THEN [consensus |-> 0, staking |-> 0, synchronizer |-> 0]
       ELSE [consensus |-> log.consensus - ConsensusShare(log) * log.assigned,
             staking |-> log.staking - StakingShares(log, 1..log.assigned),
             synchronizer |-> log.synchronizer]
  /\ Sum(received) + balance.consensus + balance.staking = log.consensus + log.staking
  /\ \A i \in 1..(last - 1) :
       received[log.providers[i]] = IF i <= log.assigned THEN due(i) ELSE 0

RewardInv ==
  /\ RewardTypeOK
  /\ LogsOfHeight
  /\ IF distributing THEN num_validators_assigned < num_provider_validators
                     ELSE num_validators_assigned = num_provider_validators
  /\ \A s \in RewardScopes : LogExists(s) =>
       LogInv(reward_log[s], reward_balance[s], paid[s], num_validators_assigned)
  /\ LET log == reward_log["btc"] IN LogExists("btc") =>
       synchronizer_paid = IF log.assigned = Len(log.providers) /\ log.synchronizer > 0 THEN 1 ELSE 0

\* A distribution that starts comes to its end.
RewardsAreDistributed == distributing ~> ~distributing
=============================================================================
