-------------------------- MODULE EndorseManage --------------------------
(***************************************************************************)
(* endrmng.xsat: the validators, what native accounts, EVM accounts and    *)
(* the custody of Bitcoin stake with them, the qualification that follows, *)
(* and the rewards, which are kept per unit of stake (acc_per_share) and   *)
(* settled for a staker whenever its stake changes.                        *)
(*                                                                         *)
(* The operators on tables stand for the functions of the contract.  They  *)
(* return the set of tables a call may leave: one, or none if it aborts.   *)
(***************************************************************************)
EXTENDS Integers, FiniteSetsExt

CONSTANTS
  Validators,
  NativeStakers,
  EvmStakers,       \* records of a proxy and the address that stakes through it
  Addresses,        \* EVM addresses of stakers and validators
  btc_deposit_proxy, xsat_deposit_proxy,
  CreditProxies,    \* proxies of stakes that custody.xsat vouches for
  MIN_BTC_STAKE_FOR_VALIDATOR,
  RATE_BASE,        \* scale of acc_per_share, 10^8
  RATE_BASE_10000,  \* scale of rates and credit weights
  Amounts, Commissions, BaseStakes, Rewards, CreditWeights, MaxHeight  \* inputs

RewardKinds == {"staking", "consensus"}

ASSUME EndorseManageAssumption ==
  /\ IsFiniteSet(Validators) /\ IsFiniteSet(NativeStakers) /\ IsFiniteSet(EvmStakers)
  /\ NativeStakers \cap EvmStakers = {}
  /\ \A u \in EvmStakers : u.address \in Addresses
  /\ {btc_deposit_proxy, xsat_deposit_proxy} \cap CreditProxies = {}
  /\ {MIN_BTC_STAKE_FOR_VALIDATOR, RATE_BASE, RATE_BASE_10000} \subseteq Nat \ {0}
  /\ Amounts \subseteq Nat \ {0} /\ Commissions \subseteq 0..RATE_BASE_10000
  /\ CreditWeights \subseteq 1..RATE_BASE_10000
  /\ BaseStakes \subseteq [btc : Nat \ {0}, xsat : Nat \ {0}]
  /\ Rewards \subseteq [RewardKinds -> Nat]

VARIABLES
  validator,     \* the table validators
  staker,        \* the tables stakers and evmstakers, by staker and validator
  stat,          \* the totals
  credit_config, \* the credit weights of the configuration
  base_stake,    \* blkendt.xsat: the stakes that qualify, BTC and XSAT
  xsat_active,   \* blkendt.xsat: XSAT consensus is active at the head height
  head_height    \* utxomng.xsat

tableVars == <<validator, staker, stat>>
chainVars == <<xsat_active, head_height>>
endorseManageVars == <<tableVars, credit_config, base_stake, chainVars>>

Stakers == NativeStakers \cup EvmStakers
Tables == [validator |-> validator, staker |-> staker, stat |-> stat]
Become(t) == validator' = t.validator /\ staker' = t.staker /\ stat' = t.stat

Total(f) == SumFunction(f)

NoReward == [k \in RewardKinds |-> 0]
NoStake == [quantity |-> 0, xsat_quantity |-> 0, debt |-> NoReward, unclaimed |-> NoReward]

Unregistered == [registered |-> FALSE]
NewValidator(role, address, commission) ==
  [registered |-> TRUE, role |-> role, stake_address |-> address,
   commission_rate |-> commission, disabled_staking |-> FALSE, active_flag |-> 0,
   quantity |-> 0, qualification |-> 0, xsat_quantity |-> 0,
   acc_per_share |-> NoReward, unclaimed |-> NoReward, balance |-> NoReward,
   credit_weight |-> 0, credit_weight_block |-> 0,
   latest_reward_block |-> 0, latest_consensus_block |-> 0]

Registered == {v \in Validators : validator[v].registered}
Open(row, role) == row.registered /\ ~row.disabled_staking /\ row.role = role
Flag(qualified) == IF qualified THEN 1 ELSE 0

-----------------------------------------------------------------------------
(* Credit: a stake of the custody counts with the weight of its validator. *)

IsCredit(u) == u \in EvmStakers /\ u.proxy \in CreditProxies

Weighted(q, weight) == (q * weight) \div RATE_BASE_10000

validator_weight(row) == IF row.credit_weight > 0 THEN row.credit_weight ELSE RATE_BASE_10000

\* config_row::get_credit_weight.
get_credit_weight(height) ==
  IF credit_config.next_credit_weight_block <= height THEN credit_config.next_credit_weight
    ELSE IF credit_config.credit_weight > 0 THEN credit_config.credit_weight ELSE RATE_BASE_10000

\* The weight of a claim is looked up without that last default.
current_credit_weight ==
  IF credit_config.next_credit_weight_block <= head_height THEN credit_config.next_credit_weight
    ELSE credit_config.credit_weight

\* What a stake counts for in the validator's quantity.
Counted(t, u, v) ==
  IF IsCredit(u) THEN Weighted(t.staker[u][v].quantity, validator_weight(t.validator[v]))
    ELSE t.staker[u][v].quantity

-----------------------------------------------------------------------------
(***************************************************************************)
(* update_staking_reward: what amount pre earned is credited, and the      *)
(* stake becomes now.  An unsigned difference below zero is an overflow.   *)
(***************************************************************************)
Earned(amount, acc) == (amount * acc) \div RATE_BASE

\* Mutant: the debt of the earlier amount is kept.
Settled_OldDebt(row, acc, pre, now) ==
  [row EXCEPT !.quantity = now,
              !.debt = [k \in RewardKinds |-> Earned(pre, acc[k])],
              !.unclaimed = [k \in RewardKinds |->
                               row.unclaimed[k] + Earned(pre, acc[k]) - row.debt[k]]]

\* Mutant: what was earned is not credited.
Settled_NotCredited(row, acc, pre, now) ==
  [row EXCEPT !.quantity = now, !.debt = [k \in RewardKinds |-> Earned(now, acc[k])]]

\* The row after settling pre shares at acc: its next rewards begin with now shares.
Settled(row, acc, pre, now) ==
  [row EXCEPT !.quantity = now,
              !.debt = [k \in RewardKinds |-> Earned(now, acc[k])],
              !.unclaimed = [k \in RewardKinds |->
                               row.unclaimed[k] + Earned(pre, acc[k]) - row.debt[k]]]

update_staking_reward(t, u, v, pre, now) ==
  LET row == t.staker[u][v]
      acc == t.validator[v].acc_per_share IN
  IF \A k \in RewardKinds : Earned(pre, acc[k]) >= row.debt[k]
    THEN {[t EXCEPT !.staker[u][v] = Settled(row, acc, pre, now)]}
    ELSE {}

\* staking_change: quantity and qualification may be negative.
staking_change(t, u, v, quantity, qualification, active_flag) ==
  LET row == t.validator[v]
      changed == [row EXCEPT !.quantity = @ + quantity,
                             !.qualification = @ + qualification,
                             !.active_flag = active_flag]
      pre == Counted(t, u, v) IN
  IF row.quantity + quantity >= 0 /\ row.qualification + qualification >= 0
    THEN update_staking_reward(
           [t EXCEPT !.validator[v] = changed, !.stat.total_staking = @ + quantity],
           u, v, pre, pre + quantity)
    ELSE {}

-----------------------------------------------------------------------------
(* Stakes of BTC.  While XSAT consensus is active only the deposit of the  *)
(* stake address and credit qualify.                                       *)

stake_without_auth(t, u, v, q) ==
  LET row == t.validator[v] IN
  IF /\ Open(row, 0)
     /\ xsat_active => row.qualification >= base_stake.btc
    THEN staking_change(t, u, v, q, IF xsat_active THEN 0 ELSE q, row.active_flag)
    ELSE {}

unstake_without_auth(t, u, v, q) ==
  IF t.staker[u][v].quantity >= q
    THEN staking_change(t, u, v, -q, IF xsat_active THEN 0 ELSE -q, t.validator[v].active_flag)
    ELSE {}

IsDeposit(u) == u.proxy = btc_deposit_proxy

evm_stake_without_auth(t, u, v, q, qualification) ==
  LET row == t.validator[v]
      qualifies == IsDeposit(u) \/ IsCredit(u)
      stake_quantity == IF IsCredit(u) THEN row.qualification + qualification
                                       ELSE t.staker[u][v].quantity + q IN
  IF /\ Open(row, 0)
     /\ IsDeposit(u) => u.address = row.stake_address
     /\ xsat_active /\ ~qualifies => row.active_flag = 1
    THEN staking_change(t, u, v, q,
           IF xsat_active /\ ~qualifies THEN 0 ELSE qualification,
           IF qualifies THEN Flag(stake_quantity >= base_stake.btc) ELSE row.active_flag)
    ELSE {}

\* Mutant: what never qualified is subtracted.
evm_unstake_without_auth_AlwaysQualified(t, u, v, q, qualification) ==
  IF /\ t.staker[u][v].quantity >= q
     /\ IsDeposit(u) => u.address = t.validator[v].stake_address
    THEN staking_change(t, u, v, -q, -qualification, t.validator[v].active_flag)
    ELSE {}

evm_unstake_without_auth(t, u, v, q, qualification) ==
  LET row == t.validator[v]
      qualifies == IsDeposit(u) \/ IsCredit(u)
      left == t.staker[u][v].quantity - (IF IsCredit(u) THEN qualification ELSE q) IN
  IF /\ t.staker[u][v].quantity >= q
     /\ IsDeposit(u) => u.address = row.stake_address
    THEN staking_change(t, u, v, -q,
           IF xsat_active /\ ~qualifies THEN 0 ELSE -qualification,
           IF qualifies THEN Flag(left >= base_stake.btc) ELSE row.active_flag)
    ELSE {}

Staked(t, u, v, q) ==
  IF u \in NativeStakers THEN stake_without_auth(t, u, v, q)
                         ELSE evm_stake_without_auth(t, u, v, q, q)

Unstaked(t, u, v, q) ==
  IF u \in NativeStakers THEN unstake_without_auth(t, u, v, q)
                         ELSE evm_unstake_without_auth(t, u, v, q, q)

Restaked(t, u, v, w, q) == UNION {Staked(s, u, w, q) : s \in Unstaked(t, u, v, q)}

-----------------------------------------------------------------------------
(* Stakes of XSAT, which earn nothing and qualify an XSAT validator. *)

IsXsatDeposit(u) == u \in EvmStakers /\ u.proxy = xsat_deposit_proxy

\* The deposit of u becomes q, which decides the flag of the validator.
XsatFlag(u, row, q) ==
  IF IsXsatDeposit(u) THEN Flag(q >= base_stake.xsat) ELSE row.active_flag

xsat_change(t, u, v, q) ==
  LET row == t.validator[v]
      now == t.staker[u][v].xsat_quantity + q IN
  [t EXCEPT !.staker[u][v].xsat_quantity = now,
            !.validator[v] = [row EXCEPT !.xsat_quantity = @ + q, !.active_flag = XsatFlag(u, row, now)],
            !.stat.xsat_total_staking = @ + q]

XsatStaked(t, u, v, q) ==
  LET row == t.validator[v] IN
  IF /\ row.registered /\ ~row.disabled_staking
     /\ u \in EvmStakers =>
          /\ row.role = 1
          /\ IF IsXsatDeposit(u) THEN u.address = row.stake_address
                                 ELSE xsat_active => row.active_flag = 1
    THEN {xsat_change(t, u, v, q)} ELSE {}

XsatUnstaked(t, u, v, q) ==
  IF /\ t.staker[u][v].xsat_quantity >= q
     /\ IsXsatDeposit(u) => u.address = t.validator[v].stake_address
    THEN {xsat_change(t, u, v, -q)} ELSE {}

XsatRestaked(t, u, v, w, q) == UNION {XsatStaked(s, u, w, q) : s \in XsatUnstaked(t, u, v, q)}

-----------------------------------------------------------------------------
(***************************************************************************)
(* _creditstake: the stake of the custody becomes quantity, counted with   *)
(* the weight of the height.  The first stake brings the qualification of  *)
(* a whole base stake, the last withdrawal takes it.  If the same is       *)
(* counted before and after, the stake needs a row, be it an emptied one,  *)
(* which there is none of before the first weight is configured; later the *)
(* call may succeed here where there is no row yet.                        *)
(***************************************************************************)
\* Mutant: the stake that is replaced is taken at the new weight.
CreditStaked_NewWeight(t, u, v, quantity, height) ==
  LET weight == get_credit_weight(height)
      old == t.staker[u][v].quantity
      difference == Weighted(quantity, weight) - Weighted(old, weight)
      base == IF old = 0 \/ quantity = 0 THEN base_stake.btc ELSE 0
      changed == CASE difference > 0 -> evm_stake_without_auth(t, u, v, difference, base)
                   [] difference < 0 -> evm_unstake_without_auth(t, u, v, -difference, base)
                   [] OTHER -> {t} IN
  IF quantity <= MIN_BTC_STAKE_FOR_VALIDATOR /\ t.validator[v].registered
       /\ ~t.validator[v].disabled_staking
    THEN {[s EXCEPT !.staker[u][v].quantity = quantity,
                    !.validator[v].credit_weight = weight,
                    !.validator[v].credit_weight_block =
                       IF weight = validator_weight(s.validator[v]) THEN @ ELSE height] : s \in changed}
    ELSE {}

CreditStaked(t, u, v, quantity, height) ==
  LET row == t.validator[v]
      weight == get_credit_weight(height)
      old == t.staker[u][v].quantity
      difference == Weighted(quantity, weight) - Weighted(old, validator_weight(row))
      changed ==
        CASE difference > 0 -> evm_stake_without_auth(t, u, v, difference,
                                 IF old = 0 THEN base_stake.btc ELSE 0)
          [] difference < 0 -> evm_unstake_without_auth(t, u, v, -difference,
                                 IF quantity = 0 THEN base_stake.btc ELSE 0)
          [] OTHER -> IF weight = 0 THEN {} ELSE {t} IN
  IF /\ quantity <= MIN_BTC_STAKE_FOR_VALIDATOR
     /\ row.registered /\ ~row.disabled_staking
    THEN {[s EXCEPT !.staker[u][v].quantity = quantity,
                    !.validator[v] = IF weight = validator_weight(row) THEN @
                       ELSE [@ EXCEPT !.credit_weight = weight,
                                      !.credit_weight_block = height]] : s \in changed}
    ELSE {}

-----------------------------------------------------------------------------
(* The actions. *)

Call(outcomes) ==
  /\ \E t \in outcomes : Become(t)
  /\ UNCHANGED <<credit_config, base_stake, chainVars>>

newregvldtor(v, role, address, commission) ==
  /\ ~validator[v].registered
  /\ Call({[Tables EXCEPT !.validator[v] =
              NewValidator(role, address, IF role = 0 THEN commission ELSE 0)]})

evmconfigvald(v, commission) ==
  /\ v \in Registered
  /\ Call({[Tables EXCEPT !.validator[v].commission_rate = commission]})

setstatus(v, disabled) ==
  /\ v \in Registered
  /\ Call({[Tables EXCEPT !.validator[v].disabled_staking = disabled]})

stake(u, v, q) == ~IsCredit(u) /\ Call(Staked(Tables, u, v, q))
unstake(u, v, q) == ~IsCredit(u) /\ Call(Unstaked(Tables, u, v, q))
newstake(u, v, w, q) == ~IsCredit(u) /\ Call(Restaked(Tables, u, v, w, q))

stakexsat(u, v, q) == ~IsCredit(u) /\ Call(XsatStaked(Tables, u, v, q))
unstakexsat(u, v, q) == ~IsCredit(u) /\ Call(XsatUnstaked(Tables, u, v, q))
restakexsat(u, v, w, q) == ~IsCredit(u) /\ Call(XsatRestaked(Tables, u, v, w, q))

creditstake(u, v, q) == IsCredit(u) /\ Call(CreditStaked(Tables, u, v, q, head_height))

Claimable(unclaimed) == Total(unclaimed)
TakeFrom(balance, unclaimed) == [k \in RewardKinds |-> balance[k] - unclaimed[k]]

\* claim and evmclaim: everything, of which a part may be donated.  The reward
\* of a credit stake is settled at the weight of the head height.
claim(u, v) ==
  LET q == staker[u][v].quantity
      amount == IF IsCredit(u) THEN Weighted(q, current_credit_weight) ELSE q
      Claimed(s) ==
        LET row == s.staker[u][v] IN
        [s EXCEPT !.staker[u][v] = [row EXCEPT !.unclaimed = NoReward, !.quantity = q],
                  !.validator[v].balance = TakeFrom(@, row.unclaimed)] IN
  /\ v \in Registered
  /\ Call({Claimed(s) : s \in {s \in update_staking_reward(Tables, u, v, amount, amount) :
                                Claimable(s.staker[u][v].unclaimed) > 0}})

vdrclaim(v) ==
  LET row == validator[v] IN
  /\ v \in Registered
  /\ Claimable(row.unclaimed) > 0
  /\ Call({[Tables EXCEPT !.validator[v] =
              [row EXCEPT !.unclaimed = NoReward, !.balance = TakeFrom(row.balance, row.unclaimed)]]})

\* update_validator_reward: the commission is the validator's, and everything
\* is while nobody staked; the rest is divided by the stakes.
Rewarded(row, height, rewards) ==
  LET commission == [k \in RewardKinds |->
        IF row.quantity > 0 THEN (rewards[k] * row.commission_rate) \div RATE_BASE_10000
                            ELSE rewards[k]] IN
  [row EXCEPT
     !.acc_per_share = [k \in RewardKinds |-> IF row.quantity > 0
        THEN @[k] + ((rewards[k] - commission[k]) * RATE_BASE) \div row.quantity ELSE @[k]],
     !.unclaimed = [k \in RewardKinds |-> @[k] + commission[k]],
     !.balance = [k \in RewardKinds |-> @[k] + rewards[k]],
     !.latest_reward_block = height]

\* distribute: a list of validators with their rewards of a height.
distribute(height, rewards) ==
  LET paid == {v \in DOMAIN rewards : Claimable(rewards[v]) > 0} IN
  /\ \A v \in paid : v \in Registered /\ validator[v].latest_reward_block < height
  /\ Call({[Tables EXCEPT !.validator = [v \in Validators |->
              IF v \in paid THEN Rewarded(validator[v], height, rewards[v]) ELSE validator[v]]]})

(***************************************************************************)
(* endorse: the first endorsement of a validator at or above the height of *)
(* a new weight counts its credit stake again.  The vote counter is that   *)
(* of BlockEndorse.                                                        *)
(***************************************************************************)
NeedsWeight(row, height) ==
  /\ row.role = 0
  /\ get_credit_weight(height) # validator_weight(row)
  /\ height >= credit_config.next_credit_weight_block
  /\ row.credit_weight_block < credit_config.next_credit_weight_block

endorse(v, height) ==
  LET row == validator[v]
      voted == [Tables EXCEPT !.validator[v].latest_consensus_block = height]
      credit == {u \in EvmStakers : IsCredit(u) /\ staker[u][v].quantity # 0} IN
  /\ v \in Registered
  /\ height > row.latest_consensus_block
  /\ IF NeedsWeight(row, height)
       THEN /\ credit_config' = [credit_config EXCEPT !.credit_weight = get_credit_weight(height)]
            /\ \E t \in IF credit = {} THEN {voted} ELSE
                 UNION {CreditStaked(voted, u, v, staker[u][v].quantity, height) : u \in credit} :
                 Become(t)
       ELSE Become(voted) /\ UNCHANGED credit_config
  /\ UNCHANGED <<base_stake, chainVars>>

setcreditwei(weight, block) ==
  /\ weight \in 1..RATE_BASE_10000 /\ block > head_height
  /\ credit_config' = [credit_config EXCEPT !.next_credit_weight = weight,
                                            !.next_credit_weight_block = block]
  /\ UNCHANGED <<tableVars, base_stake, chainVars>>

\* get_qualification: the deposits of an address with a validator.
get_qualification(v, address) ==
  IF validator[v].role = 1
    THEN Total([u \in {u \in EvmStakers : u.address = address /\ IsXsatDeposit(u)} |->
                  staker[u][v].xsat_quantity])
    ELSE Total([u \in {u \in EvmStakers : u.address = address /\ IsDeposit(u)} |->
                  staker[u][v].quantity])

evmsetstaker(v, address) ==
  LET row == validator[v]
      q == get_qualification(v, address) IN
  /\ v \in Registered
  /\ IF row.role = 1 THEN row.xsat_quantity = 0
                     ELSE get_qualification(v, row.stake_address) = 0
  /\ Call({[Tables EXCEPT !.validator[v] = IF row.role = 1
       THEN [@ EXCEPT !.stake_address = address, !.xsat_quantity = q,
                      !.active_flag = Flag(q >= base_stake.xsat)]
       ELSE [@ EXCEPT !.stake_address = address, !.qualification = q,
                      !.active_flag = Flag(q >= base_stake.btc)]]})

Active(row, base) ==
  Flag(IF row.role = 1 THEN row.xsat_quantity >= base.xsat ELSE row.qualification >= base.btc)

setstakebase(base) ==
  /\ base_stake' = base
  /\ validator' = [v \in Validators |-> IF v \in Registered
       THEN [validator[v] EXCEPT !.active_flag = Active(validator[v], base)] ELSE validator[v]]
  /\ UNCHANGED <<staker, stat, credit_config, chainVars>>

\* updcreditstk: the sums over the EVM stakes of a validator replace its own.
updcreditstk(v, is_close) ==
  LET deposit == {u \in EvmStakers : u.address = validator[v].stake_address /\ IsDeposit(u)}
      q == Total([u \in IF is_close THEN deposit ELSE EvmStakers |-> staker[u][v].quantity]) IN
  /\ v \in Registered /\ validator[v].role = 0
  /\ Call({[Tables EXCEPT !.validator[v] =
       [@ EXCEPT !.quantity = Total([u \in EvmStakers |-> Counted(Tables, u, v)]),
                 !.qualification = q, !.active_flag = Flag(q >= base_stake.btc)]]})

\* The chain grows, and XSAT consensus is activated at some height.
head_moves ==
  /\ head_height' = head_height + 1
  /\ xsat_active' \in {xsat_active, TRUE}
  /\ UNCHANGED <<tableVars, credit_config, base_stake>>

EndorseManageInit ==
  /\ validator = [v \in Validators |-> Unregistered]
  /\ staker = [u \in Stakers |-> [v \in Validators |-> NoStake]]
  /\ stat = [total_staking |-> 0, xsat_total_staking |-> 0]
  /\ credit_config = [next_credit_weight_block |-> 0, next_credit_weight |-> 0, credit_weight |-> 0]
  /\ base_stake \in BaseStakes
  /\ xsat_active \in BOOLEAN
  /\ head_height = 0

(* The steps that stakers S and validators V take part in, with rewards R. *)

\* What accounts and administrators call.
DirectNext(S, V) ==
  \/ \E v \in V :
       \/ \E role \in {0, 1}, a \in Addresses, c \in Commissions : newregvldtor(v, role, a, c)
       \/ \E c \in Commissions : evmconfigvald(v, c)
       \/ \E disabled \in BOOLEAN : setstatus(v, disabled)
       \/ \E a \in Addresses : evmsetstaker(v, a)
       \/ \E is_close \in BOOLEAN : updcreditstk(v, is_close)
       \/ vdrclaim(v)
  \/ \E u \in S \cap EvmStakers, v \in V, q \in Amounts :
       stake(u, v, q) \/ unstake(u, v, q) \/ stakexsat(u, v, q) \/ unstakexsat(u, v, q)
  \/ \E u \in S, v \in V :
       \/ claim(u, v)
       \/ \E w \in V, q \in Amounts : newstake(u, v, w, q) \/ restakexsat(u, v, w, q)
  \/ \E base \in BaseStakes : setstakebase(base)
  \/ \E weight \in CreditWeights, h \in 1..MaxHeight : setcreditwei(weight, h)

\* What blkendt.xsat and rwddist.xsat call, and the growth of the chain.
ConsensusCalls(V, R) ==
  \/ \E v \in V, h \in 1..MaxHeight : endorse(v, h)
  \/ \E h \in 1..head_height, paid \in (SUBSET V) \ {{}} :
       \E rewards \in [paid -> R] : distribute(h, rewards)
  \/ head_height < MaxHeight /\ head_moves

\* What staking.xsat, xsatstk.xsat and custody.xsat call.
StakingCalls ==
  \/ \E u \in NativeStakers, v \in Validators, q \in Amounts :
       stake(u, v, q) \/ unstake(u, v, q) \/ stakexsat(u, v, q) \/ unstakexsat(u, v, q)
  \/ \E u \in EvmStakers, v \in Validators, q \in {0, MIN_BTC_STAKE_FOR_VALIDATOR} :
       q # staker[u][v].quantity /\ creditstake(u, v, q)

EndorseManageNext ==
  DirectNext(Stakers, Validators) \/ ConsensusCalls(Validators, Rewards) \/ StakingCalls
EndorseManageSpec == EndorseManageInit /\ [][EndorseManageNext]_endorseManageVars

-----------------------------------------------------------------------------
(* The types.  The staking totals, and what is left of the rewards after   *)
(* the claims, are differences, of which more is said by the properties.   *)

RewardType == [RewardKinds -> Nat]
StakeRow == [quantity : Nat, xsat_quantity : Nat, debt : RewardType, unclaimed : RewardType]
ValidatorRow ==
  [registered : {TRUE}, role : {0, 1}, stake_address : Addresses,
   commission_rate : 0..RATE_BASE_10000, disabled_staking : BOOLEAN, active_flag : {0, 1},
   quantity : Nat, qualification : Nat, xsat_quantity : Int,
   acc_per_share : RewardType, unclaimed : RewardType, balance : [RewardKinds -> Int],
   credit_weight : 0..RATE_BASE_10000, credit_weight_block : Nat,
   latest_reward_block : Nat, latest_consensus_block : Nat]
TablesType ==
  [validator : [Validators -> {Unregistered} \cup ValidatorRow],
   staker : [Stakers -> [Validators -> StakeRow]],
   stat : [total_staking : Int, xsat_total_staking : Int]]

\* There is no stake with a validator that is not registered.
NoStrayStake(t) ==
  \A v \in Validators : ~t.validator[v].registered =>
    \A u \in Stakers : t.staker[u][v].quantity = 0 /\ t.staker[u][v].xsat_quantity = 0

\* Before the first weight is set there is no credit.
CreditWeightsOK ==
  /\ credit_config \in [next_credit_weight_block : Nat, next_credit_weight : 0..RATE_BASE_10000,
                        credit_weight : 0..RATE_BASE_10000]
  /\ credit_config.next_credit_weight = 0 =>
       /\ credit_config.next_credit_weight_block = 0 /\ credit_config.credit_weight = 0
       /\ \A u \in EvmStakers, v \in Validators : IsCredit(u) => staker[u][v].quantity = 0

EndorseManageTypeOK ==
  /\ Tables \in TablesType /\ NoStrayStake(Tables) /\ CreditWeightsOK
  /\ base_stake \in [btc : Nat \ {0}, xsat : Nat \ {0}]
  /\ xsat_active \in BOOLEAN /\ head_height \in Nat

-----------------------------------------------------------------------------
(* Properties. *)

\* The stakes of a validator and the totals are the sums of the stakers' rows,
\* credit at the weight of the validator: the divisor of acc_per_share is the
\* number of shares there are.
StakesAddUp ==
  /\ \A v \in Registered :
       /\ validator[v].quantity = Total([u \in Stakers |-> Counted(Tables, u, v)])
       /\ validator[v].xsat_quantity = Total([u \in Stakers |-> staker[u][v].xsat_quantity])
  /\ stat.total_staking = Total([v \in Registered |-> validator[v].quantity])
  /\ stat.xsat_total_staking = Total([v \in Registered |-> validator[v].xsat_quantity])

\* What a staker earned since its rewards were last settled.
Pending(u, v, k) == Earned(Counted(Tables, u, v), validator[v].acc_per_share[k])
                      - staker[u][v].debt[k]
Due(u, v, k) == staker[u][v].unclaimed[k] + Pending(u, v, k)

\* Nothing but its own claim lowers what a staker is due: neither a change of
\* its stake, nor a new weight, nor what others do.
DueIsKept ==
  [][\A u \in Stakers, v \in Validators, k \in RewardKinds :
       v \in Registered => Due(u, v, k)' >= Due(u, v, k) \/ claim(u, v)]_endorseManageVars

\* A deposit is taken back by the present stake address of its validator only.
Barred(u, v) == u \in EvmStakers /\ IsDeposit(u) /\ u.address # validator[v].stake_address

\* While XSAT consensus is active such a stake leaves the qualification alone.
Delegates(u) == ~IsCredit(u) /\ ~(u \in EvmStakers /\ IsDeposit(u))

\* Nothing but a short qualification stops a stake of BTC from being taken back,
\* in whole or in part: neither its debts nor the sums of its validator, whatever
\* was claimed, moved, rewarded or rewritten since.
StakesCanBeWithdrawn ==
  \A u \in Stakers, v \in Registered : ~IsCredit(u) /\ ~Barred(u, v) =>
    \A q \in 1..staker[u][v].quantity :
      (xsat_active /\ Delegates(u)) \/ validator[v].qualification >= q
        => Unstaked(Tables, u, v, q) # {}
=============================================================================
