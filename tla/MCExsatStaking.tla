------------------------- MODULE MCExsatStaking -------------------------
(* Instances of ExsatStaking for TLC.  A behaviour plays in one scenario:  *)
(* a record of who acts, of the bounds, and of the moves there are besides *)
(* stakes, claims and rewards.                                             *)
EXTENDS StakeHistory, TLC

CONSTANTS v1, v2, n1, dp, xp, cp, ep, a1, a2, Scenarios

Depositor == [proxy |-> dp, address |-> a1]
XsatDepositor == [proxy |-> xp, address |-> a1]
Credit == [proxy |-> cp, address |-> a2]
Delegator == [proxy |-> ep, address |-> a2]
MCEvmStakers == {Depositor, XsatDepositor, Credit, Delegator}

\* 12 is divided without remainder by all quantities of stake, 3 is not.
OfKind(k, n) == [NoReward EXCEPT ![k] = n]
MCRewards == {OfKind("staking", 12), OfKind("consensus", 12), OfKind("staking", 3)}
OneBase == [btc |-> 2, xsat |-> 2]
LowBase == [btc |-> 1, xsat |-> 1]
MCBases == {OneBase, LowBase}

\* btc and xsat bound the stakes, tokens what staking.xsat and xsatstk.xsat hold.
Plain == [name |-> "", stakers |-> {}, validators |-> {v1}, roles |-> {0}, btc |-> 0, xsat |-> 0, tokens |-> 0,
          rewards |-> {}, head |-> 0, active |-> {FALSE}, commissions |-> {0}, moves |-> {}]

Native == [Plain EXCEPT !.name = "native", !.stakers = {n1}, !.validators = {v1, v2}, !.btc = 2, !.tokens = 2,
             !.rewards = {OfKind("staking", 12)}, !.head = 1, !.moves = {"restake"}]
Cycle == [Plain EXCEPT !.name = "cycle", !.stakers = {n1}, !.btc = 3, !.tokens = 3, !.moves = {"cycle", "status"}]
Delegated == [Plain EXCEPT !.name = "delegated", !.stakers = {Depositor, Delegator}, !.validators = {v1, v2}, !.btc = 3,
                !.head = 1, !.active = BOOLEAN, !.moves = {"address", "restake", "base"}]
Rounding == [Plain EXCEPT !.name = "rounding", !.stakers = {Depositor, Delegator}, !.btc = 3, !.head = 2,
               !.rewards = {OfKind("staking", 3)}, !.commissions = {1}]
Weights == [Plain EXCEPT !.name = "weights", !.stakers = {Credit, Depositor}, !.btc = 3, !.head = 2,
              !.rewards = {OfKind("consensus", 12)}, !.moves = {"credit", "weights", "endorse"}]
Rounds == [Plain EXCEPT !.name = "rounds", !.stakers = {Credit}, !.validators = {v1, v2},
             !.btc = 2, !.head = 1, !.moves = {"credit", "weights", "rounds"}]
Enrolling == [Plain EXCEPT !.name = "enrolling", !.stakers = {Credit}, !.btc = 2, !.head = 2,
                !.moves = {"credit", "weights", "enroll", "base", "address"}]
Xsat == [Plain EXCEPT !.name = "xsat", !.stakers = {n1, XsatDepositor}, !.roles = {0, 1}, !.xsat = 2, !.tokens = 2,
           !.moves = {"base", "address"}]
XsatRestake == [Plain EXCEPT !.name = "xsatrestake", !.stakers = {XsatDepositor}, !.validators = {v1, v2}, !.roles = {0, 1},
           !.xsat = 2, !.head = 1, !.active = BOOLEAN, !.moves = {"restake"}]
AllScenarios == {Native, Cycle, Delegated, Rounding, Weights, Rounds, Enrolling, Xsat, XsatRestake}

VARIABLES
  scenario,   \* it permutes with the validators: they are symmetric
  restakes    \* in Rounding and Weights: how often a stake was changed

May(move) == move \in scenario.moves

\* The step is one of the scenario.
InScenario ==
  /\ ~May("base") => base_stake' = base_stake
  /\ ~May("weights") => credit_config' = credit_config
  /\ ~May("credit") => custody' = custody
  /\ ~May("rounds") => <<rounds, activation>>' = <<rounds, activation>>
  /\ ~May("enroll") => enrollment' = enrollment
  /\ scenario.tokens = 0 => token' = token
  /\ head_height' <= scenario.head /\ xsat_active' \in scenario.active
  /\ stat'.total_staking <= scenario.btc /\ stat'.xsat_total_staking <= scenario.xsat
  /\ \A v \in Registered' :
       /\ validator'[v].role \in scenario.roles
       /\ validator'[v].commission_rate \in scenario.commissions
       /\ ~May("status") => ~validator'[v].disabled_staking
       /\ validator'[v].qualification <= 3
       /\ ~May("address") => validator'[v].stake_address = a1
       /\ ~May("address") /\ staker' = staker /\ v \in Registered
            => validator'[v].qualification = validator[v].qualification
       /\ ~May("endorse") => validator'[v].latest_consensus_block = 0
       /\ validator'[v].latest_consensus_block <= head_height + 1
  /\ \A t \in AllTokens :
       /\ token_balance'[t] <= scenario.tokens
       /\ ~May("cycle") => token_balance'[t] >= token_balance[t]
       /\ ~May("status") => token'[t] # "disabled"
  /\ ~May("restake") => ~\E u \in Stakers, v, w \in Validators : v # w /\
       staker'[u][v].quantity < staker[u][v].quantity /\ staker'[u][w].quantity > staker[u][w].quantity
  /\ May("weights") =>
       /\ credit_config'.next_credit_weight # RATE_BASE_10000
       /\ \A v \in Registered : staker'[Depositor][v].quantity <= 1
       /\ \A v \in Registered : validator'[v].unclaimed = NoReward

\* What the run leaves out (README): updcreditstk where it would drop native stakes
\* from the sum of a validator, and weights that rise.
Careful ==
  /\ \A v \in Registered, is_close \in BOOLEAN :
       updcreditstk(v, is_close) => validator'[v].quantity = validator[v].quantity
  /\ credit_config.next_credit_weight_block # 0 =>
       credit_config'.next_credit_weight <= credit_config.next_credit_weight

StakeChanges ==
  {p \in Stakers \X Validators : staker'[p[1]][p[2]].quantity # staker[p[1]][p[2]].quantity}

MCInit == CountingInit /\ base_stake = OneBase /\ scenario \in Scenarios
          /\ xsat_active = FALSE /\ restakes = 0
MCNext ==
  /\ StakingStep(scenario.stakers, scenario.validators, scenario.rewards)
  /\ InScenario /\ Careful
  /\ restakes' = IF scenario.name \in {"rounding", "weights"} THEN restakes + Cardinality(StakeChanges) ELSE 0
  /\ restakes' <= 4
  /\ IF scenario.name = "rounding" THEN CountChanges ELSE UNCHANGED changes
  /\ UNCHANGED scenario
Symmetry == Permutations({v1, v2})

MCSpec == MCInit /\ [][MCNext]_<<historyVars, scenario, restakes>>
=============================================================================
