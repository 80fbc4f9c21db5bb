---------------------------- MODULE MCExsatFees ----------------------------
(* Instances of ExsatFees for TLC.  A behaviour plays in one scenario: a    *)
(* record of the bounds and of the moves there are besides the rewards.    *)
EXTENDS ExsatFees

CONSTANTS v1, v2, v3, v4, s1, s2, m1, m2, Scenarios

MCStaking == [v \in Validators |-> IF v = v3 THEN 2 ELSE 1]

Version1 == [synchronizer |-> 5, btc |-> 1, xsat |-> 0]
Version2 == [synchronizer |-> 2, btc |-> 0, xsat |-> 3]
TwoVersions == {Version1, Version2}

MCCosts == {[t \in FeeTypes |-> 20]}
MCOrder == <<Validator(v1), Validator(v2), Validator(v3), Validator(v4), Synchronizer(s1), Synchronizer(s2)>>
\* The synchronizer s1 shares its row with the validator v1, s2 has one of its own.
MCMasked == [s \in Pools |-> IF s = s1 THEN v1 ELSE s]
OneByOne == [start |-> 1, min_interval |-> 1, max_interval |-> 1, enf_rate |-> 5, rams_rate |-> 2]
ByTwo == [OneByOne EXCEPT !.max_interval = 2, !.enf_rate = 4]
MCConfigs == {OneByOne, ByTwo}

TwoLists == {<<<<v3, v1>>, << >>>>, <<<<v1>>, <<v3, v2>>>>}
OneList == {<<<<v3, v1>>, <<v2>>>>}

\* lists: the providers of a block; top bounds the irreversible height, paid the
\* fees of a height.
Plain == [name |-> "", lists |-> {}, rates |-> {Version2}, active |-> {TRUE}, synchronizers |-> {s1}, top |-> 1,
          paid |-> 20, clients |-> {s1}, pools |-> {s1}, miners |-> {}, config |-> ByTwo, moves |-> {}]

Batches == [Plain EXCEPT !.name = "batches", !.lists = ProviderLists, !.rates = TwoVersions, !.active = BOOLEAN, !.top = 2]
Windows == [Plain EXCEPT !.name = "windows", !.lists = TwoLists, !.synchronizers = {s1, s2}, !.top = 4,
              !.moves = {"gas", "evm"}]
Versions == [Plain EXCEPT !.name = "versions", !.lists = TwoLists, !.rates = TwoVersions, !.active = BOOLEAN,
               !.top = 3, !.moves = {"gas", "evm"}]
Claims == [Plain EXCEPT !.name = "claims", !.lists = OneList, !.synchronizers = {s1, s2}, !.top = 3,
             !.moves = {"gas", "evm", "claims", "pools"}]
Late == [Plain EXCEPT !.name = "late", !.lists = OneList, !.top = 3, !.paid = 40, !.moves = {"gas", "late", "slots"}]
Deletions == [Plain EXCEPT !.name = "deletions", !.lists = OneList, !.top = 4, !.moves = {"gas", "evm", "delete", "config"}]
Prepaid == [Plain EXCEPT !.name = "prepaid", !.paid = 40, !.clients = {s1, s2}, !.moves = {"accounts", "late", "slots"}]
Miner == [Plain EXCEPT !.name = "miner", !.lists = OneList, !.pools = {s1, s2}, !.miners = {m1, m2}, !.top = 2, !.moves = {"pools"}]
AllScenarios == {Batches, Windows, Versions, Claims, Late, Deletions, Prepaid, Miner}

VARIABLE scenario
May(move) == move \in scenario.moves

\* The step is one of the scenario.
InScenario ==
  /\ irreversible_height' <= scenario.top
  /\ distributing' => active_here' \in scenario.active
  /\ Version1 \notin scenario.rates => reward_log'["btc"].consensus = 0
  /\ migrating'.synchronizer \in scenario.synchronizers /\ migrating'.parser = s1
  /\ ~May("gas") => <<fees_stat, distributes>>' = <<fees_stat, distributes>>
  /\ ~May("evm") => fees_stat'.last_evm_height = 0
  /\ ~May("claims") => btc'.gasfund >= btc.gasfund
  /\ May("claims") =>
       /\ irreversible_height > 1 => DOMAIN pool' \subseteq DOMAIN pool
       /\ \A v \in {v2, v3} : Row(consensus_fees', v, 0) >= Row(consensus_fees, v, 0)
  /\ ~May("delete") => DOMAIN distributes \subseteq DOMAIN distributes' /\ DOMAIN reward_logs \subseteq DOMAIN reward_logs'
  /\ ~May("config") => gas_config' = gas_config
  /\ DOMAIN account' \subseteq scenario.clients
  /\ ~May("accounts") =>
       /\ ~resource_config'.disabled_withdraw
       /\ resource_config'.saved => resource_config'.cost # NoCost
       /\ btc'.rescmng < btc.rescmng => btc'.fees > btc.fees
       /\ btc'.rescmng > btc.rescmng => account = << >> /\ btc'.rescmng = 60
  /\ btc'.rescmng + btc'.fees <= 100
  /\ \A h \in DOMAIN feestat' :
       /\ feestat'[h] <= scenario.paid
       /\ feestat'[h] # Row(feestat, h, 0) /\ ~May("late") => h = NextHeight /\ ~distributing
  /\ ~May("slots") => 0 \notin DOMAIN feestat'
  /\ DOMAIN pool' \subseteq scenario.pools
  /\ ~May("pools") => pool_xsat' >= pool_xsat /\ DOMAIN pool \subseteq DOMAIN pool'
  /\ \A s \in DOMAIN pool' : Cardinality(scenario.pools) = 1 =>
       pool'[s].reward_recipient = s /\ pool'[s].latest_produced_block_height <= 1
  /\ DOMAIN miner' \subseteq scenario.miners
  /\ distributing' /\ ~distributing => scenario.pools = DOMAIN pool

MCInit == FeesInit /\ scenario \in Scenarios /\ gas_config = scenario.config /\ migrating = [synchronizer |-> s1, parser |-> s1]
MCNext ==
  /\ FeesStep(scenario.lists, 1..scenario.top, {10})
  /\ InScenario
  /\ UNCHANGED scenario

MCSpec == MCInit /\ [][MCNext]_<<feesVars, scenario>>
=============================================================================
