---------------------------- MODULE PoolRegister ----------------------------
(***************************************************************************)
(* poolreg.xsat: the synchronizers, the Bitcoin addresses they mine to,    *)
(* the slots they bought for their uploads (paid through rescmng.xsat) and *)
(* the rewards that rwddist.xsat transfers to them.                        *)
(***************************************************************************)
EXTENDS ResourceManage

CONSTANTS
  Pools,     \* accounts that may be synchronizers
  Miners,    \* Bitcoin addresses
  DEFAULT_NUM_SLOTS, MAX_NUM_SLOTS

ASSUME PoolAssumption ==
  /\ Pools \subseteq Clients
  /\ DEFAULT_NUM_SLOTS \in Nat /\ MAX_NUM_SLOTS \in Nat /\ DEFAULT_NUM_SLOTS <= MAX_NUM_SLOTS

VARIABLES
  pool,         \* the row of each registered synchronizer
  miner,        \* the synchronizer each known address belongs to
  pool_xsat     \* the XSAT poolreg.xsat holds

poolVars == <<pool, miner, pool_xsat>>

NewPool(height, recipient) ==
  [num_slots |-> DEFAULT_NUM_SLOTS, latest_produced_block_height |-> height,
   reward_recipient |-> recipient, unclaimed |-> 0, latest_reward_block |-> 0]

\* An address that is known stays with its synchronizer.
save_miners(s, M) == miner' = [m \in DOMAIN miner \cup M |-> Row(miner, m, s)]

-----------------------------------------------------------------------------
\* utxomng.xsat, for the miner of the block of this height that reached consensus.
updateheight(s, height, M) ==
  /\ IF s \notin DOMAIN pool THEN pool' = Put(pool, s, NewPool(height, s))
       ELSE /\ pool[s].latest_produced_block_height < height
            /\ pool' = [pool EXCEPT ![s].latest_produced_block_height = height]
  /\ save_miners(s, M)
  /\ UNCHANGED pool_xsat

initpool(s, height, recipient, M) ==
  /\ IF s \notin DOMAIN pool THEN pool' = Put(pool, s, NewPool(height, recipient))
       ELSE pool' = [pool EXCEPT ![s] =
              IF @.latest_produced_block_height < height
                THEN [@ EXCEPT !.latest_produced_block_height = height, !.reward_recipient = recipient]
                ELSE @]
  /\ save_miners(s, M)
  /\ UNCHANGED pool_xsat

\* Mutant: the addresses of the synchronizer stay.
delpool_MinersStay(s) ==
  /\ s \in DOMAIN pool /\ pool[s].unclaimed = 0
  /\ pool' = Drop(pool, {s})
  /\ UNCHANGED <<miner, pool_xsat>>

delpool(s) ==
  /\ s \in DOMAIN pool /\ pool[s].unclaimed = 0
  /\ pool' = Drop(pool, {s})
  /\ miner' = Drop(miner, {m \in DOMAIN miner : miner[m] = s})
  /\ UNCHANGED pool_xsat

unbundle(m) ==
  /\ m \in DOMAIN miner
  /\ miner' = Drop(miner, {m})
  /\ UNCHANGED <<pool, pool_xsat>>

setfinacct(s, recipient) ==
  /\ s \in DOMAIN pool
  /\ pool' = [pool EXCEPT ![s].reward_recipient = recipient]
  /\ UNCHANGED <<miner, pool_xsat>>

\* The donated part and the rest leave together.
claim(s) ==
  /\ s \in DOMAIN pool /\ pool[s].unclaimed > 0
  /\ pool' = [pool EXCEPT ![s].unclaimed = 0]
  /\ pool_xsat' = pool_xsat - pool[s].unclaimed
  /\ UNCHANGED miner

\* Anyone with a balance in rescmng.xsat buys slots for a synchronizer.
buyslot(s, receiver, num_slots) ==
  /\ receiver \in DOMAIN pool
  /\ pool[receiver].num_slots + num_slots <= MAX_NUM_SLOTS
  /\ pool' = [pool EXCEPT ![receiver].num_slots = @ + num_slots]
  /\ pay(0, s, "BUY_SLOT", num_slots)
  /\ UNCHANGED <<miner, pool_xsat>>

\* on_transfer, from rwddist.xsat: the reward of the synchronizer s for a height.
RewardPool(s, height, quantity) ==
  /\ s \in DOMAIN pool /\ pool[s].latest_reward_block < height
  /\ pool' = [pool EXCEPT ![s].latest_reward_block = height, ![s].unclaimed = @ + quantity]
  /\ pool_xsat' = pool_xsat + quantity
  /\ UNCHANGED miner

PoolInit == pool = << >> /\ miner = << >> /\ pool_xsat = 0

\* H: the heights a block may be produced at.
PoolNext(H) ==
  \/ \E s \in Pools :
       \/ \E h \in H, M \in SUBSET Miners, r \in Pools : updateheight(s, h, M) \/ initpool(s, h, r, M)
       \/ \E r \in Pools : setfinacct(s, r)
       \/ delpool(s)
       \/ claim(s)
  \/ \E m \in Miners : unbundle(m)

-----------------------------------------------------------------------------
PoolRow ==
  [num_slots : Nat, latest_produced_block_height : Nat, reward_recipient : Pools,
   unclaimed : Nat, latest_reward_block : Nat]

PoolTypeOK ==
  /\ pool \in [DOMAIN pool -> PoolRow] /\ DOMAIN pool \subseteq Pools /\ IsFiniteSet(DOMAIN pool)
  /\ miner \in [DOMAIN miner -> Pools]
  /\ pool_xsat \in Int

\* What was transferred for the synchronizers and not claimed is there, each
\* unit for one that is registered, and every known address belongs to one: a
\* synchronizer is never deleted with a reward, nor its addresses left behind.
PoolsKeepTheirs ==
  /\ pool_xsat = SumFunction([s \in DOMAIN pool |-> pool[s].unclaimed])
  /\ \A m \in DOMAIN miner : miner[m] \in DOMAIN pool
=============================================================================
