--------------------------- MODULE ExsatStaking ---------------------------
(***************************************************************************)
(* staking.xsat, xsatstk.xsat, custody.xsat and compete.xsat with          *)
(* endrmng.xsat: a stake, a release and a custody's stake change the       *)
(* tables of both contracts in one transaction.                            *)
(***************************************************************************)
EXTENDS Custody, TokenStaking

\* The native stakers are the accounts that may hold the tokens.
ASSUME ExsatStakingAssumption == Accounts = NativeStakers

allStakingVars == <<endorseManageVars, custodyVars, competeVars, tokenVars>>

\* Of the native stakes endrmng.xsat knows the amount and not the token.
Deposit(s, v, t, q) ==
  /\ do_stake(s, t, q)
  /\ IF t = XSAT THEN stakexsat(s, v, q) ELSE stake(s, v, q)
  /\ UNCHANGED <<custodyVars, competeVars>>

ReleaseStake(s, v, t, q) ==
  /\ release(s, t, q)
  /\ IF t = XSAT THEN unstakexsat(s, v, q) ELSE unstake(s, v, q)
  /\ UNCHANGED <<custodyVars, competeVars>>

TokenActions ==
  /\ \/ \E t \in AllTokens :
          addtoken(t) \/ deltoken(t) \/ \E disabled \in BOOLEAN : token_setstatus(t, disabled)
     \/ \E s \in NativeStakers, c \in StakingContracts : withdraw(s, c)
     \/ release_cycle_ends
  /\ UNCHANGED <<endorseManageVars, custodyVars, competeVars>>

StakingInit == EndorseManageInit /\ CustodyInit /\ TokenInit

StakingStep(S, V, R) ==
  \/ \E s \in S \cap NativeStakers, v \in V, t \in AllTokens, q \in Amounts :
       Deposit(s, v, t, q) \/ ReleaseStake(s, v, t, q)
  \/ TokenActions
  \/ CustodyNext(S, V) /\ UNCHANGED tokenVars
  \/ (DirectNext(S, V) \/ ConsensusCalls(V, R)) /\ UNCHANGED <<custodyVars, competeVars, tokenVars>>

StakingNext == StakingStep(Stakers, Validators, Rewards)
StakingSpec == StakingInit /\ [][StakingNext]_allStakingVars

-----------------------------------------------------------------------------
StakingTypeOK == EndorseManageTypeOK /\ CustodyTypeOK /\ TokenTypeOK

\* However a staker moves its stake between validators, what endrmng.xsat holds
\* for it in total is what it has staked in the two staking contracts, and these
\* hold the tokens.
StakesAreBacked ==
  /\ StakedTokensHeld
  /\ \A s \in NativeStakers :
       /\ Total([v \in Validators |-> staker[s][v].quantity]) = Total([t \in Tokens |-> staking[s][t]])
       /\ Total([v \in Validators |-> staker[s][v].xsat_quantity]) = staking[s][XSAT]
=============================================================================
