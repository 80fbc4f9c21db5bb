--------------------------- MODULE TokenStaking ---------------------------
(***************************************************************************)
(* staking.xsat and xsatstk.xsat: native accounts stake tokens by a        *)
(* transfer, release them and withdraw them after the release cycle.  The  *)
(* first takes a list of tokens that count as BTC, the second XSAT.  What  *)
(* endrmng.xsat does with a stake in the same transaction is added by      *)
(* ExsatStaking.                                                           *)
(***************************************************************************)
EXTENDS Integers, SequencesExt

CONSTANTS
  Accounts,
  Tokens,      \* what staking.xsat may list
  XSAT,        \* what xsatstk.xsat stakes
  max_row      \* releases paid by a withdrawal, 100

ASSUME TokenStakingAssumption ==
  XSAT \notin Tokens /\ IsFiniteSet(Tokens) /\ IsFiniteSet(Accounts) /\ max_row \in Nat \ {0}

VARIABLES
  token,       \* "absent", "open" or "disabled"
  staking,     \* what a staker has staked of a token
  releases,    \* what a staker has released, by contract, in order of expiration
  token_balance \* what the contracts hold of a token

tokenVars == <<token, staking, releases, token_balance>>

AllTokens == Tokens \cup {XSAT}
StakingContracts == {"staking.xsat", "xsatstk.xsat"}
ContractOf(t) == IF t = XSAT THEN "xsatstk.xsat" ELSE "staking.xsat"

\* xsatstk.xsat takes no stake before its configuration is first set.
TokenInit ==
  /\ token = [t \in AllTokens |-> "absent"]
  /\ staking = [s \in Accounts |-> [t \in AllTokens |-> 0]]
  /\ releases = [s \in Accounts |-> [c \in StakingContracts |-> << >>]]
  /\ token_balance = [t \in AllTokens |-> 0]

-----------------------------------------------------------------------------
addtoken(t) ==
  /\ t \in Tokens /\ token[t] = "absent"
  /\ token' = [token EXCEPT ![t] = "open"]
  /\ UNCHANGED <<staking, releases, token_balance>>

deltoken(t) ==
  /\ t \in Tokens /\ token[t] # "absent"
  /\ token_balance[t] = 0
  /\ token' = [token EXCEPT ![t] = "absent"]
  /\ UNCHANGED <<staking, releases, token_balance>>

token_setstatus(t, disabled) ==
  /\ t \in Tokens => token[t] # "absent"
  /\ token' = [token EXCEPT ![t] = IF disabled THEN "disabled" ELSE "open"]
  /\ UNCHANGED <<staking, releases, token_balance>>

\* on_transfer and do_stake.
do_stake(s, t, q) ==
  /\ token[t] = "open"
  /\ staking' = [staking EXCEPT ![s][t] = @ + q]
  /\ token_balance' = [token_balance EXCEPT ![t] = @ + q]
  /\ UNCHANGED <<token, releases>>

release(s, t, q) ==
  /\ staking[s][t] >= q
  /\ staking' = [staking EXCEPT ![s][t] = @ - q]
  /\ releases' = [releases EXCEPT ![s][ContractOf(t)] =
                    Append(@, [token |-> t, quantity |-> q, expired |-> FALSE])]
  /\ UNCHANGED <<token, token_balance>>

OfToken(rows, t) ==
  SumFunction([i \in DOMAIN rows |-> IF rows[i].token = t THEN rows[i].quantity ELSE 0])

\* Mutant: the last of the rows stays.
withdraw_KeepsOne(s, c) ==
  LET rows == releases[s][c]
      expired == {i \in DOMAIN rows : rows[i].expired}
      n == Min({max_row, Cardinality(expired)})
      paid == SubSeq(rows, 1, n) IN
  /\ expired # {}
  /\ releases' = [releases EXCEPT ![s][c] = SubSeq(rows, n, Len(rows))]
  /\ token_balance' = [t \in AllTokens |-> token_balance[t] - OfToken(paid, t)]
  /\ UNCHANGED <<token, staking>>

withdraw(s, c) ==
  LET rows == releases[s][c]
      expired == {i \in DOMAIN rows : rows[i].expired}
      n == Min({max_row, Cardinality(expired)})
      paid == SubSeq(rows, 1, n) IN
  /\ expired # {}
  /\ releases' = [releases EXCEPT ![s][c] = SubSeq(rows, n + 1, Len(rows))]
  /\ token_balance' = [t \in AllTokens |-> token_balance[t] - OfToken(paid, t)]
  /\ UNCHANGED <<token, staking>>

\* STAKE_RELEASE_CYCLE passes.
release_cycle_ends ==
  /\ releases' = [s \in Accounts |-> [c \in StakingContracts |->
       [i \in DOMAIN releases[s][c] |-> [releases[s][c][i] EXCEPT !.expired = TRUE]]]]
  /\ releases' # releases
  /\ UNCHANGED <<token, staking, token_balance>>

-----------------------------------------------------------------------------
ReleaseRow == [token : AllTokens, quantity : Nat, expired : BOOLEAN]

\* A contract has released its own tokens.
TokenTypeOK ==
  /\ token \in [AllTokens -> {"absent", "open", "disabled"}]
  /\ staking \in [Accounts -> [AllTokens -> Nat]]
  /\ releases \in [Accounts -> [StakingContracts -> Seq(ReleaseRow)]]
  /\ \A s \in Accounts, c \in StakingContracts : \A i \in DOMAIN releases[s][c] :
       ContractOf(releases[s][c][i].token) = c
  /\ token_balance \in [AllTokens -> Int]

\* Of every token the contracts hold exactly what is staked and what is
\* released and not yet withdrawn, so that a withdrawal never lacks funds and
\* deltoken never drops a token somebody staked.
StakedTokensHeld ==
  \A t \in AllTokens :
    token_balance[t] =
      SumFunction([s \in Accounts |-> staking[s][t] + OfToken(releases[s][ContractOf(t)], t)])
=============================================================================
