----------------------------- MODULE Custody -----------------------------
(***************************************************************************)
(* custody.xsat: the Bitcoin addresses it watches for a credit stake, and  *)
(* the validators that enroll to have theirs verified.  compete.xsat: the  *)
(* rounds in which qualified validators are activated.  Both read the      *)
(* validators of endrmng.xsat.                                             *)
(***************************************************************************)
EXTENDS EndorseManage, Sequences

CONSTANTS valid_blocks, Quotas

ASSUME CustodyAssumption == "none" \notin Validators /\ valid_blocks \in Nat /\ Quotas \subseteq Nat

VARIABLES
  custody,     \* by credit staker: its validator and the value staked
  enrollment,  \* by validator
  rounds,      \* the quotas of the rounds
  activation   \* the round in which a validator was activated, 0 before

custodyVars == <<custody, enrollment>>
competeVars == <<rounds, activation>>

CreditStakers == {u \in EvmStakers : IsCredit(u)}
NoCustody == [validator |-> "none", value |-> 0]
NoEnrollment == [end_height |-> 0, is_valid |-> "none", txid |-> FALSE]

CustodyInit ==
  /\ custody = [u \in CreditStakers |-> NoCustody]
  /\ enrollment = [v \in Validators |-> NoEnrollment]
  /\ rounds = << >>
  /\ activation = [v \in Validators |-> 0]

-----------------------------------------------------------------------------
(* The credit stakes. *)

HasCustody(u) == custody[u] # NoCustody

addcustody(u, v) ==
  /\ \A w \in CreditStakers : w.address = u.address => ~HasCustody(w)
  /\ custody' = [custody EXCEPT ![u] = [validator |-> v, value |-> 0]]
  /\ UNCHANGED <<enrollment, competeVars, endorseManageVars>>

\* Mutant: the stake is not withdrawn.
delcustody_KeepsStake(u) ==
  LET v == custody[u].validator IN
  /\ HasCustody(u)
  /\ custody' = [custody EXCEPT ![u] = NoCustody]
  /\ enrollment' = [enrollment EXCEPT ![v] = NoEnrollment]
  /\ UNCHANGED <<competeVars, endorseManageVars>>

delcustody(u) ==
  LET v == custody[u].validator IN
  /\ HasCustody(u)
  /\ IF staker[u][v].quantity > 0 THEN creditstake(u, v, 0) ELSE UNCHANGED endorseManageVars
  /\ custody' = [custody EXCEPT ![u] = NoCustody]
  /\ enrollment' = [enrollment EXCEPT ![v] = NoEnrollment]
  /\ UNCHANGED competeVars

\* creditstake and handle_staking: the whole base or nothing.
handle_staking(u, enough) ==
  LET v == custody[u].validator
      value == IF enough THEN MIN_BTC_STAKE_FOR_VALIDATOR ELSE 0 IN
  /\ HasCustody(u)
  /\ value # staker[u][v].quantity
  /\ creditstake(u, v, value)
  /\ custody' = [custody EXCEPT ![u].value = value]
  /\ UNCHANGED <<enrollment, competeVars>>

-----------------------------------------------------------------------------
(* The enrollments: a validator enrolls, names its transaction within      *)
(* valid_blocks, and is told the result.                                   *)

enroll(v) ==
  /\ v \in Registered
  /\ validator[v].active_flag # 1 /\ validator[v].role = 0
  /\ enrollment[v] # NoEnrollment /\ head_height <= enrollment[v].end_height
       => enrollment[v].is_valid = "failed"
  /\ enrollment' = [enrollment EXCEPT ![v] =
       [end_height |-> head_height + valid_blocks, is_valid |-> "pending", txid |-> FALSE]]
  /\ UNCHANGED <<custody, competeVars, endorseManageVars>>

verifytx(v) ==
  /\ enrollment[v].is_valid = "pending"
  /\ head_height <= enrollment[v].end_height
  /\ enrollment' = [enrollment EXCEPT ![v].txid = TRUE]
  /\ UNCHANGED <<custody, competeVars, endorseManageVars>>

verifyresult(v, result) ==
  /\ result \in {"verified", "failed"}
  /\ enrollment[v] # NoEnrollment
  /\ enrollment' = [enrollment EXCEPT ![v].is_valid = result]
  /\ UNCHANGED <<custody, competeVars, endorseManageVars>>

-----------------------------------------------------------------------------
(* compete.xsat *)

total_quotas == Total(rounds)
Activated == {v \in Validators : activation[v] # 0}

\* Mutant: a round opens while the last has places left.
addround_Early(quota) ==
  rounds' = Append(rounds, quota) /\ UNCHANGED <<activation, custodyVars, endorseManageVars>>

addround(quota) ==
  /\ Cardinality(Activated) = total_quotas
  /\ rounds' = Append(rounds, quota)
  /\ UNCHANGED <<activation, custodyVars, endorseManageVars>>

\* That the round has started and that the validator donates enough is left
\* open: an activation that fails is not taken.
activate(v) ==
  /\ v \in Registered /\ validator[v].qualification >= MIN_BTC_STAKE_FOR_VALIDATOR
  /\ v \notin Activated
  /\ Cardinality(Activated) < total_quotas
  /\ activation' = [activation EXCEPT ![v] = Len(rounds)]
  /\ UNCHANGED <<rounds, custodyVars, endorseManageVars>>

CustodyNext(S, V) ==
  \/ \E u \in S \cap CreditStakers :
       \/ \E v \in V : addcustody(u, v)
       \/ delcustody(u)
       \/ \E enough \in BOOLEAN : handle_staking(u, enough)
  \/ \E v \in V :
       \/ enroll(v) \/ verifytx(v) \/ activate(v)
       \/ \E result \in {"verified", "failed"} : verifyresult(v, result)
  \/ \E q \in Quotas : addround(q)

-----------------------------------------------------------------------------
CustodyType == [validator : Validators \cup {"none"}, value : Nat]
EnrollmentType ==
  [end_height : Nat, is_valid : {"none", "pending", "verified", "failed"}, txid : BOOLEAN]

CustodyTypeOK ==
  /\ custody \in [CreditStakers -> CustodyType]
  /\ \A u \in CreditStakers : custody[u].validator = "none" => custody[u] = NoCustody
  /\ enrollment \in [Validators -> EnrollmentType]
  /\ rounds \in Seq(Nat)
  /\ activation \in [Validators -> 0..Len(rounds)]

\* Credit is only where custody.xsat put it: a stake through a credit proxy is
\* the value that the custody of its address has on file for the validator.
CreditInCustody ==
  \A u \in CreditStakers, v \in Validators :
    staker[u][v].quantity = IF HasCustody(u) /\ custody[u].validator = v THEN custody[u].value ELSE 0

\* Every round but the last is full, and none is more than full.
RoundsFilledInOrder ==
  \A r \in DOMAIN rounds :
    LET n == Cardinality({v \in Validators : activation[v] = r}) IN
    n <= rounds[r] /\ (r < Len(rounds) => n = rounds[r])
=============================================================================
