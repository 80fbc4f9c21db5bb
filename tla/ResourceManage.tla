--------------------------- MODULE ResourceManage ---------------------------
(***************************************************************************)
(* rescmng.xsat: accounts prepay BTC, from which the other contracts       *)
(* deduct a fee for each action they do for the account.  A fee is sent to *)
(* the fee account at once and counted under the height it was paid for;   *)
(* gasfund.xsat later collects the fees of a height by that count.         *)
(***************************************************************************)
EXTENDS Integers, FiniteSetsExt, Functions

CONSTANTS
  Clients,   \* accounts that pay fees
  Costs,     \* what init may set: functions from FeeTypes to the cost of a unit
  Deposits   \* the sums deposited and withdrawn

FeeTypes == {"BUY_SLOT", "PUSH_CHUNK", "VERIFY", "ENDORSE", "PARSE"}
BlockFees == FeeTypes \ {"BUY_SLOT"}
NoCost == [t \in FeeTypes |-> 0]

ASSUME ResourceAssumption ==
  /\ Costs \subseteq [FeeTypes -> Nat]
  /\ Deposits \subseteq Nat \ {0}

VARIABLES
  resource_config,  \* saved by init or setstatus, or still the default
  account,          \* prepaid balances of the accounts that have a row
  feestat,          \* the total fee of each height that has a row; 0 is for slots
  btc               \* the BTC of rescmng.xsat, of the fee account and of gasfund.xsat

resourceVars == <<resource_config, account, feestat, btc>>

Move(from, to, n) == [btc EXCEPT ![from] = @ - n, ![to] = @ + n]

\* A table as a partial function: its row k, or a default; the table with a row
\* k, new or not, and without the rows K.
Row(table, k, default) == IF k \in DOMAIN table THEN table[k] ELSE default
Put(table, k, row) == [x \in DOMAIN table \cup {k} |-> IF x = k THEN row ELSE table[x]]
Drop(table, K) == Restrict(table, DOMAIN table \ K)

-----------------------------------------------------------------------------
\* on_transfer: a transfer to rescmng.xsat names the account it is for.
do_deposit(receiver, quantity) ==
  /\ account' = Put(account, receiver, Row(account, receiver, 0) + quantity)
  /\ btc' = [btc EXCEPT !.rescmng = @ + quantity]
  /\ UNCHANGED <<resource_config, feestat>>

withdraw(owner, quantity) ==
  /\ resource_config.saved /\ ~resource_config.disabled_withdraw
  /\ owner \in DOMAIN account /\ account[owner] >= quantity
  /\ account' = IF account[owner] = quantity THEN Drop(account, {owner})
                  ELSE [account EXCEPT ![owner] = @ - quantity]
  /\ btc' = [btc EXCEPT !.rescmng = @ - quantity]
  /\ UNCHANGED <<resource_config, feestat>>

get_fee(type, quantity) == resource_config.cost[type] * quantity

\* The inline action of the contract that does the work; its abort undoes the
\* caller's transaction.
pay(height, owner, type, quantity) ==
  LET fee == get_fee(type, quantity) IN
  /\ resource_config.saved
  /\ owner \in DOMAIN account /\ account[owner] >= fee
  /\ account' = [account EXCEPT ![owner] = @ - fee]
  /\ btc' = Move("rescmng", "fees", fee)
  /\ feestat' = Put(feestat, height, Row(feestat, height, 0) + fee)

-----------------------------------------------------------------------------
init(costs) ==
  /\ resource_config' = [resource_config EXCEPT !.saved = TRUE, !.cost = costs]
  /\ UNCHANGED <<account, feestat, btc>>

setstatus(disabled) ==
  /\ resource_config' = [resource_config EXCEPT !.saved = TRUE, !.disabled_withdraw = disabled]
  /\ UNCHANGED <<account, feestat, btc>>

ResourceInit ==
  /\ resource_config = [saved |-> FALSE, disabled_withdraw |-> FALSE, cost |-> NoCost]
  /\ account = << >> /\ feestat = << >>
  /\ btc = [rescmng |-> 0, fees |-> 0, gasfund |-> 0]

\* What anybody may do with the contract; blksync.xsat, blkendt.xsat and
\* utxomng.xsat charge a unit for a chunk, a verification, an endorsement or a
\* parsing of a block of one of the heights H.
ResourceNext(H) ==
  \/ \E a \in Clients, n \in Deposits : do_deposit(a, n) \/ withdraw(a, n)
  \/ \E h \in H, a \in Clients, t \in BlockFees : pay(h, a, t, 1) /\ UNCHANGED resource_config
  \/ \E c \in Costs : init(c)
  \/ \E disabled \in BOOLEAN : setstatus(disabled)

-----------------------------------------------------------------------------
ResourceTypeOK ==
  /\ resource_config \in [saved : BOOLEAN, disabled_withdraw : BOOLEAN, cost : [FeeTypes -> Nat]]
  /\ account \in [DOMAIN account -> Nat] /\ IsFiniteSet(DOMAIN account)
  /\ feestat \in [DOMAIN feestat -> Nat] /\ DOMAIN feestat \subseteq Nat /\ IsFiniteSet(DOMAIN feestat)
  /\ btc \in [rescmng : Int, fees : Int, gasfund : Int]
=============================================================================
