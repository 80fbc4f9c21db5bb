----------------------- MODULE RewardDistributionProofs -----------------------
(***************************************************************************)
(* The subsidy of a height is paid out in full, and to everyone the same    *)
(* share for the same stake, for every set of validators, every stake and   *)
(* every size of the batches.  The proof follows the amounts: the parts of  *)
(* the subsidy, the sums of rounded shares, one batch of one log, and the   *)
(* transaction that pays a batch of both logs.  The same is then shown of    *)
(* the rewards while the pools, the fees and the fund act between the        *)
(* batches, and from height to height.                                       *)
(*                                                                           *)
(* The second half is about the fees: every unit of BTC is where it is       *)
(* counted, synchronizer rewards included; a distribution follows what was   *)
(* paid; and what waits for one can be shared.                               *)
(***************************************************************************)
EXTENDS FoldTheorems, ExsatFees

\* A quotient of naturals, rounded down.
LEMMA DivNat ==
  ASSUME NEW a \in Nat, NEW b \in Nat, b # 0
  PROVE  a \div b \in Nat /\ b * (a \div b) <= a
  OBVIOUS

\* The sum over a part of a set of naturals is not more than over the set.
LEMMA SumPart ==
  ASSUME NEW S, IsFiniteSet(S), NEW T \in SUBSET S, NEW f, \A x \in S : f[x] \in Nat
  PROVE  SumFunctionOnSet(f, T) \in Nat /\ SumFunctionOnSet(f, T) <= SumFunctionOnSet(f, S)
<1>1. PICK R : R = S \ T
  OBVIOUS
<1>2. IsFiniteSet(T) /\ IsFiniteSet(R) /\ R \cap T = {} /\ R \cup T = S
      /\ (\A x \in R \cup T : f[x] \in Int) /\ \A x \in T : f[x] \in Nat
  BY <1>1, FS_Subset
<1>3. SumFunctionOnSet(f, R \cup T) = SumFunctionOnSet(f, R) + SumFunctionOnSet(f, T)
  BY <1>2, SumUnion
<1>4. SumFunctionOnSet(f, T) \in Nat
  BY <1>2, SumBound
<1>5. SumFunctionOnSet(f, R) \in Nat
  <2>1. \A x \in R : f[x] \in Nat
    BY <1>1
  <2> QED
    BY <1>2, <2>1, SumBound
<1>6. SumFunctionOnSet(f, S) = SumFunctionOnSet(f, R) + SumFunctionOnSet(f, T)
  BY <1>2, <1>3
<1> QED
  BY <1>4, <1>5, <1>6

\* The sum of the stakes that endorsed is positive.
LEMMA EndorsedPositive ==
  ASSUME NEW log \in LogType, log.providers # << >>
  PROVE  /\ Len(log.providers) \in Nat \ {0} /\ DOMAIN log.providers = 1..Len(log.providers)
         /\ IsFiniteSet(DOMAIN log.providers) /\ Cardinality(DOMAIN log.providers) = Len(log.providers)
         /\ \A i \in DOMAIN log.providers : log.providers[i] \in Validators
                                             /\ Staking[log.providers[i]] \in Nat \ {0}
         /\ EndorsedStaking(log) \in Nat \ {0}
<1>1. PICK p : p = log.providers
  OBVIOUS
<1>2. p \in Seq(Validators) /\ p # << >>
  BY <1>1 DEF LogType
<1>3. /\ Len(p) \in Nat \ {0} /\ DOMAIN p = 1..Len(p)
      /\ \A i \in DOMAIN p : p[i] \in Validators
  BY <1>2
<1>4. IsFiniteSet(DOMAIN p) /\ Cardinality(DOMAIN p) = Len(p)
  BY <1>3, FS_Interval
<1>5. \A i \in DOMAIN p : Staking[p[i]] \in Nat \ {0}
  BY <1>3, RewardAssumption
<1>6. PICK f : f = [i \in DOMAIN p |-> Staking[p[i]]]
  OBVIOUS
<1>7. EndorsedStaking(log) = SumFunctionOnSet(f, DOMAIN p)
  BY <1>1, <1>6 DEF EndorsedStaking, Sum, SumFunction
<1>8. SumFunctionOnSet(f, DOMAIN p) \in Nat /\ \A i \in DOMAIN p : f[i] <= SumFunctionOnSet(f, DOMAIN p)
  <2>1. \A i \in DOMAIN p : f[i] \in Nat
    BY <1>5, <1>6
  <2> QED
    BY <1>4, <2>1, SumBound
<1>9. 1 \in DOMAIN p /\ f[1] \in Nat \ {0}
  BY <1>3, <1>5, <1>6
<1>10. SumFunctionOnSet(f, DOMAIN p) # 0
  BY <1>8, <1>9
<1> QED
  BY <1>1, <1>3, <1>4, <1>5, <1>7, <1>8, <1>10

\* The staking shares of any providers together are not more than what is divided.
LEMMA StakingSums ==
  ASSUME NEW log \in LogType, log.providers # << >>,
         NEW q, q = [i \in DOMAIN log.providers |-> StakingShare(log, i)]
  PROVE  /\ \A i \in DOMAIN log.providers : q[i] \in Nat
         /\ \A T \in SUBSET DOMAIN log.providers :
              /\ IsFiniteSet(T)
              /\ StakingShares(log, T) = SumFunctionOnSet(q, T)
              /\ SumFunctionOnSet(q, T) \in Nat
              /\ SumFunctionOnSet(q, T) <= log.staking
<1>1. PICK p, d, c : p = log.providers /\ d = EndorsedStaking(log) /\ c = log.staking
  OBVIOUS
<1>2. /\ IsFiniteSet(DOMAIN p) /\ d \in Nat \ {0} /\ c \in Nat
      /\ \A i \in DOMAIN p : Staking[p[i]] \in Nat
  BY <1>1, EndorsedPositive DEF LogType
<1>3. PICK f : f = [i \in DOMAIN p |-> Staking[p[i]]]
  OBVIOUS
<1>4. d = SumFunctionOnSet(f, DOMAIN p)
  BY <1>1, <1>3 DEF EndorsedStaking, Sum, SumFunction
<1>5. \A i \in DOMAIN p : f[i] \in Nat /\ q[i] = (c * f[i]) \div d
  BY <1>1, <1>2, <1>3 DEF StakingShare
<1>6. \A i \in DOMAIN p : q[i] \in Nat /\ d * q[i] <= c * f[i]
  <2> SUFFICES ASSUME NEW i \in DOMAIN p PROVE q[i] \in Nat /\ d * q[i] <= c * f[i]
    OBVIOUS
  <2>1. PICK x : x = c * f[i]
    OBVIOUS
  <2>2. x \in Nat
    <3>1. \A a, b \in Nat : a * b \in Nat
      OBVIOUS
    <3> QED
      BY <1>2, <1>5, <2>1, <3>1
  <2>3. x \div d \in Nat /\ d * (x \div d) <= x
    BY ONLY <1>2, <2>2, DivNat
  <2> QED
    BY <1>5, <2>1, <2>3
<1>7. ASSUME NEW T \in SUBSET DOMAIN p
      PROVE  /\ IsFiniteSet(T)
             /\ StakingShares(log, T) = SumFunctionOnSet(q, T)
             /\ SumFunctionOnSet(q, T) \in Nat
             /\ SumFunctionOnSet(q, T) <= c
  <2>1. IsFiniteSet(T)
    BY <1>2, FS_Subset
  <2>2. SumFunctionOnSet(q, T) \in Nat
    BY <2>1, <1>6, SumBound
  <2>3. StakingShares(log, T) = SumFunctionOnSet(q, T)
    <3>1. PICK h : h = [i \in T |-> StakingShare(log, i)]
      OBVIOUS
    <3>2. ASSUME NEW i \in T PROVE q[i] \in Int /\ h[i] = q[i]
      <4>1. i \in DOMAIN log.providers /\ q[i] \in Nat
        BY <1>1, <1>6
      <4>2. h[i] = StakingShare(log, i)
        BY <3>1
      <4>3. q[i] = StakingShare(log, i)
        BY <4>1
      <4> QED
        BY <4>1, <4>2, <4>3
    <3>3. SumFunctionOnSet(h, T) = SumFunctionOnSet(q, T)
      BY <2>1, <3>2, SumEqual
    <3> QED
      BY <3>1, <3>3 DEF StakingShares, Sum, SumFunction
  <2>4. d * SumFunctionOnSet(q, T) <= c * SumFunctionOnSet(f, T)
    <3>1. \A i \in T : f[i] \in Int /\ q[i] \in Int /\ d * q[i] <= c * f[i]
      BY <1>5, <1>6
    <3> QED
      BY <1>2, <2>1, <3>1, SumScaled
  <2>5. SumFunctionOnSet(f, T) \in Nat /\ SumFunctionOnSet(f, T) <= d
    BY <1>2, <1>4, <1>5, SumPart
  <2>6. PICK a, b \in Nat : a = SumFunctionOnSet(q, T) /\ b = SumFunctionOnSet(f, T)
    BY <2>2, <2>5
  <2>7. d * a <= c * b /\ b <= d
    BY <2>4, <2>5, <2>6
  <2>8. c * b <= c * d
    BY <1>2, <2>7
  <2>9. a <= c
    <3>1. SUFFICES ASSUME a >= c + 1 PROVE FALSE
      BY <1>2
    <3>2. d * a >= d * (c + 1) /\ d * (c + 1) = d * c + d /\ d * c = c * d
      BY <1>2, <3>1
    <3>3. PICK x, y \in Int : x = d * a /\ y = c * d
      BY <1>2
    <3> QED
      BY <1>2, <2>7, <2>8, <3>2, <3>3
  <2> QED
    BY <2>1, <2>2, <2>3, <2>6, <2>9
<1> QED
  BY <1>1, <1>6, <1>7

\* The even shares of n providers are not more than the consensus reward.
LEMMA ConsensusSums ==
  ASSUME NEW log \in LogType, log.providers # << >>
  PROVE  /\ ConsensusShare(log) \in Nat
         /\ \A n \in 0..Len(log.providers) : /\ ConsensusShare(log) * n \in Nat
                                             /\ ConsensusShare(log) * n <= log.consensus
<1>1. PICK c, d : c = log.consensus /\ d = Len(log.providers)
  OBVIOUS
<1>2. c \in Nat /\ d \in Nat \ {0}
  BY <1>1, EndorsedPositive DEF LogType
<1>3. PICK x : x = c \div d
  OBVIOUS
<1>4. x \in Nat /\ d * x <= c
  BY ONLY <1>2, <1>3, DivNat
<1>5. ASSUME NEW n \in 0..d PROVE x * n \in Nat /\ x * n <= c
  <2>1. n \in Nat /\ n <= d
    BY <1>2
  <2>2. x * n \in Nat /\ x * n <= x * d /\ x * d = d * x
    BY ONLY <1>2, <1>4, <2>1
  <2>3. PICK y, z : y = x * n /\ z = d * x
    OBVIOUS
  <2>4. y \in Nat /\ y <= z /\ z <= c
    BY <1>4, <2>2, <2>3
  <2>5. z \in Int
    BY ONLY <1>2, <1>4, <2>3
  <2> QED
    BY <1>2, <2>3, <2>4, <2>5
<1> QED
  BY <1>1, <1>3, <1>4, <1>5 DEF ConsensusShare

\* The shares of any providers but the last.
LEMMA FullShares ==
  ASSUME NEW log \in LogType, log.providers # << >>, NEW T \in SUBSET DOMAIN log.providers
  PROVE  LET sum == Sum([i \in T |-> StakingShare(log, i) + ConsensusShare(log)]) IN
         /\ sum = StakingShares(log, T) + ConsensusShare(log) * Cardinality(T)
         /\ sum \in Nat /\ Cardinality(T) \in Nat
<1>1. PICK q : q = [i \in DOMAIN log.providers |-> StakingShare(log, i)]
  OBVIOUS
<1>2. PICK c : c = ConsensusShare(log)
  OBVIOUS
<1>3. c \in Nat
  BY <1>2, ConsensusSums
<1>4. /\ IsFiniteSet(T) /\ Cardinality(T) \in Nat
      /\ StakingShares(log, T) = SumFunctionOnSet(q, T)
      /\ SumFunctionOnSet(q, T) \in Nat
      /\ \A i \in T : q[i] \in Nat /\ q[i] = StakingShare(log, i)
  <2>1. /\ \A i \in T : q[i] \in Nat /\ q[i] = StakingShare(log, i)
        /\ IsFiniteSet(T)
    BY <1>1, StakingSums
  <2> QED
    BY <1>1, <2>1, StakingSums, FS_CardinalityType
<1>5. PICK g, h : g = [i \in T |-> c] /\ h = [i \in T |-> StakingShare(log, i) + ConsensusShare(log)]
  OBVIOUS
<1>6. SumFunctionOnSet(g, T) = c * Cardinality(T)
  BY <1>3, <1>4, <1>5, SumConstant
<1>7. \A i \in T : q[i] \in Int /\ g[i] \in Int /\ h[i] = q[i] + g[i]
  BY <1>2, <1>3, <1>4, <1>5
<1>8. SumFunctionOnSet(h, T) = SumFunctionOnSet(q, T) + SumFunctionOnSet(g, T)
  BY <1>4, <1>7, SumAdd
<1>9. Sum(h) = SumFunctionOnSet(q, T) + c * Cardinality(T)
  BY <1>5, <1>6, <1>8 DEF Sum, SumFunction
<1>10. c * Cardinality(T) \in Nat
  BY <1>3, <1>4
<1> QED
  BY <1>2, <1>4, <1>5, <1>9, <1>10

\* The shares of n providers and of those up to m.
SharesSplit(log, n, m) ==
  LET slice == (n + 1)..m IN
  /\ slice \in SUBSET DOMAIN log.providers /\ Cardinality(slice) = m - n
  /\ StakingShares(log, 1..n) \in Nat /\ StakingShares(log, slice) \in Nat
  /\ StakingShares(log, 1..m) = StakingShares(log, 1..n) + StakingShares(log, slice)
  /\ StakingShares(log, 1..m) \in Nat /\ StakingShares(log, 1..m) <= log.staking
  /\ ConsensusShare(log) * n + ConsensusShare(log) * (m - n) = ConsensusShare(log) * m

\* What the providers of one batch of a log are paid.
LEMMA SliceShares ==
  ASSUME NEW log \in LogType, log.providers # << >>,
         NEW n \in Nat, NEW m \in Nat, n <= m, m <= Len(log.providers)
  PROVE  SharesSplit(log, n, m)
<1>1. PICK q : q = [i \in DOMAIN log.providers |-> StakingShare(log, i)]
  OBVIOUS
<1>2. /\ DOMAIN log.providers = 1..Len(log.providers) /\ Len(log.providers) \in Nat \ {0}
      /\ ConsensusShare(log) \in Nat
  BY EndorsedPositive, ConsensusSums
<1>3. PICK A, B, C : A = 1..n /\ B = (n + 1)..m /\ C = 1..m
  OBVIOUS
<1>4. /\ A \in SUBSET DOMAIN log.providers /\ B \in SUBSET DOMAIN log.providers
      /\ C \in SUBSET DOMAIN log.providers
      /\ A \cup B = C /\ A \cap B = {}
  BY <1>2, <1>3
<1>5. Cardinality(B) = m - n
  <2>1. PICK a : a = n + 1
    OBVIOUS
  <2>2. a \in Int /\ m \in Int /\ B = a..m
    BY <1>3, <2>1
  <2>3. Cardinality(a..m) = IF a > m THEN 0 ELSE m - a + 1
    BY ONLY <2>2, FS_Interval
  <2> QED
    BY <2>1, <2>2, <2>3
<1>6. \A T \in {A, B, C} : /\ IsFiniteSet(T)
                           /\ StakingShares(log, T) = SumFunctionOnSet(q, T)
                           /\ SumFunctionOnSet(q, T) \in Nat /\ SumFunctionOnSet(q, T) <= log.staking
  <2> SUFFICES ASSUME NEW T \in {A, B, C}
               PROVE  /\ IsFiniteSet(T)
                      /\ StakingShares(log, T) = SumFunctionOnSet(q, T)
                      /\ SumFunctionOnSet(q, T) \in Nat /\ SumFunctionOnSet(q, T) <= log.staking
    OBVIOUS
  <2>1. T \in SUBSET DOMAIN log.providers
    BY <1>4
  <2> QED
    BY <1>1, <2>1, StakingSums
<1>7. SumFunctionOnSet(q, C) = SumFunctionOnSet(q, A) + SumFunctionOnSet(q, B)
  <2>1. \A i \in A \cup B : q[i] \in Int
    BY <1>1, <1>4, StakingSums
  <2> QED
    BY <1>4, <1>6, <2>1, SumUnion
<1>8. \A x \in Nat : x * n + x * (m - n) = x * m
  OBVIOUS
<1> QED
  BY <1>2, <1>3, <1>4, <1>5, <1>6, <1>7, <1>8 DEF SharesSplit

\* What is left of the balance of a log after n providers.
BalanceAfter(log, balance, n) ==
  /\ balance.consensus = log.consensus - ConsensusShare(log) * n
  /\ balance.staking = log.staking - StakingShares(log, 1..n)

\* The shares of the providers from n + 1 to m.
BatchPays(log, balance, n, m, share) ==
  LET slice == (n + 1)..m
      last == Len(log.providers) IN
  /\ share \in [slice -> Nat]
  /\ \A i \in slice : i # last => share[i] = StakingShare(log, i) + ConsensusShare(log)
  /\ Sum(share) = IF m = last THEN balance.staking + balance.consensus
                   ELSE StakingShares(log, slice) + ConsensusShare(log) * (m - n)

\* The shares of a batch: nobody's is below zero, and with the last provider in
\* it they add up to what was left, otherwise to the full shares.
LEMMA BatchShares ==
  ASSUME NEW log \in LogType, log.providers # << >>, NEW balance \in BalanceType,
         NEW n \in Nat, NEW m \in Nat, n < m, m <= Len(log.providers),
         BalanceAfter(log, balance, n)
  PROVE  BatchPays(log, balance, n, m, Shares(log, balance, (n + 1)..m))
<1> USE DEF BalanceAfter, BatchPays
<1>1. PICK L, c, slice, body :
        /\ L = Len(log.providers) /\ c = ConsensusShare(log) /\ slice = (n + 1)..m
        /\ body = slice \ {L}
  OBVIOUS
<1>2. PICK left : left = balance.staking + balance.consensus
                          - Sum([i \in body |-> StakingShare(log, i) + ConsensusShare(log)])
  OBVIOUS
<1>3. PICK share : share = Shares(log, balance, slice)
  OBVIOUS
<1>4. share = [i \in slice |-> IF i = L THEN left ELSE StakingShare(log, i) + ConsensusShare(log)]
  BY <1>1, <1>2, <1>3 DEF Shares
<1>5. /\ L \in Nat \ {0} /\ c \in Nat /\ DOMAIN log.providers = 1..L
      /\ balance.staking \in Nat /\ balance.consensus \in Nat
      /\ log.staking \in Nat /\ log.consensus \in Nat
  BY <1>1, EndorsedPositive, ConsensusSums DEF LogType, BalanceType
<1>6. /\ slice \in SUBSET DOMAIN log.providers /\ body \in SUBSET DOMAIN log.providers
      /\ IsFiniteSet(slice) /\ IsFiniteSet(body)
  <2>1. n \in Nat /\ m \in Nat /\ m <= L
    BY <1>1
  <2>2. (n + 1)..m \subseteq 1..L
    BY ONLY <1>5, <2>1
  <2>3. slice \in SUBSET DOMAIN log.providers /\ body \in SUBSET DOMAIN log.providers
    BY ONLY <1>1, <1>5, <2>2
  <2> QED
    BY <2>3, EndorsedPositive, FS_Subset
<1>7. \A i \in slice : StakingShare(log, i) \in Nat
  <2>1. PICK q : q = [i \in DOMAIN log.providers |-> StakingShare(log, i)]
    OBVIOUS
  <2>2. \A i \in DOMAIN log.providers : q[i] \in Nat
    BY <2>1, StakingSums
  <2> QED
    BY <1>6, <2>1, <2>2
<1>10. ASSUME NEW i \in slice PROVE StakingShare(log, i) + ConsensusShare(log) \in Nat
  <2>1. StakingShare(log, i) \in Nat
    BY <1>7
  <2> QED
    BY ONLY <1>1, <1>5, <2>1
<1>8. CASE m # L
  <2>1. body = slice /\ L \notin slice
    <3>1. n \in Nat /\ m \in Nat /\ m < L
      BY <1>1, <1>5, <1>8
    <3>2. L \notin (n + 1)..m
      BY ONLY <1>5, <3>1
    <3> QED
      BY ONLY <1>1, <3>2
  <2>2. share = [i \in slice |-> StakingShare(log, i) + ConsensusShare(log)]
    BY <1>4, <2>1
  <2>3. Cardinality(slice) = m - n
    <3>1. SharesSplit(log, n, m)
      BY SliceShares
    <3>2. Cardinality((n + 1)..m) = m - n
      BY ONLY <3>1 DEF SharesSplit
    <3> QED
      BY ONLY <1>1, <3>2
  <2>4. Sum(share) = StakingShares(log, slice) + c * (m - n)
    BY <1>1, <1>6, <2>2, <2>3, FullShares
  <2>5. share \in [slice -> Nat]
    BY <1>10, <2>2
  <2> QED
    <3>1. \A i \in slice : i # L => share[i] = StakingShare(log, i) + ConsensusShare(log)
      BY <2>2
    <3> QED
      BY ONLY <1>1, <1>3, <1>8, <2>4, <2>5, <3>1, SMTT(30) DEF BatchPays
<1>9. CASE m = L
  <2>1. PICK k : k = m - 1
    OBVIOUS
  <2>2. k \in Nat /\ n <= k /\ k <= Len(log.providers) /\ body = (n + 1)..k /\ L \in slice
    <3>1. n \in Nat /\ n < L
      BY <1>9
    <3>2. k \in Nat /\ n <= k /\ k <= L
      BY ONLY <1>5, <1>9, <2>1, <3>1
    <3>3. ((n + 1)..L) \ {L} = (n + 1)..k /\ L \in (n + 1)..L
      BY ONLY <1>5, <1>9, <2>1, <3>1
    <3> QED
      BY ONLY <1>1, <1>9, <3>2, <3>3
  <2>3. PICK a, b, r, f : /\ a = StakingShares(log, 1..n)
                          /\ b = StakingShares(log, 1..k)
                          /\ r = StakingShares(log, body)
                          /\ f = Sum([i \in body |-> StakingShare(log, i) + ConsensusShare(log)])
    OBVIOUS
  <2>4. /\ a \in Nat /\ b \in Nat /\ r \in Nat /\ b = a + r /\ b <= log.staking
        /\ c * n + c * (k - n) = c * k /\ Cardinality(body) = k - n
    <3>1. n <= k
      BY <2>2
    <3>2. SharesSplit(log, n, k)
      BY <2>2, <3>1, SliceShares
    <3> QED
      <4>1. /\ Cardinality((n + 1)..k) = k - n
            /\ StakingShares(log, 1..n) \in Nat /\ StakingShares(log, (n + 1)..k) \in Nat
            /\ StakingShares(log, 1..k) = StakingShares(log, 1..n) + StakingShares(log, (n + 1)..k)
            /\ StakingShares(log, 1..k) \in Nat /\ StakingShares(log, 1..k) <= log.staking
            /\ ConsensusShare(log) * n + ConsensusShare(log) * (k - n) = ConsensusShare(log) * k
        BY ONLY <3>2 DEF SharesSplit
      <4>2. body = (n + 1)..k /\ c = ConsensusShare(log)
        BY ONLY <1>1, <2>2
      <4> QED
        BY ONLY <2>3, <4>1, <4>2
  <2>5. f = r + c * (k - n)
    BY <1>1, <1>6, <2>3, <2>4, FullShares
  <2>6. c * k \in Nat /\ c * k <= log.consensus /\ c * n \in Nat
    <3>1. k \in 0..Len(log.providers) /\ n \in 0..Len(log.providers)
      BY <2>2
    <3> QED
      BY <1>1, <3>1, ConsensusSums
  <2>7. f \in Nat /\ left \in Nat /\ f + left = balance.staking + balance.consensus
    <3>1. PICK x, y, z : x = c * n /\ y = c * (k - n) /\ z = c * k
      OBVIOUS
    <3>2. /\ x \in Nat /\ z \in Nat /\ y \in Nat /\ x + y = z /\ f = r + y /\ z <= log.consensus
          /\ balance.consensus = log.consensus - x
      <4>1. k - n \in Nat
        BY <2>2
      <4>2. y \in Nat
        BY <1>5, <3>1, <4>1
      <4> QED
        BY <1>1, <2>4, <2>5, <2>6, <3>1, <4>2
    <3>3. balance.staking = log.staking - a /\ left = balance.staking + balance.consensus - f
      BY <1>2, <2>3
    <3>4. a \in Nat /\ b \in Nat /\ r \in Nat /\ b = a + r /\ b <= log.staking
      BY <2>4
    <3>5. PICK st, cs, bs, bc : /\ st = log.staking /\ cs = log.consensus
                               /\ bs = balance.staking /\ bc = balance.consensus
      OBVIOUS
    <3>6. /\ st \in Nat /\ cs \in Nat /\ bs \in Nat /\ bc \in Nat
          /\ b <= st /\ z <= cs /\ bc = cs - x /\ bs = st - a /\ left = bs + bc - f
      BY <1>5, <3>2, <3>3, <3>4, <3>5
    <3>7. f \in Nat /\ left \in Nat /\ f + left = bs + bc
      <4>1. f \in Nat
        BY ONLY <3>2, <3>4
      <4>2. left \in Int /\ left = (st - b) + (cs - z)
        BY ONLY <3>2, <3>4, <3>6, <4>1
      <4>3. left \in Nat
        BY ONLY <3>2, <3>4, <3>6, <4>2
      <4> QED
        BY <3>6, <4>1, <4>3
    <3> QED
      BY <3>5, <3>7
  <2>8. share \in [slice -> Nat]
    BY <1>4, <1>10, <2>7
  <2>9. Sum(share) = balance.staking + balance.consensus
    <3>1. \A i \in slice : share[i] \in Int
      BY <2>8
    <3>2. SumFunctionOnSet(share, slice) = share[L] + SumFunctionOnSet(share, body)
      <4>1. body = slice \ {L} /\ IsFiniteSet(slice) /\ L \in slice
        BY <1>1, <1>6, <2>2
      <4> QED
        BY <3>1, <4>1, SumRemove
    <3>3. PICK g : g = [i \in body |-> StakingShare(log, i) + ConsensusShare(log)]
      OBVIOUS
    <3>4. \A i \in body : g[i] \in Int /\ share[i] = g[i]
      <4> SUFFICES ASSUME NEW i \in body PROVE g[i] \in Int /\ share[i] = g[i]
        OBVIOUS
      <4>1. i \in slice /\ i # L
        BY <1>1
      <4>2. StakingShare(log, i) + ConsensusShare(log) \in Nat
        BY <1>10, <4>1
      <4> QED
        BY <1>4, <3>3, <4>1, <4>2
    <3>5. SumFunctionOnSet(share, body) = SumFunctionOnSet(g, body)
      BY <1>6, <3>4, SumEqual
    <3>6. f = SumFunctionOnSet(g, body)
      BY <2>3, <3>3 DEF Sum, SumFunction
    <3>7. Sum(share) = SumFunctionOnSet(share, slice) /\ share[L] = left
      BY <1>4, <2>2 DEF Sum, SumFunction
    <3>8. Sum(share) = left + f
      BY <3>2, <3>5, <3>6, <3>7
    <3> QED
      BY <2>7, <3>8
  <2> QED
    BY <1>1, <1>3, <1>4, <1>9, <2>8, <2>9
<1> QED
  BY <1>8, <1>9

\* The payments after a batch.
PaidAfter(got, share, slice, p) ==
  [v \in Validators |-> got[v] + Sum(Restrict(share, Fiber(slice, p, v)))]

SharesAdded(got, share, slice, p, new) ==
  /\ new \in [Validators -> Nat]
  /\ Sum(new) = Sum(got) + Sum(share)
  /\ \A j \in slice : (\A i \in slice : p[i] = p[j] => i = j)
                        => new[p[j]] = got[p[j]] + share[j]
  /\ \A v \in Validators : (\A i \in slice : p[i] # v) => new[v] = got[v]

\* What a batch pays reaches the validators: the sum of what they have grows by
\* the shares, and each provider has its own share on top.
LEMMA SharesReceived ==
  ASSUME NEW got \in [Validators -> Nat], NEW slice, IsFiniteSet(slice),
         NEW p, \A i \in slice : p[i] \in Validators, NEW share \in [slice -> Nat]
  PROVE  SharesAdded(got, share, slice, p, PaidAfter(got, share, slice, p))
<1> USE DEF SharesAdded
<1>0. PICK new : new = PaidAfter(got, share, slice, p)
  OBVIOUS
<1>1. new = [v \in Validators |->
                   got[v] + Sum(Restrict(share, {i \in slice : p[i] = v}))]
  BY <1>0 DEF PaidAfter, Fiber
<1>2. IsFiniteSet(Validators) /\ DOMAIN share = slice /\ DOMAIN got = Validators
      /\ (\A v \in Validators : got[v] \in Nat) /\ \A i \in slice : share[i] \in Nat
  BY RewardAssumption
<1>3. PICK g : g = [v \in Validators |-> SumFunctionOnSet(share, {i \in slice : p[i] = v})]
  OBVIOUS
<1>4. ASSUME NEW T \in SUBSET slice
      PROVE  Sum(Restrict(share, T)) = SumFunctionOnSet(share, T) /\ SumFunctionOnSet(share, T) \in Nat
  <2>1. IsFiniteSet(T) /\ \A i \in T : share[i] \in Nat /\ share[i] \in Int
    BY <1>2, FS_Subset
  <2>2. PICK h : h = Restrict(share, T)
    OBVIOUS
  <2>3. DOMAIN h = T /\ \A i \in T : h[i] = share[i]
    BY <2>2 DEF Restrict
  <2>4. SumFunctionOnSet(h, T) = SumFunctionOnSet(share, T)
    BY <2>1, <2>3, SumEqual
  <2>5. SumFunctionOnSet(share, T) \in Nat
    BY <2>1, SumBound
  <2> QED
    BY <2>2, <2>3, <2>4, <2>5 DEF Sum, SumFunction
<1>5. \A v \in Validators : new[v] = got[v] + g[v] /\ g[v] \in Nat
  <2> SUFFICES ASSUME NEW v \in Validators PROVE new[v] = got[v] + g[v] /\ g[v] \in Nat
    OBVIOUS
  <2>1. PICK T : T = {i \in slice : p[i] = v}
    OBVIOUS
  <2>2. T \in SUBSET slice
    BY <2>1
  <2>3. Sum(Restrict(share, T)) = SumFunctionOnSet(share, T) /\ SumFunctionOnSet(share, T) \in Nat
    BY <1>4, <2>2
  <2>4. g[v] = SumFunctionOnSet(share, T)
    BY <1>3, <2>1
  <2>5. new[v] = got[v] + Sum(Restrict(share, T))
    BY <1>1, <2>1
  <2> QED
    BY <2>3, <2>4, <2>5
<1>6. new \in [Validators -> Nat]
  <2>1. \A v \in Validators : new[v] \in Nat
    BY <1>2, <1>5
  <2>2. DOMAIN new = Validators /\ new = [v \in Validators |-> new[v]]
    BY <1>1
  <2> QED
    BY <2>1, <2>2
<1>7. Sum(new) = Sum(got) + Sum(share)
  <2>1. SumFunctionOnSet(g, Validators) = SumFunctionOnSet(share, slice)
    <3>1. \A i \in slice : share[i] \in Int
      BY <1>2
    <3>2. \A v \in Validators : g[v] = SumFunctionOnSet(share, Fiber(slice, p, v))
      BY <1>3 DEF Fiber
    <3> QED
      BY <1>2, <3>1, <3>2, SumFibers
  <2>2. \A v \in Validators : got[v] \in Int /\ g[v] \in Int /\ new[v] = got[v] + g[v]
    BY <1>2, <1>5
  <2>3. SumFunctionOnSet(new, Validators)
          = SumFunctionOnSet(got, Validators) + SumFunctionOnSet(g, Validators)
    BY <1>2, <2>2, SumAdd
  <2>4. DOMAIN new = Validators
    BY <1>1
  <2> QED
    BY <1>2, <2>1, <2>3, <2>4 DEF Sum, SumFunction
<1>8. ASSUME NEW j \in slice, \A i \in slice : p[i] = p[j] => i = j
      PROVE  new[p[j]] = got[p[j]] + share[j]
  <2>1. PICK v : v = p[j]
    OBVIOUS
  <2>2. v \in Validators /\ {i \in slice : p[i] = v} = {j}
    BY <1>8, <2>1
  <2>3. PICK T : T = {j}
    OBVIOUS
  <2>4. IsFiniteSet(T) /\ j \in T /\ T \ {j} = {} /\ \A i \in T : share[i] \in Int
    <3>1. IsFiniteSet({j})
      BY FS_Singleton
    <3>2. share[j] \in Int
      BY <1>2
    <3> QED
      BY <2>3, <3>1, <3>2
  <2>5. SumFunctionOnSet(share, T) = share[j] + SumFunctionOnSet(share, T \ {j})
    BY <2>4, SumRemove
  <2>6. SumFunctionOnSet(share, T) = share[j]
    <3>1. SumFunctionOnSet(share, {}) = 0 /\ share[j] \in Nat
      BY <1>2, SumEmpty
    <3> QED
      BY <2>4, <2>5, <3>1
  <2>7. g[v] = share[j]
    BY <1>3, <2>2, <2>3, <2>6
  <2> QED
    BY <1>5, <2>1, <2>2, <2>7
<1>9. ASSUME NEW v \in Validators, \A i \in slice : p[i] # v PROVE new[v] = got[v]
  <2>1. {i \in slice : p[i] = v} = {}
    BY <1>9
  <2>2. g[v] = 0
    BY <1>3, <2>1, SumEmpty
  <2> QED
    BY <1>2, <1>5, <2>2
<1> QED
  BY <1>0, <1>6, <1>7, <1>8, <1>9

\* Without a provider nobody has anything to receive.
LEMMA NothingReceived ==
  Sum([v \in Validators |-> 0]) = 0
<1>1. PICK f : f = [v \in Validators |-> 0]
  OBVIOUS
<1>2. SumFunctionOnSet(f, Validators) = 0 * Cardinality(Validators)
  BY <1>1, SumConstant, RewardAssumption
<1>3. Cardinality(Validators) \in Nat
  BY RewardAssumption, FS_CardinalityType
<1> QED
  BY <1>1, <1>2, <1>3 DEF Sum, SumFunction

\* The balance of a settled log.
NoBalance == [consensus |-> 0, staking |-> 0, synchronizer |-> 0]

\* LogInv with the number of providers a batch ends at.
LEMMA LogInvOf ==
  ASSUME NEW log \in LogType, log.providers # << >>, NEW n \in Nat, NEW balance, NEW got
  PROVE  LogInv(log, balance, got, n) <=>
           LET last == Len(log.providers) IN
           /\ log.assigned = IF n <= last THEN n ELSE last
           /\ log.assigned = last => balance = NoBalance
           /\ log.assigned # last =>
                balance = [consensus |-> log.consensus - ConsensusShare(log) * log.assigned,
                           staking |-> log.staking
                             - StakingShares(log, 1..log.assigned),
                           synchronizer |-> log.synchronizer]
           /\ Sum(got) + balance.consensus + balance.staking = log.consensus + log.staking
           /\ \A i \in 1..(last - 1) : got[log.providers[i]] =
                IF i <= log.assigned THEN StakingShare(log, i) + ConsensusShare(log) ELSE 0
<1>1. Len(log.providers) \in Nat
  BY EndorsedPositive
<1>2. PICK last : last = Len(log.providers)
  OBVIOUS
<1>3. Min({n, last}) = IF n <= last THEN n ELSE last
  BY <1>1, <1>2, MinOfTwo
<1> QED
  BY <1>2, <1>3 DEF LogInv, NoBalance

\* The shares of a log do not depend on how many of its providers were paid.
LEMMA SharesStay ==
  ASSUME NEW log \in LogType, NEW m \in Nat, NEW new, new = [log EXCEPT !.assigned = m]
  PROVE  /\ new \in LogType /\ new.assigned = m
         /\ new.providers = log.providers /\ new.consensus = log.consensus
         /\ new.staking = log.staking /\ new.synchronizer = log.synchronizer
         /\ ConsensusShare(new) = ConsensusShare(log)
         /\ EndorsedStaking(new) = EndorsedStaking(log)
         /\ \A i : StakingShare(new, i) = StakingShare(log, i)
         /\ \A T : StakingShares(new, T) = StakingShares(log, T)
<1>1. /\ new \in LogType /\ new.assigned = m
      /\ new.providers = log.providers /\ new.consensus = log.consensus
      /\ new.staking = log.staking /\ new.synchronizer = log.synchronizer
  BY DEF LogType
<1>2. ConsensusShare(new) = ConsensusShare(log)
  BY <1>1 DEF ConsensusShare
<1>3. EndorsedStaking(new) = EndorsedStaking(log)
  BY <1>1 DEF EndorsedStaking
<1>4. \A i : StakingShare(new, i) = StakingShare(log, i)
  BY <1>1, <1>3 DEF StakingShare
<1>5. ASSUME NEW T
      PROVE StakingShares(new, T) = StakingShares(log, T)
  BY <1>4 DEF StakingShares
<1> QED
  BY <1>1, <1>2, <1>3, <1>4, <1>5

\* A batch that is not refused pays the next slice of the log, or nothing when
\* the log is settled, and keeps LogInv; the synchronizer comes with the last.
LEMMA EndTRewardEffect ==
  ASSUME RewardTypeOK, NEW s \in RewardScopes, LogExists(s),
         IsInjective(reward_log[s].providers),
         NEW n \in Nat, NEW to \in Nat, n < to,
         LogInv(reward_log[s], reward_balance[s], paid[s], n),
         EndTReward(s, n, to).ok
  PROVE  LET r == EndTReward(s, n, to)
             log == reward_log[s]
             last == Len(log.providers) IN
         /\ r.log \in LogType /\ r.balance \in BalanceType /\ r.paid \in [Validators -> Nat]
         /\ r.log = [log EXCEPT !.assigned = r.log.assigned]
         /\ LogInv(r.log, r.balance, r.paid, to)
         /\ r.sync = IF log.assigned # last /\ r.log.assigned = last /\ log.synchronizer > 0
                       THEN 1 ELSE 0
<1>1. PICK log, balance, got, last, m, share, r :
        /\ log = reward_log[s] /\ balance = reward_balance[s] /\ got = paid[s]
        /\ last = Len(log.providers) /\ m = Min({to, last})
        /\ share = Shares(log, balance, (n + 1)..m) /\ r = EndTReward(s, n, to)
  OBVIOUS
<1>2. /\ log \in LogType /\ balance \in BalanceType /\ got \in [Validators -> Nat]
      /\ log.providers # << >> /\ IsInjective(log.providers)
  BY <1>1 DEF RewardTypeOK, LogExists
<1>3. /\ last \in Nat \ {0} /\ DOMAIN log.providers = 1..last
      /\ log.staking \in Nat /\ log.consensus \in Nat /\ log.synchronizer \in Nat
      /\ ConsensusShare(log) \in Nat
      /\ \A i \in 1..last : log.providers[i] \in Validators
  BY <1>1, <1>2, EndorsedPositive, ConsensusSums DEF LogType
<1>4. /\ log.assigned = IF n <= last THEN n ELSE last
      /\ log.assigned = last => balance = NoBalance
      /\ log.assigned # last =>
           balance = [consensus |-> log.consensus - ConsensusShare(log) * log.assigned,
                      staking |-> log.staking
                        - StakingShares(log, 1..log.assigned),
                      synchronizer |-> log.synchronizer]
      /\ Sum(got) + balance.consensus + balance.staking = log.consensus + log.staking
      /\ \A i \in 1..(last - 1) : got[log.providers[i]] =
           IF i <= log.assigned THEN StakingShare(log, i) + ConsensusShare(log) ELSE 0
  <2>1. LogInv(log, balance, got, n) /\ n \in Nat
    BY <1>1
  <2> QED
    BY ONLY <1>1, <1>2, <2>1, LogInvOf, SMTT(30)
<1>5. m = IF to <= last THEN to ELSE last
  BY <1>1, <1>3, MinOfTwo
<1>6. CASE Returns(log, n, to)
  <2>1. n # log.assigned /\ log.assigned = last /\ to > last
    BY <1>1, <1>3, <1>4, <1>6 DEF Returns
  <2>2. r = [ok |-> TRUE, log |-> log, balance |-> balance, paid |-> got, sync |-> 0]
    BY <1>1, <1>6 DEF EndTReward
  <2>3. log = [log EXCEPT !.assigned = log.assigned]
    BY <1>2 DEF LogType
  <2>4. LogInv(log, balance, got, to)
    <3>1. log.assigned = IF to <= last THEN to ELSE last
      BY <1>3, <2>1
    <3> QED
      BY <1>1, <1>2, <1>4, <3>1, LogInvOf
  <2> QED
    BY <1>1, <1>2, <2>1, <2>2, <2>3, <2>4
<1>7. CASE ~Returns(log, n, to)
  <2> DEFINE slice == (n + 1)..m
  <2>1. n = log.assigned
    BY <1>7 DEF Returns
  <2>2. PICK unclaimed, new :
          /\ unclaimed = [consensus |-> balance.consensus - ConsensusShare(log) * Cardinality(slice),
                          staking |-> balance.staking - StakingShares(log, slice),
                          synchronizer |-> balance.synchronizer]
          /\ new = [v \in Validators |->
                got[v] + Sum(Restrict(share, {i \in slice : log.providers[i] = v}))]
    OBVIOUS
  <2>3. r = [ok |-> slice # {} /\ Sum(share) > 0,
             log |-> [log EXCEPT !.assigned = m],
             balance |-> IF m = last THEN NoBalance ELSE unclaimed,
             paid |-> new,
             sync |-> IF m = last /\ log.synchronizer > 0 THEN 1 ELSE 0]
    BY <1>1, <1>7, <2>2 DEF EndTReward, NoBalance
  <2>4. slice # {}
    <3>1. r.ok
      BY <1>1
    <3>2. r.ok = (slice # {} /\ Sum(share) > 0)
      BY <2>3
    <3> HIDE DEF slice
    <3> QED
      BY <3>1, <3>2, Zenon
  <2>5. n < m /\ m <= last /\ m \in Nat /\ log.assigned # last
    BY <1>3, <1>4, <1>5, <2>1, <2>4
  <2>6. /\ balance.consensus = log.consensus - ConsensusShare(log) * n
        /\ balance.staking = log.staking - StakingShares(log, 1..n)
        /\ balance.synchronizer = log.synchronizer
    BY <1>4, <2>1, <2>5
  <2>7. /\ share \in [slice -> Nat]
        /\ \A i \in slice : i # last => share[i] = StakingShare(log, i) + ConsensusShare(log)
        /\ Sum(share) = IF m = last THEN balance.staking + balance.consensus
             ELSE StakingShares(log, slice) + ConsensusShare(log) * (m - n)
    <3>1. m <= Len(log.providers)
      BY <1>1, <2>5
    <3>2. BalanceAfter(log, balance, n)
      BY <2>6 DEF BalanceAfter
    <3>3. BatchPays(log, balance, n, m, Shares(log, balance, (n + 1)..m))
      BY <1>2, <2>5, <3>1, <3>2, BatchShares
    <3> QED
      BY <1>1, <3>3 DEF BatchPays
  <2>8. /\ slice \in SUBSET DOMAIN log.providers /\ Cardinality(slice) = m - n
        /\ IsFiniteSet(slice)
        /\ StakingShares(log, 1..n) \in Nat
        /\ StakingShares(log, 1..m) \in Nat
        /\ StakingShares(log, slice) \in Nat
        /\ StakingShares(log, 1..m)
             = StakingShares(log, 1..n) + StakingShares(log, slice)
        /\ StakingShares(log, 1..m) <= log.staking
        /\ ConsensusShare(log) * n + ConsensusShare(log) * (m - n) = ConsensusShare(log) * m
    <3>1. n <= m
      BY <2>5
    <3>2. IsFiniteSet(slice)
      <4>1. n + 1 \in Int /\ m \in Int
        BY <2>5
      <4> QED
        BY ONLY <4>1, FS_Interval
    <3>3. m <= Len(log.providers)
      BY <1>1, <2>5
    <3>4. SharesSplit(log, n, m)
      BY <1>2, <2>5, <3>1, <3>3, SliceShares
    <3> QED
      BY <3>2, <3>4 DEF SharesSplit
  <2>9. ConsensusShare(log) * m \in Nat /\ ConsensusShare(log) * m <= log.consensus
    <3>1. m \in 0..Len(log.providers)
      BY <1>1, <1>3, <2>5
    <3> QED
      BY <1>2, <3>1, ConsensusSums
  <2>10. /\ new \in [Validators -> Nat]
         /\ Sum(new) = Sum(got) + Sum(share)
         /\ \A j \in slice : (\A i \in slice : log.providers[i] = log.providers[j] => i = j)
              => new[log.providers[j]] = got[log.providers[j]] + share[j]
         /\ \A v \in Validators : (\A i \in slice : log.providers[i] # v) => new[v] = got[v]
    <3>1. PICK p, S : p = log.providers /\ S = slice
      OBVIOUS
    <3>2. \A i \in S : p[i] \in Validators
      BY <1>3, <2>8, <3>1
    <3>3. IsFiniteSet(S) /\ share \in [S -> Nat]
      BY <2>7, <2>8, <3>1
    <3>4. new = PaidAfter(got, share, S, p)
      BY <2>2, <3>1 DEF PaidAfter, Fiber
    <3> HIDE DEF slice
    <3>5. SharesAdded(got, share, S, p, PaidAfter(got, share, S, p))
      <4>1. got \in [Validators -> Nat]
        BY <1>2
      <4> QED
        BY ONLY <3>2, <3>3, <4>1, SharesReceived
    <3> QED
      BY <3>1, <3>4, <3>5 DEF SharesAdded
  <2>11. PICK log2, balance2 : /\ log2 = [log EXCEPT !.assigned = m]
                               /\ balance2 = IF m = last THEN NoBalance ELSE unclaimed
    OBVIOUS
  <2>12. /\ log2 \in LogType /\ log2.assigned = m
         /\ log2.providers = log.providers /\ log2.consensus = log.consensus
         /\ log2.staking = log.staking /\ log2.synchronizer = log.synchronizer
         /\ ConsensusShare(log2) = ConsensusShare(log)
         /\ \A i : StakingShare(log2, i) = StakingShare(log, i)
         /\ \A T : StakingShares(log2, T) = StakingShares(log, T)
    BY <1>2, <2>5, <2>11, SharesStay
  <2>13. /\ unclaimed.consensus = log.consensus - ConsensusShare(log) * m
         /\ unclaimed.staking = log.staking - StakingShares(log, 1..m)
         /\ unclaimed.synchronizer = log.synchronizer
         /\ unclaimed.consensus + unclaimed.staking + (StakingShares(log, slice) + ConsensusShare(log) * (m - n))
              = balance.consensus + balance.staking
         /\ unclaimed \in BalanceType
    <3>1. PICK a, b, r1, x, y, z, bs, bc :
            /\ a = StakingShares(log, 1..n) /\ b = StakingShares(log, 1..m)
            /\ r1 = StakingShares(log, slice)
            /\ x = ConsensusShare(log) * n /\ y = ConsensusShare(log) * (m - n)
            /\ z = ConsensusShare(log) * m
            /\ bs = balance.staking /\ bc = balance.consensus
      OBVIOUS
    <3>2. a \in Nat /\ b \in Nat /\ r1 \in Nat /\ b = a + r1 /\ b <= log.staking
      BY <2>8, <3>1
    <3>3. x + y = z /\ z \in Nat /\ z <= log.consensus
      BY <2>8, <2>9, <3>1
    <3>4. x \in Nat /\ y \in Nat
      <4>1. m - n \in Nat
        BY <2>5
      <4>2. \A c, d \in Nat : c * d \in Nat
        OBVIOUS
      <4> QED
        BY <1>3, <3>1, <4>1, <4>2
    <3>5. bs = log.staking - a /\ bc = log.consensus - x
      BY <2>6, <3>1
    <3>6. /\ unclaimed.consensus = bc - y /\ unclaimed.staking = bs - r1
          /\ unclaimed.synchronizer = log.synchronizer
      BY <2>2, <2>6, <2>8, <3>1
    <3>7. /\ bc - y = log.consensus - z /\ bs - r1 = log.staking - b
          /\ bc - y \in Nat /\ bs - r1 \in Nat
          /\ (bc - y) + (bs - r1) + (r1 + y) = bc + bs
      <4>1. PICK ls, lc : ls = log.staking /\ lc = log.consensus
        OBVIOUS
      <4>2. ls \in Nat /\ lc \in Nat /\ b <= ls /\ z <= lc /\ bs = ls - a /\ bc = lc - x
        BY <1>3, <3>2, <3>3, <3>5, <4>1
      <4>3. /\ a \in Nat /\ b \in Nat /\ r1 \in Nat /\ b = a + r1
            /\ x \in Nat /\ y \in Nat /\ z \in Nat /\ x + y = z
        BY <3>2, <3>3, <3>4
      <4>4. /\ bc - y = lc - z /\ bs - r1 = ls - b
            /\ bc - y \in Nat /\ bs - r1 \in Nat
        BY ONLY <4>2, <4>3
      <4>5. (bc - y) + (bs - r1) + (r1 + y) = bc + bs
        BY ONLY <4>2, <4>3
      <4> QED
        BY <4>1, <4>4, <4>5
    <3>8. unclaimed \in BalanceType
      <4>1. unclaimed = [consensus |-> unclaimed.consensus, staking |-> unclaimed.staking,
                         synchronizer |-> unclaimed.synchronizer]
        BY <2>2
      <4>2. unclaimed.consensus \in Nat /\ unclaimed.staking \in Nat /\ unclaimed.synchronizer \in Nat
        BY <1>3, <3>6, <3>7
      <4> QED
        BY <4>1, <4>2 DEF BalanceType
    <3> QED
      BY <3>1, <3>6, <3>7, <3>8
  <2>14. balance2 \in BalanceType
    BY <2>11, <2>13 DEF BalanceType, NoBalance
  <2>15. Sum(new) + balance2.consensus + balance2.staking = log.consensus + log.staking
    <3>1. PICK a, b, c, d : /\ a = Sum(got) /\ b = Sum(share)
                            /\ c = balance.consensus /\ d = balance.staking
      OBVIOUS
    <3>2. a + c + d = log.consensus + log.staking /\ c \in Nat /\ d \in Nat /\ Sum(new) = a + b
      BY <1>2, <1>4, <2>10, <3>1 DEF BalanceType
    <3>3. a \in Nat /\ b \in Nat
      <4>1. Sum(got) \in Nat
        <5>1. DOMAIN got = Validators /\ \A v \in Validators : got[v] \in Nat
          BY <1>2
        <5> QED
          BY <5>1, SumBound, RewardAssumption DEF Sum, SumFunction
      <4>2. Sum(share) \in Nat
        <5>1. DOMAIN share = slice /\ \A i \in slice : share[i] \in Nat
          BY <2>7
        <5> HIDE DEF slice
        <5> QED
          BY <2>8, <5>1, SumBound DEF Sum, SumFunction
      <4> QED
        BY <3>1, <4>1, <4>2
    <3>4. CASE m = last
      <4>1. b = d + c /\ balance2.consensus = 0 /\ balance2.staking = 0
        BY <2>7, <2>11, <3>1, <3>4 DEF NoBalance
      <4> QED
        BY <3>2, <3>3, <4>1
    <3>5. CASE m # last
      <4>1. b = StakingShares(log, slice) + ConsensusShare(log) * (m - n) /\ balance2 = unclaimed
        BY <2>7, <2>11, <3>1, <3>5
      <4>2. PICK e, f : e = unclaimed.consensus /\ f = unclaimed.staking
        OBVIOUS
      <4>3. e + f + b = c + d /\ e \in Nat /\ f \in Nat
        BY <2>13, <3>1, <4>1, <4>2 DEF BalanceType
      <4>4. PICK t : t = log.consensus + log.staking
        OBVIOUS
      <4>5. a + c + d = t /\ c \in Nat /\ d \in Nat /\ a \in Nat /\ b \in Nat
        BY <3>2, <3>3, <4>4
      <4>6. (a + b) + e + f = t
        BY ONLY <4>3, <4>5
      <4>7. Sum(new) = a + b /\ balance2.consensus = e /\ balance2.staking = f
        BY <3>2, <4>1, <4>2
      <4> QED
        BY <4>4, <4>6, <4>7
    <3> QED
      BY <3>4, <3>5
  <2>16. ASSUME NEW i \in 1..(last - 1)
         PROVE  new[log.providers[i]] =
                  IF i <= m THEN StakingShare(log, i) + ConsensusShare(log) ELSE 0
    <3>1. /\ i \in 1..last /\ i # last /\ log.providers[i] \in Validators
          /\ \A j \in slice : log.providers[j] = log.providers[i] => j = i
      <4>1. i \in 1..last /\ i # last /\ log.providers[i] \in Validators
        BY <1>3
      <4>2. \A j \in slice : j \in DOMAIN log.providers
        BY <2>8
      <4> QED
        BY <1>2, <1>3, <4>1, <4>2 DEF IsInjective
    <3>2. got[log.providers[i]] =
            IF i <= n THEN StakingShare(log, i) + ConsensusShare(log) ELSE 0
      BY <1>4, <2>1
    <3>3. CASE i \in slice
      <4>1. new[log.providers[i]] = got[log.providers[i]] + share[i]
        BY <2>10, <3>1, <3>3
      <4>2. share[i] = StakingShare(log, i) + ConsensusShare(log) /\ share[i] \in Nat
        BY <2>7, <3>1, <3>3
      <4>3. ~(i <= n) /\ i <= m
        BY <2>5, <3>3
      <4> QED
        BY <3>2, <4>1, <4>2, <4>3
    <3>4. CASE i \notin slice
      <4>1. new[log.providers[i]] = got[log.providers[i]]
        BY <2>10, <3>1, <3>4
      <4>2. i <= n <=> i <= m
        BY <1>3, <2>5, <3>1, <3>4
      <4> QED
        BY <3>2, <4>1, <4>2
    <3> QED
      BY <3>3, <3>4
  <2>17. LogInv(log2, balance2, new, to)
    <3>1. log2.assigned = IF to <= last THEN to ELSE last
      BY <1>5, <2>12
    <3>2. log2.assigned = last => balance2 = NoBalance
      BY <2>11, <2>12
    <3>3. log2.assigned # last =>
             balance2 = [consensus |-> log2.consensus - ConsensusShare(log2) * log2.assigned,
                         staking |-> log2.staking - StakingShares(log2, 1..log2.assigned),
                         synchronizer |-> log2.synchronizer]
      <4>1. unclaimed = [consensus |-> unclaimed.consensus, staking |-> unclaimed.staking,
                         synchronizer |-> unclaimed.synchronizer]
        BY <2>2
      <4> QED
        BY <2>11, <2>12, <2>13, <4>1
    <3>4. \A i \in 1..(last - 1) : new[log2.providers[i]] =
            IF i <= log2.assigned THEN StakingShare(log2, i) + ConsensusShare(log2) ELSE 0
      BY <2>12, <2>16
    <3>5. Sum(new) + balance2.consensus + balance2.staking = log2.consensus + log2.staking
      BY <2>12, <2>15
    <3>6. log2.providers # << >> /\ Len(log2.providers) = last
      BY <1>1, <1>2, <2>12
    <3> HIDE DEF slice
    <3> QED
      BY <2>12, <3>1, <3>2, <3>3, <3>4, <3>5, <3>6, LogInvOf, SMTT(30)
  <2>18. r.log = log2 /\ r.balance = balance2 /\ r.paid = new
         /\ r.sync = IF m = last /\ log.synchronizer > 0 THEN 1 ELSE 0
    BY <2>3, <2>11
  <2> HIDE DEF slice
  <2> QED
    BY <1>1, <2>5, <2>10, <2>11, <2>12, <2>14, <2>17, <2>18
<1> QED
  BY <1>6, <1>7

\* Parts rounded down fit into the whole.
LEMMA PartsFit ==
  ASSUME NEW n \in Nat, NEW a \in Nat, NEW b \in Nat, NEW c \in Nat, a + b + c <= RATE_BASE
  PROVE  /\ Part(n, a) \in Nat /\ Part(n, b) \in Nat /\ Part(n, c) \in Nat
         /\ Part(n, a) + Part(n, b) + Part(n, c) <= n
<1>1. RATE_BASE \in Nat \ {0}
  BY RewardAssumption
<1>2. ASSUME NEW k \in Nat
      PROVE  n * k \in Nat /\ Part(n, k) \in Nat /\ RATE_BASE * Part(n, k) <= n * k
  <2>1. n * k \in Nat
    OBVIOUS
  <2>2. PICK x : x = n * k
    OBVIOUS
  <2>3. x \div RATE_BASE \in Nat /\ RATE_BASE * (x \div RATE_BASE) <= x
    BY <1>1, <2>1, <2>2, DivNat
  <2> QED
    BY <2>1, <2>2, <2>3 DEF Part
<1>3. PICK R, x, y, z, f, g, h :
        /\ R = RATE_BASE /\ x = n * a /\ y = n * b /\ z = n * c
        /\ f = Part(n, a) /\ g = Part(n, b) /\ h = Part(n, c)
  OBVIOUS
<1>4. /\ R \in Nat \ {0} /\ x \in Nat /\ y \in Nat /\ z \in Nat
      /\ f \in Nat /\ g \in Nat /\ h \in Nat
      /\ R * f <= x /\ R * g <= y /\ R * h <= z
  BY <1>1, <1>2, <1>3
<1>5. x + y + z <= n * R
  <2>1. x + y + z = n * (a + b + c)
    BY ONLY <1>3, n \in Nat, a \in Nat, b \in Nat, c \in Nat
  <2>2. \A k \in Nat : k <= R => n * k <= n * R
    BY <1>4
  <2>3. a + b + c \in Nat /\ a + b + c <= R
    BY <1>3
  <2> QED
    BY <2>1, <2>2, <2>3
<1>6. R * (f + g + h) <= n * R
  <2>1. R * (f + g + h) = R * f + R * g + R * h
    BY ONLY <1>4
  <2>2. PICK t, u, v, w : t = R * f /\ u = R * g /\ v = R * h /\ w = n * R
    OBVIOUS
  <2>3. t \in Int /\ u \in Int /\ v \in Int /\ w \in Int
    BY ONLY <1>4, <2>2, n \in Nat
  <2>4. t <= x /\ u <= y /\ v <= z /\ x + y + z <= w
    BY <1>4, <1>5, <2>2
  <2>5. t + u + v <= w
    BY ONLY <1>4, <2>3, <2>4
  <2> QED
    BY <2>1, <2>2, <2>5
<1>7. f + g + h <= n
  <2>1. PICK s \in Nat : s = f + g + h
    BY <1>4
  <2>2. R * s <= n * R
    BY <1>6, <2>1
  <2>3. s <= n
    <3>1. ASSUME s >= n + 1 PROVE FALSE
      <4>1. R * s >= R * (n + 1) /\ R * (n + 1) = n * R + R
        BY ONLY <1>4, <3>1, s \in Nat, n \in Nat
      <4>2. PICK p, q \in Int : p = R * s /\ q = n * R
        BY <1>4
      <4> QED
        BY <1>4, <2>2, <4>1, <4>2
    <3> QED
      BY <3>1
  <2> QED
    BY <2>1, <2>3
<1> QED
  BY <1>3, <1>4, <1>7

\* Of a log nobody of which was paid, all is in the balance.
LEMMA LogInvStarts ==
  ASSUME NEW log \in LogType, log.providers # << >>, log.assigned = 0,
         NEW balance,
         balance = [consensus |-> log.consensus, staking |-> log.staking,
                    synchronizer |-> log.synchronizer],
         NEW got, got = [v \in Validators |-> 0]
  PROVE  LogInv(log, balance, got, 0)
<1>1. PICK last : last = Len(log.providers)
  OBVIOUS
<1>2. /\ last \in Nat \ {0} /\ DOMAIN log.providers = 1..last
      /\ \A i \in 1..last : log.providers[i] \in Validators
      /\ ConsensusShare(log) \in Nat /\ log.consensus \in Nat /\ log.staking \in Nat
  BY <1>1, EndorsedPositive, ConsensusSums DEF LogType
<1>3. StakingShares(log, 1..0) = 0
  <2>1. PICK T, f : T = 1..0 /\ f = [i \in T |-> StakingShare(log, i)]
    OBVIOUS
  <2>2. T = {} /\ DOMAIN f = T
    BY <2>1
  <2>3. SumFunctionOnSet(f, {}) = 0
    BY SumEmpty
  <2> QED
    BY <2>1, <2>2, <2>3 DEF StakingShares, Sum, SumFunction
<1>4. Sum(got) = 0
  BY NothingReceived
<1>5. log.assigned = (IF 0 <= last THEN 0 ELSE last) /\ log.assigned # last
  BY <1>2
<1>6. balance = [consensus |-> log.consensus - ConsensusShare(log) * log.assigned,
                 staking |-> log.staking - StakingShares(log, 1..log.assigned),
                 synchronizer |-> log.synchronizer]
  <2>1. log.consensus - ConsensusShare(log) * 0 = log.consensus
    BY <1>2
  <2> QED
    BY <1>2, <1>3, <2>1
<1>7. Sum(got) + balance.consensus + balance.staking = log.consensus + log.staking
  BY <1>2, <1>4
<1>8. \A i \in 1..(last - 1) : got[log.providers[i]] =
        IF i <= log.assigned THEN StakingShare(log, i) + ConsensusShare(log) ELSE 0
  BY <1>2
<1> QED
  BY <1>1, <1>5, <1>6, <1>7, <1>8, LogInvOf

\* A list of validators in an order.
LEMMA OrderType ==
  ASSUME NEW S \in SUBSET Validators, NEW f \in Orders(S)
  PROVE  /\ f \in Seq(Validators) /\ Len(f) = Cardinality(S) /\ IsInjective(f)
         /\ (S # {} => f # << >>)
<1>1. IsFiniteSet(S) /\ Cardinality(S) \in Nat
  BY FS_Subset, FS_CardinalityType, RewardAssumption
<1>2. f \in [1..Cardinality(S) -> S] /\ IsInjective(f)
  BY DEF Orders
<1>3. f \in Seq(S) /\ Len(f) = Cardinality(S)
  BY <1>1, <1>2
<1>4. f \in Seq(Validators)
  BY <1>1, <1>2
<1>5. S # {} => Cardinality(S) # 0
  BY <1>1, FS_EmptySet
<1> QED
  BY <1>2, <1>3, <1>4, <1>5

\* The log of the XSAT validators.
LEMMA LogOf ==
  ASSUME NEW p \in Seq(Validators), NEW c \in Nat
  PROVE  [providers |-> p, consensus |-> c, staking |-> 0, synchronizer |-> 0, assigned |-> 0]
           \in LogType
BY DEF LogType

\* The initial tables.
LEMMA InitRewardInv == RewardInit => RewardInv
<1> SUFFICES ASSUME RewardInit PROVE RewardInv
  OBVIOUS
<1> USE DEF RewardInit, NoLog
<1>1. RewardTypeOK
  <2>1. NoLog \in LogType
    BY DEF LogType
  <2>2. NoBalance \in BalanceType
    BY DEF BalanceType, NoBalance
  <2>3. reward_log \in [RewardScopes -> LogType]
    BY <2>1
  <2>4. reward_balance \in [RewardScopes -> BalanceType]
    BY <2>2 DEF NoBalance
  <2>5. paid \in [RewardScopes -> [Validators -> Nat]]
    OBVIOUS
  <2> QED
    BY <2>3, <2>4, <2>5 DEF RewardTypeOK
<1>2. \A s \in RewardScopes : ~LogExists(s)
  BY DEF LogExists
<1>3. LogsOfHeight
  BY <1>2, RewardAssumption DEF LogsOfHeight
<1> QED
  BY <1>1, <1>2, <1>3, RewardAssumption DEF RewardInv

\* A distribution starts with logs that divide the subsidy.
LEMMA StartRewardStep ==
  ASSUME RewardInv, StartReward
  PROVE  RewardInv'
<1>1. PICK n \in Subsidies, r \in Rates, lists \in ProviderLists, head \in BOOLEAN, here \in BOOLEAN :
        /\ here => head
        /\ Distribute(n, r, lists[1], lists[2], here)
        /\ num_provider_validators' = NumProviders(lists[1], lists[2], head)
        /\ active_here' = here
  BY DEF StartReward, StartRewardOf
<1>2. num_validators_assigned' = 0 /\ distributing' = TRUE
  BY DEF StartReward, StartRewardOf
<1>3. PICK B \in (SUBSET Validators) \ {{}}, X \in SUBSET Validators :
        lists \in Orders(B) \X Orders(X)
  BY DEF ProviderLists
<1>4. PICK btcList, xsatList : btcList = lists[1] /\ xsatList = lists[2]
  OBVIOUS
<1>5. /\ btcList \in Seq(Validators) /\ btcList # << >> /\ IsInjective(btcList)
      /\ xsatList \in Seq(Validators) /\ IsInjective(xsatList)
  <2>1. btcList \in Orders(B) /\ xsatList \in Orders(X)
    BY <1>3, <1>4
  <2>2. B \in SUBSET Validators /\ B # {}
    BY <1>3
  <2> QED
    BY <2>1, <2>2, OrderType
<1>6. PICK sync, cons, part, rest :
        /\ sync = Part(n, r.synchronizer) /\ cons = Part(n, r.btc)
        /\ part = (IF here THEN Part(n, r.xsat) ELSE 0)
        /\ rest = n - sync - cons - part
  OBVIOUS
<1>7. /\ n \in Nat /\ sync \in Nat /\ cons \in Nat /\ part \in Nat /\ rest \in Nat
      /\ cons + rest + sync + part = n
  <2>1. n \in Nat /\ r.synchronizer \in Nat /\ r.btc \in Nat /\ r.xsat \in Nat
        /\ r.synchronizer + r.btc + r.xsat <= RATE_BASE
    BY RewardAssumption
  <2>2. /\ Part(n, r.synchronizer) \in Nat /\ Part(n, r.btc) \in Nat /\ Part(n, r.xsat) \in Nat
        /\ Part(n, r.synchronizer) + Part(n, r.btc) + Part(n, r.xsat) <= n
    BY <2>1, PartsFit
  <2> QED
    BY <1>6, <2>1, <2>2
<1>8. PICK logged, btcLog, xsatLog :
        /\ logged = (here /\ part > 0 /\ xsatList # << >>)
        /\ btcLog = [providers |-> btcList, consensus |-> cons, staking |-> rest,
                     synchronizer |-> sync, assigned |-> 0]
        /\ xsatLog = IF logged THEN [NoLog EXCEPT !.providers = xsatList, !.consensus = part] ELSE NoLog
  OBVIOUS
<1>9. /\ issued' = n
      /\ reward_log' = [s \in RewardScopes |-> IF s = "btc" THEN btcLog ELSE xsatLog]
      /\ reward_balance' = [s \in RewardScopes |->
           IF s = "xsat" /\ ~logged THEN reward_balance[s]
             ELSE [consensus |-> reward_log'[s].consensus, staking |-> reward_log'[s].staking,
                   synchronizer |-> reward_log'[s].synchronizer]]
      /\ paid' = [s \in RewardScopes |-> [v \in Validators |-> 0]]
      /\ synchronizer_paid' = 0
  BY <1>1, <1>4, <1>6, <1>8 DEF Distribute
<1>10. RewardScopes = {"btc", "xsat"}
  BY RewardAssumption
<1>11. btcLog \in LogType /\ xsatLog \in LogType
  <2>1. btcLog \in LogType
    BY <1>5, <1>7, <1>8 DEF LogType
  <2>3. << >> \in Seq(Validators)
    OBVIOUS
  <2>4. CASE logged
    <3>1. xsatLog = [providers |-> xsatList, consensus |-> part, staking |-> 0,
                     synchronizer |-> 0, assigned |-> 0]
      <4>1. xsatLog = [NoLog EXCEPT !.providers = xsatList, !.consensus = part]
        BY <1>8, <2>4
      <4> QED
        BY <4>1 DEF NoLog
    <3> QED
      BY ONLY <1>5, <1>7, <2>1, <3>1, LogOf
  <2>5. CASE ~logged
    <3>1. xsatLog = [providers |-> << >>, consensus |-> 0, staking |-> 0,
                     synchronizer |-> 0, assigned |-> 0]
      BY <1>8, <2>5 DEF NoLog
    <3> QED
      BY ONLY <2>1, <2>3, <3>1, LogOf, 0 \in Nat
  <2> QED
    BY <2>1, <2>4, <2>5
<1>12. reward_log'["btc"] = btcLog /\ reward_log'["xsat"] = xsatLog
  BY <1>9, <1>10
<1>13. /\ reward_balance'["btc"] = [consensus |-> cons, staking |-> rest, synchronizer |-> sync]
       /\ reward_balance'["xsat"] = IF logged THEN [consensus |-> part, staking |-> 0, synchronizer |-> 0]
                                              ELSE reward_balance["xsat"]
  BY <1>8, <1>9, <1>10, <1>12 DEF NoLog
<1>14. /\ LogExists("btc")' /\ (LogExists("xsat")' <=> logged)
       /\ ~logged => xsatLog = NoLog
       /\ xsatLog.providers = (IF logged THEN xsatList ELSE << >>)
  <2>1. btcLog.providers = btcList /\ btcList # << >>
    BY <1>5, <1>8
  <2>2. CASE logged
    <3>1. xsatLog.providers = xsatList /\ xsatList # << >>
      BY <1>8, <2>2 DEF NoLog
    <3> QED
      BY <1>12, <2>1, <2>2, <3>1 DEF LogExists
  <2>3. CASE ~logged
    <3>1. xsatLog = NoLog /\ NoLog.providers = << >>
      BY <1>8, <2>3 DEF NoLog
    <3> QED
      BY <1>12, <2>1, <2>3, <3>1 DEF LogExists
  <2> QED
    BY <2>2, <2>3
<1>15. num_provider_validators' \in Nat \ {0} /\ Len(btcList) <= num_provider_validators'
       /\ (logged => Len(xsatList) <= num_provider_validators')
  <2>1. Len(btcList) \in Nat \ {0} /\ Len(xsatList) \in Nat
    BY <1>5
  <2>2. PICK a, b : a = Len(btcList) /\ b = Len(xsatList)
    OBVIOUS
  <2>3. Max({a, b}) = IF a <= b THEN b ELSE a
    BY <2>1, <2>2, MaxOfTwo
  <2>4. num_provider_validators' = IF head THEN Max({a, b}) ELSE a
    BY <1>1, <1>4, <2>2 DEF NumProviders
  <2> QED
    BY <1>1, <1>8, <2>1, <2>2, <2>3, <2>4
<1>16. RewardTypeOK'
  <2>1. reward_balance' \in [RewardScopes -> BalanceType]
    <3>1. reward_balance["xsat"] \in BalanceType
      BY <1>10 DEF RewardInv, RewardTypeOK
    <3>2. reward_balance'["btc"] \in BalanceType /\ reward_balance'["xsat"] \in BalanceType
      BY <1>7, <1>13, <3>1 DEF BalanceType
    <3>3. PICK f : f = reward_balance'
      OBVIOUS
    <3>4. DOMAIN f = RewardScopes /\ f = [s \in RewardScopes |-> f[s]]
      BY <1>9, <3>3
    <3> QED
      BY <1>10, <3>2, <3>3, <3>4
  <2>2. reward_log' \in [RewardScopes -> LogType]
    BY <1>9, <1>11
  <2> QED
    BY <1>1, <1>2, <1>7, <1>9, <1>15, <2>1, <2>2 DEF RewardTypeOK
<1>17. LogsOfHeight'
  <2>1. reward_log["xsat"]'.consensus = (IF logged THEN part ELSE 0)
        /\ reward_log["xsat"]'.staking = 0 /\ reward_log["xsat"]'.synchronizer = 0
    BY <1>8, <1>12 DEF NoLog
  <2>2. /\ reward_log["btc"]'.consensus = cons /\ reward_log["btc"]'.staking = rest
        /\ reward_log["btc"]'.synchronizer = sync /\ reward_log["btc"]'.providers = btcList
    BY <1>8, <1>12
  <2>3. logged => here
    BY <1>8
  <2>4. ~here => part = 0
    BY <1>6
  <2>5. \A s \in RewardScopes : IF LogExists(s)' THEN IsInjective(reward_log[s]'.providers)
                                                ELSE reward_log[s]' = NoLog
    BY <1>5, <1>10, <1>12, <1>14, <2>2
  <2>6. \A s \in RewardScopes : Len(reward_log[s]'.providers) <= num_provider_validators'
    BY <1>10, <1>12, <1>14, <1>15, <2>2
  <2>7. /\ cons + rest + sync + (IF logged THEN part ELSE 0) <= n
        /\ logged \/ ~here => cons + rest + sync + (IF logged THEN part ELSE 0) = n
    BY <1>7, <2>4
  <2> QED
    BY <1>1, <1>9, <1>14, <2>1, <2>2, <2>3, <2>5, <2>6, <2>7 DEF LogsOfHeight
<1>18. ASSUME NEW s \in RewardScopes, LogExists(s)'
       PROVE  LogInv(reward_log[s], reward_balance[s], paid[s], num_validators_assigned)'
  <2>1. PICK log, balance, got :
          log = reward_log[s]' /\ balance = reward_balance[s]' /\ got = paid[s]'
    OBVIOUS
  <2>2. log \in LogType /\ log.providers # << >> /\ log.assigned = 0
    <3>1. CASE s = "btc"
      BY <1>5, <1>8, <1>11, <1>12, <2>1, <3>1
    <3>2. CASE s = "xsat"
      <4>1. logged
        BY <1>14, <1>18, <3>2
      <4> QED
        BY <1>8, <1>11, <1>12, <2>1, <3>2, <4>1 DEF NoLog
    <3> QED
      BY <1>10, <3>1, <3>2
  <2>3. balance = [consensus |-> log.consensus, staking |-> log.staking,
                   synchronizer |-> log.synchronizer]
    <3>1. CASE s = "btc"
      BY <1>8, <1>12, <1>13, <2>1, <3>1
    <3>2. CASE s = "xsat"
      <4>1. logged
        BY <1>14, <1>18, <3>2
      <4> QED
        <5>1. balance = [consensus |-> part, staking |-> 0, synchronizer |-> 0] /\ log = xsatLog
          BY <1>12, <1>13, <2>1, <3>2, <4>1
        <5>2. xsatLog = [NoLog EXCEPT !.providers = xsatList, !.consensus = part]
          BY <1>8, <4>1
        <5>3. xsatLog.consensus = part /\ xsatLog.staking = 0 /\ xsatLog.synchronizer = 0
          BY <5>2 DEF NoLog
        <5> QED
          BY <5>1, <5>3
    <3> QED
      BY <1>10, <3>1, <3>2
  <2>4. got = [v \in Validators |-> 0]
    BY <1>9, <2>1
  <2>5. LogInv(log, balance, got, 0)
    BY <2>2, <2>3, <2>4, LogInvStarts
  <2> QED
    BY <1>2, <2>1, <2>5 DEF LogInv, StakingShares, StakingShare, ConsensusShare, EndorsedStaking
<1>19. reward_log["btc"]'.assigned = 0 /\ Len(reward_log["btc"]'.providers) \in Nat \ {0}
  BY <1>5, <1>8, <1>12
<1> QED
  BY <1>2, <1>9, <1>15, <1>16, <1>17, <1>18, <1>19 DEF RewardInv

\* A sum over the logs there are.
LEMMA CalledSum ==
  ASSUME NEW called, called = {"btc"} \/ called = {"btc", "xsat"},
         NEW f, DOMAIN f = called, f["btc"] \in Nat, "xsat" \in called => f["xsat"] \in Nat
  PROVE  Sum(f) = f["btc"] + (IF "xsat" \in called THEN f["xsat"] ELSE 0)
<1>1. Sum(f) = SumFunctionOnSet(f, called)
  BY DEF Sum, SumFunction
<1>2. \A y \in {} \cup {"btc"} : f[y] \in Int
  OBVIOUS
<1>3. SumFunctionOnSet(f, {"btc"}) = f["btc"]
  <2>1. SumFunctionOnSet(f, {} \cup {"btc"}) = SumFunctionOnSet(f, {}) + f["btc"]
    BY <1>2, SumInsert, FS_EmptySet
  <2> QED
    BY <2>1, SumEmpty, {} \cup {"btc"} = {"btc"}
<1>4. ASSUME called = {"btc", "xsat"} 
       PROVE  SumFunctionOnSet(f, called) = f["btc"] + f["xsat"]
  <2>1. "xsat" \notin {"btc"} /\ IsFiniteSet({"btc"}) /\ {"btc"} \cup {"xsat"} = called
    BY <1>4, FS_Singleton
  <2>2. \A y \in {"btc"} \cup {"xsat"} : f[y] \in Int
    BY <1>4
  <2>3. SumFunctionOnSet(f, {"btc"} \cup {"xsat"}) = SumFunctionOnSet(f, {"btc"}) + f["xsat"]
    BY <2>1, <2>2, SumInsert
  <2> QED
    BY <1>3, <1>4, <2>1, <2>3
<1> QED
  BY <1>1, <1>3, <1>4

\* A batch pays the next slice of every log there is.
LEMMA BatchStep ==
  ASSUME RewardInv, Batch
  PROVE  RewardInv'
<1>1. PICK n, N, K : /\ n = num_validators_assigned /\ N = num_provider_validators
                     /\ K = num_validators_per_distribution
  OBVIOUS
<1>2. n \in Nat /\ N \in Nat /\ K \in Nat \ {0} /\ n < N /\ distributing
  BY <1>1, RewardAssumption DEF RewardInv, RewardTypeOK, Batch
<1>3. PICK to : to = Min({n + K, N})
  OBVIOUS
<1>4. to \in Nat /\ n < to /\ to <= N
  <2>1. to = IF n + K <= N THEN n + K ELSE N
    BY <1>2, <1>3, MinOfTwo
  <2> QED
    BY <1>2, <2>1
<1>5. /\ EndTRewards(n, to, active_here)
      /\ num_validators_assigned' = to /\ distributing' = (to # N)
      /\ num_provider_validators' = N /\ active_here' = active_here
  BY <1>1, <1>3 DEF Batch
<1>6. LogExists("btc") /\ (LogExists("xsat") => active_here)
  BY <1>2 DEF RewardInv, LogsOfHeight
<1>7. PICK called : called = {s \in RewardScopes : LogExists(s)}
  OBVIOUS
<1>8. /\ called = {"btc"} \cup (IF active_here /\ LogExists("xsat") THEN {"xsat"} ELSE {})
      /\ called = {"btc"} \/ called = {"btc", "xsat"}
      /\ "xsat" \in called => LogExists("xsat")
  BY <1>6, <1>7, RewardAssumption
<1>9. /\ \A s \in called : EndTReward(s, n, to).ok
      /\ reward_log' = [s \in RewardScopes |->
                          IF s \in called THEN EndTReward(s, n, to).log ELSE reward_log[s]]
      /\ reward_balance' = [s \in RewardScopes |->
                          IF s \in called THEN EndTReward(s, n, to).balance ELSE reward_balance[s]]
      /\ paid' = [s \in RewardScopes |->
                          IF s \in called THEN EndTReward(s, n, to).paid ELSE paid[s]]
      /\ synchronizer_paid' = synchronizer_paid + Sum([s \in called |-> EndTReward(s, n, to).sync])
      /\ issued' = issued
  BY <1>5, <1>8 DEF EndTRewards
<1>10. ASSUME NEW s \in called
       PROVE  /\ s \in RewardScopes
              /\ reward_log'[s] \in LogType /\ reward_balance'[s] \in BalanceType
              /\ paid'[s] \in [Validators -> Nat]
              /\ reward_log'[s] = [reward_log[s] EXCEPT !.assigned = reward_log'[s].assigned]
              /\ LogInv(reward_log'[s], reward_balance'[s], paid'[s], to)
              /\ EndTReward(s, n, to).sync =
                   IF /\ reward_log[s].assigned # Len(reward_log[s].providers)
                      /\ reward_log'[s].assigned = Len(reward_log[s].providers)
                      /\ reward_log[s].synchronizer > 0 THEN 1 ELSE 0
              /\ EndTReward(s, n, to).sync \in Nat
              /\ reward_log[s].synchronizer = 0 => EndTReward(s, n, to).sync = 0
  <2>1. s \in RewardScopes /\ LogExists(s)
    BY <1>7, <1>10
  <2>2. IsInjective(reward_log[s].providers)
    BY <2>1 DEF RewardInv, LogsOfHeight
  <2>3. RewardTypeOK
    BY DEF RewardInv
  <2>4. LogInv(reward_log[s], reward_balance[s], paid[s], n)
    BY <1>1, <2>1 DEF RewardInv
  <2>5. EndTReward(s, n, to).ok
    BY <1>9, <1>10
  <2>6. PICK r : r = EndTReward(s, n, to)
    OBVIOUS
  <2>7. /\ r.log \in LogType /\ r.balance \in BalanceType /\ r.paid \in [Validators -> Nat]
        /\ r.log = [reward_log[s] EXCEPT !.assigned = r.log.assigned]
        /\ LogInv(r.log, r.balance, r.paid, to)
        /\ r.sync = IF /\ reward_log[s].assigned # Len(reward_log[s].providers)
                       /\ r.log.assigned = Len(reward_log[s].providers)
                       /\ reward_log[s].synchronizer > 0 THEN 1 ELSE 0
    BY <1>2, <1>4, <2>1, <2>2, <2>3, <2>4, <2>5, <2>6, EndTRewardEffect
  <2>8. reward_log'[s] = r.log /\ reward_balance'[s] = r.balance /\ paid'[s] = r.paid
    BY <1>9, <1>10, <2>1, <2>6
  <2>9. r.sync \in Nat /\ (reward_log[s].synchronizer = 0 => r.sync = 0)
    <3>1. PICK c, k : c = r.sync /\ k = reward_log[s].synchronizer
      OBVIOUS
    <3>2. c = 0 \/ (c = 1 /\ k > 0)
      BY <2>7, <3>1
    <3> QED
      BY ONLY <3>1, <3>2
  <2> QED
    BY <2>1, <2>6, <2>7, <2>8, <2>9
<1>11. ASSUME NEW s \in RewardScopes \ called
       PROVE  /\ s = "xsat" /\ ~LogExists(s)
              /\ reward_log'[s] = reward_log[s] /\ reward_balance'[s] = reward_balance[s]
              /\ paid'[s] = paid[s]
  BY <1>6, <1>7, <1>8, <1>9, <1>11, RewardAssumption
<1>12. ASSUME NEW s \in RewardScopes
       PROVE  /\ reward_log'[s] \in LogType /\ reward_balance'[s] \in BalanceType
              /\ paid'[s] \in [Validators -> Nat]
              /\ reward_log'[s].providers = reward_log[s].providers
              /\ reward_log'[s].consensus = reward_log[s].consensus
              /\ reward_log'[s].staking = reward_log[s].staking
              /\ reward_log'[s].synchronizer = reward_log[s].synchronizer
              /\ (LogExists(s)' <=> LogExists(s))
              /\ ~LogExists(s) => reward_log'[s] = reward_log[s]
  <2>1. /\ reward_log[s] \in LogType /\ reward_balance[s] \in BalanceType
        /\ paid[s] \in [Validators -> Nat]
    BY DEF RewardInv, RewardTypeOK
  <2>2. CASE s \in called
    <3>1. PICK log, new : log = reward_log[s] /\ new = reward_log'[s]
      OBVIOUS
    <3>2. log \in LogType /\ new = [log EXCEPT !.assigned = new.assigned] /\ new \in LogType
      BY <1>10, <2>1, <2>2, <3>1
    <3>3. /\ new.providers = log.providers /\ new.consensus = log.consensus
          /\ new.staking = log.staking /\ new.synchronizer = log.synchronizer
      BY ONLY <3>2 DEF LogType
    <3> QED
      BY <1>7, <1>10, <2>2, <3>1, <3>3 DEF LogExists
  <2>3. CASE s \notin called
    BY <1>11, <2>1, <2>3 DEF LogExists
  <2> QED
    BY <2>2, <2>3
<1>13. Sum([s \in called |-> EndTReward(s, n, to).sync]) = EndTReward("btc", n, to).sync
  <2>1. "btc" \in called
    BY <1>8
  <2>2. EndTReward("btc", n, to).sync \in Nat
    BY <1>10, <2>1
  <2>3. "xsat" \in called => EndTReward("xsat", n, to).sync = 0
    <3>1. reward_log["xsat"].synchronizer = 0
      BY DEF RewardInv, LogsOfHeight
    <3> QED
      BY <1>10, <3>1
  <2>4. PICK f : f = [s \in called |-> EndTReward(s, n, to).sync]
    OBVIOUS
  <2>5. /\ DOMAIN f = called /\ f["btc"] = EndTReward("btc", n, to).sync
        /\ "xsat" \in called => f["xsat"] = EndTReward("xsat", n, to).sync
    BY <2>1, <2>4
  <2>6. Sum(f) = f["btc"] + (IF "xsat" \in called THEN f["xsat"] ELSE 0)
    <3>1. f["btc"] \in Nat /\ ("xsat" \in called => f["xsat"] \in Nat)
      BY <2>2, <2>3, <2>5
    <3> QED
      BY ONLY <1>8, <2>5, <3>1, CalledSum
  <2> QED
    BY <2>2, <2>3, <2>4, <2>5, <2>6
<1>14. synchronizer_paid' = synchronizer_paid + EndTReward("btc", n, to).sync
  BY <1>9, <1>13
<1>15. LET log == reward_log'["btc"] IN
       synchronizer_paid' = IF log.assigned = Len(log.providers) /\ log.synchronizer > 0 THEN 1 ELSE 0
  <2>1. "btc" \in RewardScopes /\ "btc" \in called
    BY <1>8, RewardAssumption
  <2>2. PICK log, new, last : /\ log = reward_log["btc"] /\ new = reward_log'["btc"]
                              /\ last = Len(log.providers)
    OBVIOUS
  <2>3. synchronizer_paid = IF log.assigned = last /\ log.synchronizer > 0 THEN 1 ELSE 0
    BY <1>6, <2>2 DEF RewardInv
  <2>4. log.assigned = last => new.assigned = last
    <3>1. LogInv(log, reward_balance["btc"], paid["btc"], n)
      BY <1>1, <1>6, <2>1, <2>2 DEF RewardInv
    <3>2. LogInv(new, reward_balance'["btc"], paid'["btc"], to)
      BY <1>10, <2>1, <2>2
    <3>3. new.providers = log.providers
      BY <1>12, <2>1, <2>2
    <3>4. log.assigned = Min({n, last}) /\ new.assigned = Min({to, last})
      BY <2>2, <3>1, <3>2, <3>3 DEF LogInv
    <3>5. log \in LogType
      BY <2>1, <2>2 DEF RewardInv, RewardTypeOK
    <3>6. last \in Nat
      BY <2>2, <3>5 DEF LogType
    <3>7. log.assigned = (IF n <= last THEN n ELSE last)
          /\ new.assigned = (IF to <= last THEN to ELSE last)
      BY <1>2, <1>4, <3>4, <3>6, MinOfTwo
    <3> QED
      BY <1>2, <1>4, <3>6, <3>7
  <2>5. EndTReward("btc", n, to).sync = IF /\ log.assigned # last /\ new.assigned = last
                                           /\ log.synchronizer > 0 THEN 1 ELSE 0
    BY <1>10, <2>1, <2>2
  <2>6. new.providers = log.providers /\ new.synchronizer = log.synchronizer
    BY <1>12, <2>1, <2>2
  <2>7. synchronizer_paid' = IF new.assigned = last /\ log.synchronizer > 0 THEN 1 ELSE 0
    BY <1>14, <2>3, <2>4, <2>5
  <2> QED
    BY <2>2, <2>6, <2>7
<1>16. RewardTypeOK'
  <2>1. reward_log' \in [RewardScopes -> LogType]
    <3>1. reward_log' = [s \in RewardScopes |-> reward_log'[s]]
      BY <1>9
    <3> QED
      BY <1>12, <3>1
  <2>2. reward_balance' \in [RewardScopes -> BalanceType]
    <3>1. reward_balance' = [s \in RewardScopes |-> reward_balance'[s]]
      BY <1>9
    <3> QED
      BY <1>12, <3>1
  <2>3. paid' \in [RewardScopes -> [Validators -> Nat]]
    <3>1. paid' = [s \in RewardScopes |-> paid'[s]]
      BY <1>9
    <3> QED
      BY <1>12, <3>1
  <2>4. synchronizer_paid' \in Nat
    BY <1>15
  <2>5. issued \in Nat /\ active_here \in BOOLEAN
    BY DEF RewardInv, RewardTypeOK
  <2>6. distributing' \in BOOLEAN
    BY <1>5
  <2> QED
    BY <1>2, <1>4, <1>5, <1>9, <2>1, <2>2, <2>3, <2>4, <2>5, <2>6 DEF RewardTypeOK
<1>17. LogsOfHeight'
  <2>0. LogsOfHeight /\ "btc" \in RewardScopes /\ "xsat" \in RewardScopes
    BY RewardAssumption DEF RewardInv
  <2>1. \A s \in RewardScopes : IF LogExists(s)' THEN IsInjective(reward_log'[s].providers)
                                                 ELSE reward_log'[s] = NoLog
    BY <1>12, <2>0 DEF LogsOfHeight
  <2>2. \A s \in RewardScopes : Len(reward_log'[s].providers) <= num_provider_validators'
    BY <1>1, <1>5, <1>12, <2>0 DEF LogsOfHeight
  <2>3. LogExists("btc")'
    BY <1>6, <1>12, <2>0
  <2>4. LogExists("xsat")' => active_here'
    BY <1>5, <1>6, <1>12, <2>0
  <2>5. /\ reward_log'["xsat"].staking = 0 /\ reward_log'["xsat"].synchronizer = 0
        /\ reward_log'["xsat"].consensus = reward_log["xsat"].consensus
        /\ reward_log'["btc"].staking = reward_log["btc"].staking
        /\ reward_log'["btc"].synchronizer = reward_log["btc"].synchronizer
        /\ reward_log'["btc"].consensus = reward_log["btc"].consensus
    BY <1>12, <2>0 DEF LogsOfHeight
  <2>6. /\ reward_log'["btc"].consensus + reward_log'["btc"].staking
             + reward_log'["btc"].synchronizer + reward_log'["xsat"].consensus <= issued'
        /\ LogExists("xsat")' \/ ~active_here' =>
             reward_log'["btc"].consensus + reward_log'["btc"].staking
               + reward_log'["btc"].synchronizer + reward_log'["xsat"].consensus = issued'
    BY <1>5, <1>6, <1>9, <1>12, <2>0, <2>5 DEF LogsOfHeight
  <2> QED
    BY <2>1, <2>2, <2>3, <2>4, <2>5, <2>6 DEF LogsOfHeight
<1>18. ASSUME NEW s \in RewardScopes, LogExists(s)'
       PROVE  LogInv(reward_log[s], reward_balance[s], paid[s], num_validators_assigned)'
  <2>1. s \in called
    BY <1>7, <1>12, <1>18
  <2>2. PICK log, balance, got :
          log = reward_log'[s] /\ balance = reward_balance'[s] /\ got = paid'[s]
    OBVIOUS
  <2>3. LogInv(log, balance, got, to)
    BY <1>10, <2>1, <2>2
  <2> QED
    BY <1>5, <2>2, <2>3 DEF LogInv, StakingShares, StakingShare, ConsensusShare, EndorsedStaking
<1>19. IF distributing' THEN num_validators_assigned' < num_provider_validators'
                        ELSE num_validators_assigned' = num_provider_validators'
  <2>1. distributing' <=> to # N
    BY <1>5, Zenon
  <2> QED
    BY <1>2, <1>4, <1>5, <2>1
<1> QED
  <2>1. \A s \in RewardScopes : LogExists(s)' =>
          LogInv(reward_log[s], reward_balance[s], paid[s], num_validators_assigned)'
    BY <1>18
  <2> QED
    BY ONLY <1>15, <1>16, <1>17, <1>19, <2>1, Zenon DEF RewardInv

\* A step with no change.
LEMMA RewardStutters ==
  ASSUME RewardInv, UNCHANGED allRewardVars
  PROVE  RewardInv'
<1>1. /\ reward_log' = reward_log /\ reward_balance' = reward_balance /\ issued' = issued
      /\ paid' = paid /\ synchronizer_paid' = synchronizer_paid
      /\ num_provider_validators' = num_provider_validators
      /\ num_validators_assigned' = num_validators_assigned
      /\ distributing' = distributing /\ active_here' = active_here
  BY DEF allRewardVars, rewardVars, callerVars
<1>2. RewardTypeOK' /\ LogsOfHeight'
  <2>1. RewardTypeOK /\ LogsOfHeight
    BY DEF RewardInv
  <2>2. RewardTypeOK'
    BY <1>1, <2>1 DEF RewardTypeOK
  <2> QED
    BY <1>1, <2>1, <2>2 DEF LogsOfHeight, LogExists
<1>3. \A s \in RewardScopes : LogExists(s)' =>
        LogInv(reward_log[s], reward_balance[s], paid[s], num_validators_assigned)'
  <2> SUFFICES ASSUME NEW s \in RewardScopes, LogExists(s)'
               PROVE  LogInv(reward_log[s], reward_balance[s], paid[s], num_validators_assigned)'
    OBVIOUS
  <2>1. LogInv(reward_log[s], reward_balance[s], paid[s], num_validators_assigned)
    BY <1>1 DEF RewardInv, LogExists
  <2> QED
    BY <1>1, <2>1 DEF LogInv, StakingShares, StakingShare, ConsensusShare, EndorsedStaking
<1>4. LogExists("btc")' =>
        synchronizer_paid' = IF /\ reward_log'["btc"].assigned = Len(reward_log'["btc"].providers)
                                /\ reward_log'["btc"].synchronizer > 0 THEN 1 ELSE 0
  BY <1>1 DEF RewardInv, LogExists
<1>5. IF distributing' THEN num_validators_assigned' < num_provider_validators'
                       ELSE num_validators_assigned' = num_provider_validators'
  BY <1>1 DEF RewardInv
<1> QED
  BY <1>2, <1>3, <1>4, <1>5 DEF RewardInv

\* What a log stands at.
LEMMA LogAccounts ==
  ASSUME RewardInv, NEW s \in RewardScopes, LogExists(s)
  PROVE  LET log == reward_log[s]
             balance == reward_balance[s]
             last == Len(log.providers) IN
         /\ log \in LogType /\ balance \in BalanceType /\ last \in Nat \ {0}
         /\ log.assigned \in 0..last /\ (~distributing => log.assigned = last)
         /\ log.assigned = last => balance = NoBalance
         /\ log.assigned # last => balance.synchronizer = log.synchronizer
         /\ Sum(paid[s]) \in Nat
         /\ Sum(paid[s]) + balance.consensus + balance.staking = log.consensus + log.staking
         /\ \A i \in 1..log.assigned : i # last =>
              paid[s][log.providers[i]] = StakingShare(log, i) + ConsensusShare(log)
<1>1. PICK log, balance, got, last, n :
        /\ log = reward_log[s] /\ balance = reward_balance[s] /\ got = paid[s]
        /\ last = Len(log.providers) /\ n = num_validators_assigned
  OBVIOUS
<1>2. log \in LogType /\ balance \in BalanceType /\ got \in [Validators -> Nat] /\ n \in Nat
  BY <1>1 DEF RewardInv, RewardTypeOK
<1>3. log.providers # << >> /\ last \in Nat \ {0}
  BY <1>1, <1>2, EndorsedPositive DEF LogExists
<1>4. LogInv(log, balance, got, n)
  BY <1>1 DEF RewardInv
<1>5. /\ log.assigned = IF n <= last THEN n ELSE last
      /\ log.assigned = last => balance = NoBalance
      /\ log.assigned # last =>
           balance = [consensus |-> log.consensus - ConsensusShare(log) * log.assigned,
                      staking |-> log.staking - StakingShares(log, 1..log.assigned),
                      synchronizer |-> log.synchronizer]
      /\ Sum(got) + balance.consensus + balance.staking = log.consensus + log.staking
      /\ \A i \in 1..(last - 1) : got[log.providers[i]] =
           IF i <= log.assigned THEN StakingShare(log, i) + ConsensusShare(log) ELSE 0
  BY <1>1, <1>2, <1>3, <1>4, LogInvOf
<1>6. log.assigned \in 0..last /\ (~distributing => log.assigned = last)
  <2>1. ~distributing => last <= n
    BY <1>1 DEF RewardInv, LogsOfHeight
  <2> QED
    BY <1>2, <1>3, <1>5, <2>1
<1>7. Sum(got) \in Nat
  <2>1. /\ DOMAIN got = Validators /\ IsFiniteSet(Validators)
        /\ \A v \in Validators : got[v] \in Nat
    BY <1>2, RewardAssumption
  <2>2. SumFunctionOnSet(got, Validators) \in Nat
    BY <2>1, SumBound
  <2> QED
    BY <2>1, <2>2 DEF Sum, SumFunction
<1>8. ASSUME NEW i \in 1..log.assigned, i # last
      PROVE  got[log.providers[i]] = StakingShare(log, i) + ConsensusShare(log)
  <2>1. i \in 1..(last - 1) /\ i <= log.assigned
    BY <1>3, <1>6, <1>8
  <2> QED
    BY <1>5, <2>1
<1>9. log.assigned # last => balance.synchronizer = log.synchronizer
  BY <1>5
<1> QED
  BY <1>1, <1>2, <1>3, <1>5, <1>6, <1>7, <1>8, <1>9

\* Nothing is lost, and all is settled when the tip may move.
LEMMA RewardInvConserves == RewardInv => RewardsConserved
<1> SUFFICES ASSUME RewardInv PROVE RewardsConserved
  OBVIOUS
<1>1. "btc" \in RewardScopes /\ "xsat" \in RewardScopes /\ RewardScopes = {"btc", "xsat"}
  BY RewardAssumption
<1>2. SettledWhenDone
  <2> SUFFICES ASSUME ~distributing, NEW s \in RewardScopes, LogExists(s)
               PROVE  /\ reward_log[s].assigned = Len(reward_log[s].providers)
                      /\ reward_balance[s] = NoBalance
                      /\ reward_log["btc"].synchronizer > 0 => synchronizer_paid = 1
    BY DEF SettledWhenDone, NoBalance
  <2>1. LogExists("btc")
    BY <1>1 DEF RewardInv, LogsOfHeight
  <2>2. reward_log["btc"].assigned = Len(reward_log["btc"].providers)
    BY <1>1, <2>1, LogAccounts
  <2>3. reward_log["btc"].synchronizer > 0 => synchronizer_paid = 1
    BY <2>1, <2>2 DEF RewardInv
  <2> QED
    BY <2>3, LogAccounts
<1>3. NothingIsLost
  <2> DEFINE logs == {s \in RewardScopes : LogExists(s)}
             held(s) == Sum(paid[s]) + reward_balance[s].consensus
                          + reward_balance[s].staking + reward_balance[s].synchronizer
             total == Sum([s \in logs |-> held(s)]) + synchronizer_paid * reward_log["btc"].synchronizer
             logged == reward_log["btc"].consensus + reward_log["btc"].staking
                         + reward_log["btc"].synchronizer + reward_log["xsat"].consensus
  <2>1. ASSUME LogExists("btc") PROVE total = logged
    <3>1. /\ logs = {"btc"} \/ logs = {"btc", "xsat"}
          /\ ("xsat" \in logs <=> LogExists("xsat"))
      BY <1>1, <2>1
    <3>2. PICK b, c, p, k : /\ b = reward_log["btc"] /\ c = reward_balance["btc"]
                            /\ p = Sum(paid["btc"]) /\ k = synchronizer_paid
      OBVIOUS
    <3>3. /\ b \in LogType /\ c \in BalanceType /\ p \in Nat
          /\ b.assigned = Len(b.providers) => c = NoBalance
          /\ b.assigned # Len(b.providers) => c.synchronizer = b.synchronizer
          /\ p + c.consensus + c.staking = b.consensus + b.staking
      BY <1>1, <2>1, <3>2, LogAccounts
    <3>4. k = IF b.assigned = Len(b.providers) /\ b.synchronizer > 0 THEN 1 ELSE 0
      BY <2>1, <3>2 DEF RewardInv
    <3>5. c.synchronizer \in Nat /\ c.synchronizer + k * b.synchronizer = b.synchronizer
      <4>1. b.synchronizer \in Nat /\ c.synchronizer \in Nat
        BY <3>3 DEF LogType, BalanceType
      <4>2. NoBalance.synchronizer = 0
        BY DEF NoBalance
      <4> QED
        BY <3>3, <3>4, <4>1, <4>2
    <3>6. /\ b.consensus \in Nat /\ b.staking \in Nat /\ b.synchronizer \in Nat
          /\ c.consensus \in Nat /\ c.staking \in Nat
      BY <3>3 DEF LogType, BalanceType
    <3>7. held("btc") \in Nat
          /\ held("btc") + k * b.synchronizer = b.consensus + b.staking + b.synchronizer
      <4>1. k * b.synchronizer \in Nat
        BY <3>4, <3>6
      <4>2. PICK z : z = k * b.synchronizer
        OBVIOUS
      <4>3. held("btc") = p + c.consensus + c.staking + c.synchronizer
        BY <3>2
      <4>4. c.synchronizer + z = b.synchronizer /\ z \in Nat
        BY ONLY <3>5, <4>1, <4>2
      <4>5. /\ p + c.consensus + c.staking + c.synchronizer \in Nat
            /\ p + c.consensus + c.staking + c.synchronizer + z
                 = b.consensus + b.staking + b.synchronizer
        <5>1. PICK c1, c2, c3, b1, b2, b3 :
                /\ c1 = c.consensus /\ c2 = c.staking /\ c3 = c.synchronizer
                /\ b1 = b.consensus /\ b2 = b.staking /\ b3 = b.synchronizer
          OBVIOUS
        <5>2. /\ c1 \in Nat /\ c2 \in Nat /\ c3 \in Nat /\ p \in Nat /\ z \in Nat
              /\ b1 \in Nat /\ b2 \in Nat /\ b3 \in Nat
              /\ p + c1 + c2 = b1 + b2 /\ c3 + z = b3
          BY ONLY <3>3, <3>5, <3>6, <4>4, <5>1
        <5>3. p + c1 + c2 + c3 \in Nat /\ p + c1 + c2 + c3 + z = b1 + b2 + b3
          BY ONLY <5>2
        <5> QED
          BY ONLY <5>1, <5>3
      <4> QED
        BY <4>2, <4>3, <4>5
    <3>8. reward_log["xsat"].staking = 0 /\ reward_log["xsat"].synchronizer = 0
      BY DEF RewardInv, LogsOfHeight
    <3>9. LogExists("xsat") => held("xsat") \in Nat /\ held("xsat") = reward_log["xsat"].consensus
      <4> SUFFICES ASSUME LogExists("xsat")
                   PROVE  held("xsat") \in Nat /\ held("xsat") = reward_log["xsat"].consensus
        OBVIOUS
      <4>1. PICK x, y, q : x = reward_log["xsat"] /\ y = reward_balance["xsat"] /\ q = Sum(paid["xsat"])
        OBVIOUS
      <4>2. /\ x \in LogType /\ y \in BalanceType /\ q \in Nat
            /\ x.assigned = Len(x.providers) => y = NoBalance
            /\ x.assigned # Len(x.providers) => y.synchronizer = x.synchronizer
            /\ q + y.consensus + y.staking = x.consensus + x.staking
        BY <1>1, <4>1, LogAccounts
      <4>3. /\ x.consensus \in Nat /\ x.staking = 0 /\ x.synchronizer = 0
            /\ y.consensus \in Nat /\ y.staking \in Nat
        BY <3>8, <4>1, <4>2 DEF LogType, BalanceType
      <4>4. y.synchronizer = 0
        BY <4>2, <4>3 DEF NoBalance
      <4> QED
        BY <4>1, <4>2, <4>3, <4>4
    <3>10. ~LogExists("xsat") => reward_log["xsat"].consensus = 0
      BY <1>1 DEF RewardInv, LogsOfHeight, NoLog
    <3>11. Sum([s \in logs |-> held(s)])
             = held("btc") + (IF LogExists("xsat") THEN held("xsat") ELSE 0)
      <4>1. PICK f, S : f = [s \in logs |-> held(s)] /\ S = logs
        OBVIOUS
      <4>2. /\ S = {"btc"} \/ S = {"btc", "xsat"}
            /\ ("xsat" \in S <=> LogExists("xsat"))
        BY <3>1, <4>1
      <4>3. /\ DOMAIN f = S /\ f["btc"] = held("btc")
            /\ "xsat" \in S => f["xsat"] = held("xsat")
        BY <3>1, <4>1
      <4>4. f["btc"] \in Nat /\ ("xsat" \in S => f["xsat"] \in Nat)
        BY <3>7, <3>9, <4>2, <4>3
      <4> HIDE DEF held, logs
      <4>5. Sum(f) = f["btc"] + (IF "xsat" \in S THEN f["xsat"] ELSE 0)
        BY <4>2, <4>3, <4>4, CalledSum
      <4> QED
        BY <4>1, <4>2, <4>3, <4>5
    <3>12. PICK hb, hx, t, cx : /\ hb = held("btc") /\ hx = held("xsat")
                                /\ t = Sum([s \in logs |-> held(s)]) /\ cx = reward_log["xsat"].consensus
      OBVIOUS
    <3>13. total = t + k * b.synchronizer
           /\ logged = b.consensus + b.staking + b.synchronizer + cx
      BY <3>2, <3>12
    <3> HIDE DEF total, logged, held, logs
    <3>14. cx \in Nat
      <4>1. reward_log["xsat"] \in LogType
        BY <1>1 DEF RewardInv, RewardTypeOK
      <4> QED
        BY <3>12, <4>1 DEF LogType
    <3>15. k * b.synchronizer \in Nat
      BY <3>4, <3>6
    <3>16. t = hb + cx
      BY <3>7, <3>9, <3>10, <3>11, <3>12
    <3> QED
      BY <3>6, <3>7, <3>12, <3>13, <3>14, <3>15, <3>16
  <2>2. ASSUME LogExists("btc")
        PROVE  logged <= issued /\ (LogExists("xsat") \/ ~active_here => logged = issued)
    BY <2>2 DEF RewardInv, LogsOfHeight
  <2> QED
    BY <2>1, <2>2 DEF NothingIsLost
<1> QED
  BY <1>2, <1>3 DEF RewardsConserved

\* Equal stakes are rewarded alike.
LEMMA RewardInvShares == RewardInv => ShareIndependentOfBatch
<1> SUFFICES ASSUME RewardInv, NEW s \in RewardScopes,
                    NEW i \in 1..reward_log[s].assigned, NEW j \in 1..reward_log[s].assigned,
                    i # Len(reward_log[s].providers), j # Len(reward_log[s].providers),
                    Staking[reward_log[s].providers[i]] = Staking[reward_log[s].providers[j]]
             PROVE  paid[s][reward_log[s].providers[i]] = paid[s][reward_log[s].providers[j]]
  BY DEF ShareIndependentOfBatch
<1>1. LogExists(s)
  <2>1. NoLog.assigned = 0
    BY DEF NoLog
  <2> QED
    BY <2>1 DEF RewardInv, LogsOfHeight
<1>2. PICK log : log = reward_log[s]
  OBVIOUS
<1>3. /\ paid[s][log.providers[i]] = StakingShare(log, i) + ConsensusShare(log)
      /\ paid[s][log.providers[j]] = StakingShare(log, j) + ConsensusShare(log)
  BY <1>1, <1>2, LogAccounts
<1>4. StakingShare(log, i) = StakingShare(log, j)
  BY <1>2 DEF StakingShare
<1> QED
  BY <1>2, <1>3, <1>4

\* RewardInv holds from the first distribution on: types, the two logs as parts
\* of the subsidy, and for each log what is paid, held and still due after the
\* batches so far (distribute, endtreward, endtreward2).
THEOREM RewardInvHolds == RewardSpec => []RewardInv
<1>1. RewardInit => RewardInv
  BY InitRewardInv
<1>2. RewardInv /\ [RewardNext]_allRewardVars => RewardInv'
  BY StartRewardStep, BatchStep, RewardStutters DEF RewardNext
<1> QED
  BY <1>1, <1>2, PTL DEF RewardSpec

\* From the first batch to the last, what was issued is with the validators,
\* with the synchronizer or in the balances, and at the end the balances are
\* empty: rounding loses nothing, whatever the stakes and the batches.
THEOREM RewardsConservedHolds == RewardSpec => []RewardsConserved
BY RewardInvHolds, RewardInvConserves, PTL

\* Validators of equal stake receive the same, in whichever batch they are; only
\* the last of a list also keeps the remainder.
THEOREM ShareIndependentOfBatchHolds == RewardSpec => []ShareIndependentOfBatch
BY RewardInvHolds, RewardInvShares, PTL

-----------------------------------------------------------------------------
\* A step of the fees is a step of the rewards, or leaves them alone.
LEMMA FeesStepIsRewardStep ==
  ASSUME NEW H, NEW Q, [FeesStep(ProviderLists, H, Q)]_feesVars
  PROVE  [RewardNext]_allRewardVars
<1>1. CASE StartBlock(ProviderLists)
  BY <1>1 DEF StartBlock, RewardNext, StartReward
<1>2. CASE RewardBatch
  BY <1>2 DEF RewardBatch, RewardNext
<1>3. CASE UNCHANGED allRewardVars
  BY <1>3
<1>4. CASE UNCHANGED feesVars
  BY <1>4 DEF feesVars
<1> QED
  BY <1>1, <1>2, <1>3, <1>4 DEF FeesStep

\* rwddist.xsat distributes as it does alone, whatever poolreg.xsat, rescmng.xsat
\* and gasfund.xsat do (StartBlock and RewardBatch are its only steps).
THEOREM FeesImplementRewards == FeesSpec => RewardSpec
<1>1. FeesInit => RewardInit
  BY DEF FeesInit
<1>2. [FeesStep(ProviderLists, 1..MaxHeight, Deposits)]_feesVars => [RewardNext]_allRewardVars
  BY FeesStepIsRewardStep
<1> QED
  BY <1>1, <1>2, PTL DEF FeesSpec, RewardSpec

\* So no part of a subsidy is lost, paid twice or left over, at any height.
THEOREM FeesConserveRewards == FeesSpec => []RewardsConserved
BY FeesImplementRewards, RewardsConservedHolds, PTL

-----------------------------------------------------------------------------
(* Tables as partial functions. *)

\* Put into a table of numbers, it replaces the one it had, or none.
LEMMA SumPut ==
  ASSUME NEW f, IsFiniteSet(DOMAIN f), \A x \in DOMAIN f : f[x] \in Int, NEW k, NEW n \in Int
  PROVE  LET g == Put(f, k, n) IN
         /\ IsFiniteSet(DOMAIN g)
         /\ SumFunctionOnSet(g, DOMAIN g) = SumFunctionOnSet(f, DOMAIN f) - Row(f, k, 0) + n
<1>0. PICK g : g = Put(f, k, n)
  OBVIOUS
<1>1. /\ DOMAIN g = DOMAIN f \cup {k} /\ g[k] = n /\ \A x \in DOMAIN f \ {k} : g[x] = f[x]
  BY <1>0 DEF Put
<1>2. IsFiniteSet(DOMAIN g)
  BY <1>1, FS_AddElement
<1>3. SumFunctionOnSet(g, DOMAIN g) = SumFunctionOnSet(f, DOMAIN f) - Row(f, k, 0) + n
  <2>1. CASE k \in DOMAIN f
    <3>1. PICK S : S = DOMAIN f
      OBVIOUS
    <3>2. IsFiniteSet(S) /\ k \in S /\ (\A x \in S : f[x] \in Int) /\ g[k] \in Int /\ \A x \in S \ {k} : g[x] = f[x]
      BY <1>1, <2>1, <3>1
    <3>3. SumFunctionOnSet(g, S) = SumFunctionOnSet(f, S) - f[k] + g[k]
      BY <3>2, SumUpdate
    <3>4. DOMAIN g = S /\ Row(f, k, 0) = f[k]
      BY <1>1, <2>1, <3>1 DEF Row
    <3> QED
      BY <1>1, <3>1, <3>3, <3>4
  <2>2. CASE k \notin DOMAIN f
    <3>1. PICK T : T = DOMAIN f
      OBVIOUS
    <3>2. IsFiniteSet(T) /\ k \notin T /\ \A x \in T \cup {k} : g[x] \in Int
      BY <1>1, <2>2, <3>1
    <3>3. SumFunctionOnSet(g, T \cup {k}) = SumFunctionOnSet(g, T) + g[k]
          /\ SumFunctionOnSet(g, T) \in Int
      BY <3>2, SumInsert
    <3>4. \A x \in T : f[x] \in Int /\ g[x] = f[x]
      BY <1>1, <2>2, <3>1
    <3>5. SumFunctionOnSet(g, T) = SumFunctionOnSet(f, T)
      BY <3>2, <3>4, SumEqual
    <3>6. Row(f, k, 0) = 0
      BY <2>2 DEF Row
    <3> QED
      BY <1>1, <3>1, <3>3, <3>5, <3>6
  <2> QED
    BY <2>1, <2>2
<1> QED
  BY <1>0, <1>2, <1>3

\* A row that is dropped leaves with its number.
LEMMA SumDrop ==
  ASSUME NEW f, IsFiniteSet(DOMAIN f), \A x \in DOMAIN f : f[x] \in Int,
         NEW k \in DOMAIN f
  PROVE  LET g == Drop(f, {k}) IN
         /\ IsFiniteSet(DOMAIN g)
         /\ SumFunctionOnSet(g, DOMAIN g) = SumFunctionOnSet(f, DOMAIN f) - f[k]
<1>0. PICK g : g = Drop(f, {k})
  OBVIOUS
<1>1. PICK S : S = DOMAIN f
  OBVIOUS
<1>2. DOMAIN g = S \ {k} /\ \A x \in S \ {k} : g[x] = f[x]
  BY <1>0, <1>1 DEF Drop, Restrict
<1>3. IsFiniteSet(S) /\ k \in S /\ \A x \in S : f[x] \in Int
  BY <1>1
<1>4. IsFiniteSet(S \ {k})
  BY <1>3, FS_Subset
<1>5. SumFunctionOnSet(f, S) = f[k] + SumFunctionOnSet(f, S \ {k})
  BY <1>3, SumRemove
<1>6. \A x \in S \ {k} : f[x] \in Int /\ g[x] = f[x]
  BY <1>2, <1>3
<1>7. SumFunctionOnSet(g, S \ {k}) = SumFunctionOnSet(f, S \ {k})
  BY <1>4, <1>6, SumEqual
<1>8. SumFunctionOnSet(f, S \ {k}) \in Int
  BY <1>4, <1>6, SumType
<1>9. f[k] \in Int
  OBVIOUS
<1>10. SumFunctionOnSet(g, DOMAIN g) = SumFunctionOnSet(f, DOMAIN f) - f[k]
  <2>1. SumFunctionOnSet(g, DOMAIN g) = SumFunctionOnSet(f, S \ {k})
    BY <1>2, <1>7
  <2> QED
    BY <1>1, <1>5, <1>8, <1>9, <2>1
<1>11. IsFiniteSet(DOMAIN g)
  BY <1>2, <1>4
<1> QED
  BY <1>0, <1>1, <1>2, <1>10, <1>11

-----------------------------------------------------------------------------
(* The prepaid balances, and the fees they become. *)

\* rescmng.xsat holds what was prepaid.
PrepaidHeld == btc.rescmng = Sum(account)

\* The fees of the heights above last.
FeesAbove(stat, last) == Sum(Restrict(stat, {h \in DOMAIN stat : h > last}))

\* A balance that is set to a natural.
LEMMA BalanceSet ==
  ASSUME ResourceTypeOK, NEW k, NEW n \in Nat, account' = Put(account, k, n)
  PROVE  /\ account' \in [DOMAIN account' -> Nat] /\ IsFiniteSet(DOMAIN account')
         /\ Sum(account') = Sum(account) - Row(account, k, 0) + n
         /\ Sum(account) \in Int /\ Row(account, k, 0) \in Nat
<1>1. PICK f, g : f = account /\ g = account'
  OBVIOUS
<1>2. /\ IsFiniteSet(DOMAIN f) /\ (\A x \in DOMAIN f : f[x] \in Nat) /\ g = Put(f, k, n)
  BY <1>1 DEF ResourceTypeOK
<1>3. n \in Int /\ \A x \in DOMAIN f : f[x] \in Int
  BY <1>2
<1>4. /\ DOMAIN g = DOMAIN f \cup {k} /\ IsFiniteSet(DOMAIN g)
      /\ g[k] = n /\ \A x \in DOMAIN f \ {k} : g[x] = f[x]
      /\ SumFunctionOnSet(g, DOMAIN g) = SumFunctionOnSet(f, DOMAIN f) - Row(f, k, 0) + n
  <2>1. IsFiniteSet(DOMAIN g)
        /\ SumFunctionOnSet(g, DOMAIN g) = SumFunctionOnSet(f, DOMAIN f) - Row(f, k, 0) + n
    BY <1>2, <1>3, SumPut
  <2>2. DOMAIN g = DOMAIN f \cup {k} /\ g[k] = n /\ \A x \in DOMAIN f \ {k} : g[x] = f[x]
    BY <1>2 DEF Put
  <2> QED
    BY <2>1, <2>2
<1>5. g \in [DOMAIN g -> Nat]
  BY <1>2, <1>4 DEF Put
<1>6. SumFunctionOnSet(f, DOMAIN f) \in Int /\ Row(f, k, 0) \in Nat
  BY <1>2, <1>3, SumType DEF Row
<1> QED
  BY <1>1, <1>4, <1>5, <1>6 DEF Sum, SumFunction

\* A fee that is counted for a height.
LEMMA FeeCounted ==
  ASSUME ResourceTypeOK, NEW h \in Nat, NEW fee \in Nat, NEW last \in Nat,
         feestat' = Put(feestat, h, Row(feestat, h, 0) + fee)
  PROVE  /\ feestat' \in [DOMAIN feestat' -> Nat] /\ DOMAIN feestat' \subseteq Nat /\ IsFiniteSet(DOMAIN feestat')
         /\ DOMAIN feestat' = DOMAIN feestat \cup {h}
         /\ FeesAbove(feestat', last) = FeesAbove(feestat, last) + (IF h > last THEN fee ELSE 0)
         /\ FeesAbove(feestat, last) \in Int
<1>1. PICK f, g : f = feestat /\ g = feestat'
  OBVIOUS
<1>2. /\ IsFiniteSet(DOMAIN f) /\ DOMAIN f \subseteq Nat /\ (\A x \in DOMAIN f : f[x] \in Nat)
      /\ Row(f, h, 0) \in Nat /\ g = Put(f, h, Row(f, h, 0) + fee)
  BY <1>1 DEF ResourceTypeOK, Row
<1>3. /\ DOMAIN g = DOMAIN f \cup {h} /\ g[h] = Row(f, h, 0) + fee /\ \A x \in DOMAIN f \ {h} : g[x] = f[x]
      /\ IsFiniteSet(DOMAIN g)
  BY <1>2, FS_AddElement DEF Put
<1>4. g \in [DOMAIN g -> Nat]
  BY <1>2, <1>3 DEF Put
<1>5. PICK F, G : F = {x \in DOMAIN f : x > last} /\ G = {x \in DOMAIN g : x > last}
  OBVIOUS
<1>6. PICK a, b : a = Restrict(f, F) /\ b = Restrict(g, G)
  OBVIOUS
<1>7. /\ DOMAIN a = F /\ DOMAIN b = G /\ IsFiniteSet(F) /\ IsFiniteSet(G)
      /\ (\A x \in F : a[x] = f[x] /\ a[x] \in Int) /\ \A x \in G : b[x] = g[x]
  BY <1>2, <1>3, <1>5, <1>6, FS_Subset DEF Restrict
<1>8. SumFunctionOnSet(a, F) \in Int
  BY <1>7, SumType
<1>9. h > last => SumFunctionOnSet(b, G) = SumFunctionOnSet(a, F) + fee
  <2> SUFFICES ASSUME h > last PROVE SumFunctionOnSet(b, G) = SumFunctionOnSet(a, F) + fee
    OBVIOUS
  <2>1. b = Put(a, h, Row(a, h, 0) + fee)
    <3>1. G = F \cup {h}
      BY <1>3, <1>5
    <3>2. Row(a, h, 0) = Row(f, h, 0)
      BY <1>5, <1>6 DEF Row, Restrict
    <3>3. b = [x \in G |-> g[x]] /\ a = [x \in F |-> f[x]]
      BY <1>6 DEF Restrict
    <3>4. \A x \in G : g[x] = IF x = h THEN Row(a, h, 0) + fee ELSE a[x]
      BY <1>3, <1>5, <1>7, <3>1, <3>2
    <3> QED
      BY <1>7, <3>1, <3>3, <3>4 DEF Put
  <2>2. Row(a, h, 0) \in Nat /\ Row(a, h, 0) + fee \in Int
    BY <1>2, <1>7, <1>5 DEF Row
  <2>3. SumFunctionOnSet(b, DOMAIN b) = SumFunctionOnSet(a, DOMAIN a) - Row(a, h, 0) + (Row(a, h, 0) + fee)
    BY <1>7, <2>1, <2>2, SumPut
  <2>4. SumFunctionOnSet(b, G) = SumFunctionOnSet(a, F) + fee
    BY <1>7, <1>8, <2>2, <2>3
  <2> QED
    BY <2>4
<1>10. ~(h > last) => SumFunctionOnSet(b, G) = SumFunctionOnSet(a, F)
  <2> SUFFICES ASSUME ~(h > last) PROVE SumFunctionOnSet(b, G) = SumFunctionOnSet(a, F)
    OBVIOUS
  <2>1. F = G /\ \A x \in F : a[x] \in Int /\ b[x] = a[x]
    BY <1>3, <1>5, <1>7
  <2>2. SumFunctionOnSet(b, G) = SumFunctionOnSet(a, F)
    BY <1>7, <2>1, SumEqual
  <2> QED
    BY <2>2
<1>11. FeesAbove(feestat, last) = SumFunctionOnSet(a, F)
  BY <1>1, <1>5, <1>6, <1>7 DEF FeesAbove, Sum, SumFunction
<1>12. FeesAbove(feestat', last) = SumFunctionOnSet(b, G)
  BY <1>1, <1>5, <1>6, <1>7 DEF FeesAbove, Sum, SumFunction
<1>13. /\ feestat' \in [DOMAIN feestat' -> Nat] /\ DOMAIN feestat' \subseteq Nat /\ IsFiniteSet(DOMAIN feestat')
       /\ DOMAIN feestat' = DOMAIN feestat \cup {h}
  BY <1>1, <1>2, <1>3, <1>4
<1> QED
  BY <1>8, <1>9, <1>10, <1>11, <1>12, <1>13

\* What a call of rescmng.xsat leaves alone or lets grow.
ResourceKept(last) ==
  /\ ResourceTypeOK' /\ PrepaidHeld' /\ btc'.gasfund = btc.gasfund
  /\ DOMAIN feestat \subseteq DOMAIN feestat'
  /\ btc'.fees - FeesAbove(feestat', last) >= btc.fees - FeesAbove(feestat, last)

\* A fee leaves the prepaid balance for the fee account, where it is counted.
LEMMA PayKeeps ==
  ASSUME ResourceTypeOK, PrepaidHeld, NEW last \in Nat,
         NEW h \in Nat, NEW owner, NEW type \in FeeTypes, NEW quantity \in Nat,
         pay(h, owner, type, quantity), resource_config' = resource_config
  PROVE  ResourceKept(last)
<1>1. PICK fee : fee = get_fee(type, quantity)
  OBVIOUS
<1>2. fee \in Nat
  <2>1. resource_config.cost[type] \in Nat
    BY DEF ResourceTypeOK
  <2> QED
    BY <1>1, <2>1 DEF get_fee
<1>3. /\ owner \in DOMAIN account /\ account[owner] >= fee
      /\ account' = [account EXCEPT ![owner] = account[owner] - fee]
      /\ btc' = [btc EXCEPT !.rescmng = btc.rescmng - fee, !.fees = btc.fees + fee]
      /\ feestat' = Put(feestat, h, Row(feestat, h, 0) + fee)
  BY <1>1 DEF pay, Move
<1>4. account[owner] \in Nat /\ account \in [DOMAIN account -> Nat]
  BY <1>3 DEF ResourceTypeOK
<1>5. account' = Put(account, owner, account[owner] - fee) /\ account[owner] - fee \in Nat
      /\ Row(account, owner, 0) = account[owner]
  <2>1. DOMAIN account \cup {owner} = DOMAIN account
    BY <1>3
  <2>2. account' = Put(account, owner, account[owner] - fee)
    BY <1>3, <1>4, <2>1 DEF Put
  <2>3. Row(account, owner, 0) = account[owner]
    BY <1>3 DEF Row
  <2>4. account[owner] - fee \in Nat
    BY <1>2, <1>3, <1>4
  <2> QED
    BY <2>2, <2>3, <2>4
<1>6. /\ account' \in [DOMAIN account' -> Nat] /\ IsFiniteSet(DOMAIN account')
      /\ Sum(account') = Sum(account) - fee /\ Sum(account) \in Int
  BY <1>2, <1>4, <1>5, BalanceSet
<1>7. /\ feestat' \in [DOMAIN feestat' -> Nat] /\ DOMAIN feestat' \subseteq Nat /\ IsFiniteSet(DOMAIN feestat')
      /\ DOMAIN feestat' = DOMAIN feestat \cup {h}
      /\ FeesAbove(feestat', last) = FeesAbove(feestat, last) + (IF h > last THEN fee ELSE 0)
      /\ FeesAbove(feestat, last) \in Int
  BY <1>2, <1>3, FeeCounted
<1>8. btc \in [rescmng : Int, fees : Int, gasfund : Int]
  BY DEF ResourceTypeOK
<1>9. /\ btc' \in [rescmng : Int, fees : Int, gasfund : Int] /\ btc'.gasfund = btc.gasfund
      /\ btc'.rescmng = btc.rescmng - fee /\ btc'.fees = btc.fees + fee
  <2>1. PICK b, c : b = btc /\ c = btc'
    OBVIOUS
  <2>2. b \in [rescmng : Int, fees : Int, gasfund : Int]
        /\ c = [b EXCEPT !.rescmng = b.rescmng - fee, !.fees = b.fees + fee]
    BY <1>3, <1>8, <2>1
  <2>3. c = [rescmng |-> b.rescmng - fee, fees |-> b.fees + fee, gasfund |-> b.gasfund]
    BY <2>2
  <2>4. b.rescmng - fee \in Int /\ b.fees + fee \in Int /\ b.gasfund \in Int
    BY <1>2, <2>2
  <2> QED
    BY <2>1, <2>3, <2>4
<1>10. ResourceTypeOK'
  BY <1>6, <1>7, <1>9 DEF ResourceTypeOK
<1>11. PrepaidHeld'
  BY <1>6, <1>9 DEF PrepaidHeld
<1> QED
  BY <1>2, <1>7, <1>8, <1>9, <1>10, <1>11 DEF ResourceKept

\* Whatever is done with the contract, the balances are held and the fee account
\* grows by what is counted.
LEMMA ResourceStep ==
  ASSUME ResourceTypeOK, PrepaidHeld, NEW last \in Nat, NEW H \in SUBSET Nat, ResourceNext(H)
  PROVE  ResourceKept(last)
<1>1. btc \in [rescmng : Int, fees : Int, gasfund : Int]
  BY DEF ResourceTypeOK
<1>2. ASSUME UNCHANGED feestat
      PROVE  /\ FeesAbove(feestat', last) = FeesAbove(feestat, last) /\ DOMAIN feestat \subseteq DOMAIN feestat'
             /\ FeesAbove(feestat, last) \in Int
  <2>1. PICK f, F : f = feestat /\ F = {h \in DOMAIN f : h > last}
    OBVIOUS
  <2>2. PICK a : a = Restrict(f, F)
    OBVIOUS
  <2>3. IsFiniteSet(F) /\ DOMAIN a = F /\ \A x \in F : a[x] \in Int
    BY <2>1, <2>2, FS_Subset DEF ResourceTypeOK, Restrict
  <2>4. SumFunctionOnSet(a, F) \in Int
    BY <2>3, SumType
  <2> QED
    BY <1>2, <2>1, <2>2, <2>3, <2>4 DEF FeesAbove, Sum, SumFunction
<1>3. CASE \E a \in Clients, n \in Deposits : do_deposit(a, n)
  <2>1. PICK a \in Clients, n \in Deposits : do_deposit(a, n)
    BY <1>3
  <2>2. n \in Nat /\ Row(account, a, 0) \in Nat
    BY ResourceAssumption DEF ResourceTypeOK, Row
  <2>3. /\ account' = Put(account, a, Row(account, a, 0) + n)
        /\ btc' = [btc EXCEPT !.rescmng = btc.rescmng + n] /\ UNCHANGED <<resource_config, feestat>>
    BY <2>1 DEF do_deposit
  <2>4. Row(account, a, 0) + n \in Nat
    BY <2>2
  <2>5. /\ account' \in [DOMAIN account' -> Nat] /\ IsFiniteSet(DOMAIN account')
        /\ Sum(account') = Sum(account) + n /\ Sum(account) \in Int
    BY <2>2, <2>3, <2>4, BalanceSet
  <2>6. /\ btc' \in [rescmng : Int, fees : Int, gasfund : Int] /\ btc'.gasfund = btc.gasfund
        /\ btc'.rescmng = btc.rescmng + n /\ btc'.fees = btc.fees
    BY <1>1, <2>2, <2>3
  <2>7. ResourceTypeOK'
    BY <2>3, <2>5, <2>6 DEF ResourceTypeOK
  <2>8. PrepaidHeld'
    BY <2>5, <2>6 DEF PrepaidHeld
  <2> QED
    BY <1>1, <1>2, <2>3, <2>6, <2>7, <2>8 DEF ResourceKept
<1>4. CASE \E a \in Clients, n \in Deposits : withdraw(a, n)
  <2>1. PICK a \in Clients, n \in Deposits : withdraw(a, n)
    BY <1>4
  <2>2. n \in Nat /\ a \in DOMAIN account /\ account[a] \in Nat /\ account[a] >= n
        /\ account \in [DOMAIN account -> Nat]
    BY <2>1, ResourceAssumption DEF ResourceTypeOK, withdraw
  <2>3. /\ account' = IF account[a] = n THEN Drop(account, {a}) ELSE [account EXCEPT ![a] = account[a] - n]
        /\ btc' = [btc EXCEPT !.rescmng = btc.rescmng - n] /\ UNCHANGED <<resource_config, feestat>>
    BY <2>1 DEF withdraw
  <2>4. /\ account' \in [DOMAIN account' -> Nat] /\ IsFiniteSet(DOMAIN account')
        /\ Sum(account') = Sum(account) - n /\ Sum(account) \in Int
    <3>1. CASE account[a] = n
      <4>1. PICK f, g : f = account /\ g = account'
        OBVIOUS
      <4>2. IsFiniteSet(DOMAIN f) /\ (\A x \in DOMAIN f : f[x] \in Nat) /\ a \in DOMAIN f /\ g = Drop(f, {a})
            /\ f[a] = n
        BY <2>2, <2>3, <3>1, <4>1 DEF ResourceTypeOK
      <4>3. \A x \in DOMAIN f : f[x] \in Int
        BY <4>2
      <4>4. /\ DOMAIN g = DOMAIN f \ {a} /\ IsFiniteSet(DOMAIN g)
            /\ \A x \in DOMAIN g : g[x] = f[x]
            /\ SumFunctionOnSet(g, DOMAIN g) = SumFunctionOnSet(f, DOMAIN f) - f[a]
        <5>1. PICK k : k = a
          OBVIOUS
        <5>2. k \in DOMAIN f /\ g = Drop(f, {k})
          BY <4>2, <5>1
        <5>3. IsFiniteSet(DOMAIN g) /\ SumFunctionOnSet(g, DOMAIN g) = SumFunctionOnSet(f, DOMAIN f) - f[k]
          BY <4>2, <4>3, <5>2, SumDrop
        <5>4. DOMAIN g = DOMAIN f \ {k} /\ \A x \in DOMAIN g : g[x] = f[x]
          BY <5>2 DEF Drop, Restrict
        <5> QED
          BY <5>1, <5>3, <5>4
      <4>5. g \in [DOMAIN g -> Nat]
        BY <4>2, <4>4 DEF Drop, Restrict
      <4>6. SumFunctionOnSet(f, DOMAIN f) \in Int
        BY <4>2, <4>3, SumType
      <4> QED
        BY <4>1, <4>2, <4>4, <4>5, <4>6 DEF Sum, SumFunction
    <3>2. CASE account[a] # n
      <4>1. account' = Put(account, a, account[a] - n) /\ account[a] - n \in Nat
            /\ Row(account, a, 0) = account[a]
        <5>1. DOMAIN account \cup {a} = DOMAIN account
          BY <2>2
        <5>2. account' = Put(account, a, account[a] - n)
          BY <2>2, <2>3, <3>2, <5>1 DEF Put
        <5> QED
          BY <2>2, <5>2 DEF Row
      <4>2. /\ account' \in [DOMAIN account' -> Nat] /\ IsFiniteSet(DOMAIN account')
            /\ Sum(account') = Sum(account) - Row(account, a, 0) + (account[a] - n) /\ Sum(account) \in Int
        BY <4>1, BalanceSet
      <4> QED
        BY <2>2, <4>1, <4>2
    <3> QED
      BY <3>1, <3>2
  <2>6. /\ btc' \in [rescmng : Int, fees : Int, gasfund : Int] /\ btc'.gasfund = btc.gasfund
        /\ btc'.rescmng = btc.rescmng - n /\ btc'.fees = btc.fees
    BY <1>1, <2>2, <2>3
  <2>7. ResourceTypeOK'
    BY <2>3, <2>4, <2>6 DEF ResourceTypeOK
  <2>8. PrepaidHeld'
    BY <2>4, <2>6 DEF PrepaidHeld
  <2> QED
    BY <1>1, <1>2, <2>3, <2>6, <2>7, <2>8 DEF ResourceKept
<1>5. CASE \E h \in H, a \in Clients, t \in BlockFees : pay(h, a, t, 1) /\ UNCHANGED resource_config
  <2>1. PICK h \in H, a \in Clients, t \in BlockFees : pay(h, a, t, 1) /\ UNCHANGED resource_config
    BY <1>5
  <2>2. h \in Nat /\ t \in FeeTypes
    BY DEF BlockFees
  <2> QED
    BY <2>1, <2>2, PayKeeps
<1>6. CASE (\E c \in Costs : init(c)) \/ \E disabled \in BOOLEAN : setstatus(disabled)
  <2>1. UNCHANGED <<account, feestat, btc>>
    BY <1>6 DEF init, setstatus
  <2>2. resource_config' \in [saved : BOOLEAN, disabled_withdraw : BOOLEAN, cost : [FeeTypes -> Nat]]
    <3>1. resource_config \in [saved : BOOLEAN, disabled_withdraw : BOOLEAN, cost : [FeeTypes -> Nat]]
      BY DEF ResourceTypeOK
    <3>2. ASSUME NEW c \in Costs, init(c)
          PROVE  resource_config' \in [saved : BOOLEAN, disabled_withdraw : BOOLEAN, cost : [FeeTypes -> Nat]]
      <4>1. c \in [FeeTypes -> Nat]
        BY ResourceAssumption
      <4> QED
        BY <3>1, <3>2, <4>1 DEF init
    <3>3. ASSUME NEW disabled \in BOOLEAN, setstatus(disabled)
          PROVE  resource_config' \in [saved : BOOLEAN, disabled_withdraw : BOOLEAN, cost : [FeeTypes -> Nat]]
      BY <3>1, <3>3 DEF setstatus
    <3> QED
      BY <1>6, <3>2, <3>3
  <2>3. ResourceTypeOK' /\ PrepaidHeld'
    BY <2>1, <2>2 DEF ResourceTypeOK, PrepaidHeld
  <2> QED
    BY <1>1, <1>2, <2>1, <2>3 DEF ResourceKept
<1> QED
  BY <1>3, <1>4, <1>5, <1>6 DEF ResourceNext

-----------------------------------------------------------------------------
(* The rewards of the synchronizers, and the addresses they mine to. *)

\* What each synchronizer may claim, and the invariant about it.
Unclaimed == [s \in DOMAIN pool |-> pool[s].unclaimed]

PoolsInv == PoolTypeOK /\ PoolsKeepTheirs

\* The rows, the rewards among them and the balance that holds these.
PoolRowsKept ==
  /\ pool' \in [DOMAIN pool' -> PoolRow] /\ DOMAIN pool' \subseteq Pools /\ IsFiniteSet(DOMAIN pool')
  /\ pool_xsat' \in Int /\ pool_xsat' = SumFunction(Unclaimed')

\* A row that is put, with the reward it has more or less in the balance.
LEMMA PoolPut ==
  ASSUME PoolsInv, NEW s \in Pools, NEW row \in PoolRow, pool' = Put(pool, s, row),
         pool_xsat' = pool_xsat - Row(Unclaimed, s, 0) + row.unclaimed
  PROVE  PoolRowsKept /\ DOMAIN pool' = DOMAIN pool \cup {s}
<1>1. PICK p, q, f, g, n : p = pool /\ q = pool' /\ f = Unclaimed /\ g = Unclaimed' /\ n = row.unclaimed
  OBVIOUS
<1>2. p \in [DOMAIN p -> PoolRow] /\ DOMAIN p \subseteq Pools /\ IsFiniteSet(DOMAIN p)
  BY <1>1 DEF PoolsInv, PoolTypeOK
<1>3. q = Put(p, s, row)
  BY <1>1
<1>4. DOMAIN q = DOMAIN p \cup {s} /\ q[s] = row /\ \A x \in DOMAIN p : x # s => q[x] = p[x]
  BY <1>3 DEF Put
<1>5. q \in [DOMAIN q -> PoolRow]
  BY <1>2, <1>3, <1>4 DEF Put
<1>6. DOMAIN q \subseteq Pools /\ IsFiniteSet(DOMAIN q)
  BY <1>2, <1>4, FS_AddElement
<1>7. f = [x \in DOMAIN p |-> p[x].unclaimed] /\ g = [x \in DOMAIN q |-> q[x].unclaimed]
  BY <1>1 DEF Unclaimed
<1>8. g = Put(f, s, n)
  BY <1>1, <1>4, <1>7 DEF Put
<1>9. DOMAIN f = DOMAIN p /\ n \in Int /\ \A x \in DOMAIN f : f[x] \in Int
  BY <1>1, <1>2, <1>7 DEF PoolRow
<1>10. SumFunctionOnSet(g, DOMAIN g) = SumFunctionOnSet(f, DOMAIN f) - Row(f, s, 0) + n
  BY <1>2, <1>8, <1>9, SumPut
<1>11. pool_xsat \in Int /\ pool_xsat = SumFunctionOnSet(f, DOMAIN f)
  BY <1>1 DEF PoolsInv, PoolTypeOK, PoolsKeepTheirs, Unclaimed, SumFunction
<1>12. Row(f, s, 0) \in Int
  BY <1>9 DEF Row
<1>13. pool_xsat' \in Int /\ pool_xsat' = SumFunctionOnSet(g, DOMAIN g)
  BY <1>1, <1>9, <1>10, <1>11, <1>12
<1> QED
  BY <1>1, <1>4, <1>5, <1>6, <1>13 DEF PoolRowsKept, SumFunction

\* The same of a registered synchronizer.
LEMMA PoolUpdated ==
  ASSUME PoolsInv, NEW s \in DOMAIN pool, NEW row \in PoolRow, pool' = [pool EXCEPT ![s] = row],
         pool_xsat' = pool_xsat - pool[s].unclaimed + row.unclaimed
  PROVE  PoolRowsKept /\ DOMAIN pool' = DOMAIN pool
<1>1. pool \in [DOMAIN pool -> PoolRow] /\ s \in Pools
  BY DEF PoolsInv, PoolTypeOK
<1>2. DOMAIN pool \cup {s} = DOMAIN pool
  OBVIOUS
<1>3. pool' = Put(pool, s, row)
  BY <1>1, <1>2 DEF Put
<1>4. Row(Unclaimed, s, 0) = pool[s].unclaimed
  BY DEF Row, Unclaimed
<1>5. pool_xsat' = pool_xsat - Row(Unclaimed, s, 0) + row.unclaimed
  BY <1>4
<1>6. PoolRowsKept /\ DOMAIN pool' = DOMAIN pool \cup {s}
  BY <1>1, <1>3, <1>5, PoolPut
<1> QED
  BY <1>2, <1>6

\* Only rows without a reward are deleted.
LEMMA PoolDropped ==
  ASSUME PoolsInv, NEW s \in DOMAIN pool, pool[s].unclaimed = 0, pool' = Drop(pool, {s}),
         pool_xsat' = pool_xsat
  PROVE  PoolRowsKept /\ DOMAIN pool' = DOMAIN pool \ {s}
<1>1. PICK p, q, f, g : p = pool /\ q = pool' /\ f = Unclaimed /\ g = Unclaimed'
  OBVIOUS
<1>2. p \in [DOMAIN p -> PoolRow] /\ DOMAIN p \subseteq Pools /\ IsFiniteSet(DOMAIN p) /\ s \in DOMAIN p
  BY <1>1 DEF PoolsInv, PoolTypeOK
<1>3. DOMAIN q = DOMAIN p \ {s} /\ q = [x \in DOMAIN p \ {s} |-> p[x]]
  BY <1>1 DEF Drop, Restrict
<1>4. q \in [DOMAIN q -> PoolRow] /\ DOMAIN q \subseteq Pools
  BY <1>2, <1>3
<1>5. f = [x \in DOMAIN p |-> p[x].unclaimed] /\ g = [x \in DOMAIN q |-> q[x].unclaimed]
  BY <1>1 DEF Unclaimed
<1>6. g = Drop(f, {s})
  BY <1>3, <1>5 DEF Drop, Restrict
<1>7. DOMAIN f = DOMAIN p /\ f[s] = 0 /\ \A x \in DOMAIN f : f[x] \in Int
  BY <1>1, <1>2, <1>5 DEF PoolRow
<1>8. /\ IsFiniteSet(DOMAIN g)
      /\ SumFunctionOnSet(g, DOMAIN g) = SumFunctionOnSet(f, DOMAIN f) - f[s]
  BY <1>2, <1>6, <1>7, SumDrop
<1>9. pool_xsat \in Int /\ pool_xsat = SumFunctionOnSet(f, DOMAIN f)
  BY <1>1 DEF PoolsInv, PoolTypeOK, PoolsKeepTheirs, Unclaimed, SumFunction
<1>10. DOMAIN g = DOMAIN q
  BY <1>5
<1>11. pool_xsat' \in Int /\ pool_xsat' = SumFunctionOnSet(g, DOMAIN g)
  BY <1>7, <1>8, <1>9
<1> QED
  BY <1>1, <1>3, <1>4, <1>8, <1>10, <1>11 DEF PoolRowsKept, SumFunction

\* Rows that keep theirs, and addresses of those who are left.
LEMMA PoolsKept ==
  ASSUME PoolRowsKept, miner' \in [DOMAIN miner' -> Pools], \A m \in DOMAIN miner' : miner'[m] \in DOMAIN pool'
  PROVE  PoolsInv'
<1>1. PoolTypeOK'
  BY DEF PoolRowsKept, PoolTypeOK
<1>2. PoolsKeepTheirs'
  BY DEF PoolRowsKept, PoolsKeepTheirs, Unclaimed
<1> QED
  BY <1>1, <1>2 DEF PoolsInv

\* The addresses after those of a synchronizer are saved, or some are dropped.
LEMMA MinersSaved ==
  ASSUME PoolsInv, NEW s \in Pools, NEW M, save_miners(s, M), DOMAIN pool \cup {s} \subseteq DOMAIN pool'
  PROVE  miner' \in [DOMAIN miner' -> Pools] /\ \A m \in DOMAIN miner' : miner'[m] \in DOMAIN pool'
<1>1. miner \in [DOMAIN miner -> Pools] /\ \A m \in DOMAIN miner : miner[m] \in DOMAIN pool
  BY DEF PoolsInv, PoolTypeOK, PoolsKeepTheirs
<1>2. miner' = [m \in DOMAIN miner \cup M |-> Row(miner, m, s)]
  BY DEF save_miners
<1>3. \A m \in DOMAIN miner \cup M : Row(miner, m, s) \in Pools /\ Row(miner, m, s) \in DOMAIN pool'
  BY <1>1 DEF Row
<1> QED
  BY <1>2, <1>3

\* What anybody does with poolreg.xsat keeps the rewards and the addresses.
LEMMA PoolStep ==
  ASSUME PoolsInv, NEW H \in SUBSET Nat, PoolNext(H)
  PROVE  PoolsInv'
<1>0. /\ pool \in [DOMAIN pool -> PoolRow] /\ DOMAIN pool \subseteq Pools /\ pool_xsat \in Int
      /\ miner \in [DOMAIN miner -> Pools] /\ \A m \in DOMAIN miner : miner[m] \in DOMAIN pool
  BY DEF PoolsInv, PoolTypeOK, PoolsKeepTheirs
<1>1. ASSUME NEW s \in Pools, NEW h \in H, NEW r \in Pools PROVE NewPool(h, r) \in PoolRow
  BY PoolAssumption DEF NewPool, PoolRow
<1>2. ASSUME NEW s \in Pools, NEW row \in PoolRow, NEW M, pool' = Put(pool, s, row), save_miners(s, M),
             pool_xsat' = pool_xsat, row.unclaimed = Row(Unclaimed, s, 0)
      PROVE  PoolsInv'
  <2>1. row.unclaimed \in Int
    BY DEF PoolRow
  <2>2. pool_xsat' = pool_xsat - Row(Unclaimed, s, 0) + row.unclaimed
    BY <1>0, <1>2, <2>1
  <2>3. PoolRowsKept /\ DOMAIN pool' = DOMAIN pool \cup {s}
    BY <1>2, <2>2, PoolPut
  <2>4. miner' \in [DOMAIN miner' -> Pools] /\ \A m \in DOMAIN miner' : miner'[m] \in DOMAIN pool'
    BY <1>2, <2>3, MinersSaved
  <2> QED
    BY <2>3, <2>4, PoolsKept
<1>3. ASSUME NEW s \in Pools, NEW h \in H, NEW M \in SUBSET Miners, updateheight(s, h, M) PROVE PoolsInv'
  <2>1. CASE s \notin DOMAIN pool
    <3>1. NewPool(h, s) \in PoolRow /\ NewPool(h, s).unclaimed = 0
      BY <1>1 DEF NewPool
    <3>2. Row(Unclaimed, s, 0) = 0
      BY <2>1 DEF Row, Unclaimed
    <3>3. pool' = Put(pool, s, NewPool(h, s)) /\ save_miners(s, M) /\ pool_xsat' = pool_xsat
      BY <1>3, <2>1 DEF updateheight
    <3> QED
      BY <1>2, <3>1, <3>2, <3>3
  <2>2. CASE s \in DOMAIN pool
    <3>1. PICK row : row = [pool[s] EXCEPT !.latest_produced_block_height = h]
      OBVIOUS
    <3>2. row \in PoolRow /\ row.unclaimed = pool[s].unclaimed
      BY <1>0, <2>2, <3>1 DEF PoolRow
    <3>3. Row(Unclaimed, s, 0) = pool[s].unclaimed
      BY <2>2 DEF Row, Unclaimed
    <3>4. pool' = [pool EXCEPT ![s] = row] /\ save_miners(s, M) /\ pool_xsat' = pool_xsat
      BY <1>3, <2>2, <3>1 DEF updateheight
    <3>5. pool' = Put(pool, s, row)
      <4>1. DOMAIN pool \cup {s} = DOMAIN pool
        BY <2>2
      <4> QED
        BY <1>0, <3>4, <4>1 DEF Put
    <3> QED
      BY <1>2, <3>2, <3>3, <3>4, <3>5
  <2> QED
    BY <2>1, <2>2
<1>4. ASSUME NEW s \in Pools, NEW h \in H, NEW M \in SUBSET Miners, NEW r \in Pools, initpool(s, h, r, M)
      PROVE  PoolsInv'
  <2>1. CASE s \notin DOMAIN pool
    <3>1. NewPool(h, r) \in PoolRow /\ NewPool(h, r).unclaimed = 0
      BY <1>1 DEF NewPool
    <3>2. Row(Unclaimed, s, 0) = 0
      BY <2>1 DEF Row, Unclaimed
    <3>3. pool' = Put(pool, s, NewPool(h, r)) /\ save_miners(s, M) /\ pool_xsat' = pool_xsat
      BY <1>4, <2>1 DEF initpool
    <3> QED
      BY <1>2, <3>1, <3>2, <3>3
  <2>2. CASE s \in DOMAIN pool
    <3>1. PICK row : row = IF pool[s].latest_produced_block_height < h
             THEN [pool[s] EXCEPT !.latest_produced_block_height = h, !.reward_recipient = r] ELSE pool[s]
      OBVIOUS
    <3>2. row \in PoolRow /\ row.unclaimed = pool[s].unclaimed
      BY <1>0, <2>2, <3>1 DEF PoolRow
    <3>3. Row(Unclaimed, s, 0) = pool[s].unclaimed
      BY <2>2 DEF Row, Unclaimed
    <3>4. pool' = [pool EXCEPT ![s] = row] /\ save_miners(s, M) /\ pool_xsat' = pool_xsat
      BY <1>4, <2>2, <3>1 DEF initpool
    <3>5. pool' = Put(pool, s, row)
      <4>1. DOMAIN pool \cup {s} = DOMAIN pool
        BY <2>2
      <4> QED
        BY <1>0, <3>4, <4>1 DEF Put
    <3> QED
      BY <1>2, <3>2, <3>3, <3>4, <3>5
  <2> QED
    BY <2>1, <2>2
<1>5. ASSUME NEW s \in Pools, NEW r \in Pools, setfinacct(s, r) PROVE PoolsInv'
  <2>1. PICK row : row = [pool[s] EXCEPT !.reward_recipient = r]
    OBVIOUS
  <2>2. s \in DOMAIN pool /\ pool' = [pool EXCEPT ![s] = row] /\ miner' = miner /\ pool_xsat' = pool_xsat
    BY <1>5, <2>1 DEF setfinacct
  <2>3. row \in PoolRow /\ row.unclaimed = pool[s].unclaimed /\ pool[s].unclaimed \in Int
    BY <1>0, <2>1, <2>2 DEF PoolRow
  <2>4. pool_xsat' = pool_xsat - pool[s].unclaimed + row.unclaimed
    BY <1>0, <2>2, <2>3
  <2>5. PoolRowsKept /\ DOMAIN pool' = DOMAIN pool
    BY <2>2, <2>3, <2>4, PoolUpdated
  <2> QED
    BY <1>0, <2>2, <2>5, PoolsKept
<1>6. ASSUME NEW s \in Pools, delpool(s) PROVE PoolsInv'
  <2>1. /\ s \in DOMAIN pool /\ pool[s].unclaimed = 0 /\ pool' = Drop(pool, {s}) /\ pool_xsat' = pool_xsat
        /\ miner' = Drop(miner, {m \in DOMAIN miner : miner[m] = s})
    BY <1>6 DEF delpool
  <2>2. PoolRowsKept /\ DOMAIN pool' = DOMAIN pool \ {s}
    BY <2>1, PoolDropped
  <2>3. miner' = [m \in {m \in DOMAIN miner : miner[m] # s} |-> miner[m]]
    BY <2>1 DEF Drop, Restrict
  <2>4. miner' \in [DOMAIN miner' -> Pools] /\ \A m \in DOMAIN miner' : miner'[m] \in DOMAIN pool'
    BY <1>0, <2>2, <2>3
  <2> QED
    BY <2>2, <2>4, PoolsKept
<1>7. ASSUME NEW s \in Pools, claim(s) PROVE PoolsInv'
  <2>1. PICK row : row = [pool[s] EXCEPT !.unclaimed = 0]
    OBVIOUS
  <2>2. s \in DOMAIN pool /\ pool' = [pool EXCEPT ![s] = row] /\ miner' = miner
        /\ pool_xsat' = pool_xsat - pool[s].unclaimed
    BY <1>7, <2>1 DEF claim
  <2>3. row \in PoolRow /\ row.unclaimed = 0 /\ pool[s].unclaimed \in Int
    BY <1>0, <2>1, <2>2 DEF PoolRow
  <2>4. pool_xsat' = pool_xsat - pool[s].unclaimed + row.unclaimed
    BY <1>0, <2>2, <2>3
  <2>5. PoolRowsKept /\ DOMAIN pool' = DOMAIN pool
    BY <2>2, <2>3, <2>4, PoolUpdated
  <2> QED
    BY <1>0, <2>2, <2>5, PoolsKept
<1>8. ASSUME NEW m \in Miners, unbundle(m) PROVE PoolsInv'
  <2>1. miner' = [x \in DOMAIN miner \ {m} |-> miner[x]] /\ pool' = pool /\ pool_xsat' = pool_xsat
    BY <1>8 DEF unbundle, Drop, Restrict
  <2>2. PoolRowsKept
    BY <2>1 DEF PoolRowsKept, PoolsInv, PoolTypeOK, PoolsKeepTheirs, Unclaimed
  <2>3. miner' \in [DOMAIN miner' -> Pools] /\ \A x \in DOMAIN miner' : miner'[x] \in DOMAIN pool'
    BY <1>0, <2>1
  <2> QED
    BY <2>2, <2>3, PoolsKept
<1> QED
  BY <1>3, <1>4, <1>5, <1>6, <1>7, <1>8 DEF PoolNext

\* So do the sale of slots and the transfer of a reward.
LEMMA PoolCalled ==
  ASSUME PoolsInv, NEW s, NEW n \in Nat,
         (\E t : buyslot(t, s, n)) \/ \E h \in Nat : RewardPool(s, h, n)
  PROVE  PoolsInv'
<1>0. /\ pool \in [DOMAIN pool -> PoolRow] /\ DOMAIN pool \subseteq Pools /\ pool_xsat \in Int
      /\ miner \in [DOMAIN miner -> Pools] /\ \A m \in DOMAIN miner : miner[m] \in DOMAIN pool
  BY DEF PoolsInv, PoolTypeOK, PoolsKeepTheirs
<1>1. ASSUME NEW t, buyslot(t, s, n) PROVE PoolsInv'
  <2>1. PICK row : row = [pool[s] EXCEPT !.num_slots = pool[s].num_slots + n]
    OBVIOUS
  <2>2. s \in DOMAIN pool /\ pool' = [pool EXCEPT ![s] = row] /\ miner' = miner /\ pool_xsat' = pool_xsat
    BY <1>1, <2>1 DEF buyslot
  <2>3. row \in PoolRow /\ row.unclaimed = pool[s].unclaimed /\ pool[s].unclaimed \in Int
    BY <1>0, <2>1, <2>2 DEF PoolRow
  <2>4. pool_xsat' = pool_xsat - pool[s].unclaimed + row.unclaimed
    BY <1>0, <2>2, <2>3
  <2>5. PoolRowsKept /\ DOMAIN pool' = DOMAIN pool
    BY <2>2, <2>3, <2>4, PoolUpdated
  <2> QED
    BY <1>0, <2>2, <2>5, PoolsKept
<1>2. ASSUME NEW h \in Nat, RewardPool(s, h, n) PROVE PoolsInv'
  <2>1. PICK row : row = [pool[s] EXCEPT !.latest_reward_block = h, !.unclaimed = pool[s].unclaimed + n]
    OBVIOUS
  <2>2. s \in DOMAIN pool /\ pool[s] \in PoolRow /\ miner' = miner /\ pool_xsat' = pool_xsat + n
        /\ pool' = [pool EXCEPT ![s].latest_reward_block = h, ![s].unclaimed = @ + n]
    BY <1>0, <1>2 DEF RewardPool
  <2>3. pool' = [pool EXCEPT ![s] = row]
    BY <1>0, <2>1, <2>2 DEF PoolRow
  <2>4. row \in PoolRow /\ row.unclaimed = pool[s].unclaimed + n /\ pool[s].unclaimed \in Int
    BY <2>1, <2>2 DEF PoolRow
  <2>5. pool_xsat' = pool_xsat - pool[s].unclaimed + row.unclaimed
    BY <1>0, <2>2, <2>4
  <2>6. PoolRowsKept /\ DOMAIN pool' = DOMAIN pool
    BY <2>2, <2>3, <2>4, <2>5, PoolUpdated
  <2> QED
    BY <1>0, <2>2, <2>6, PoolsKept
<1> QED
  BY <1>1, <1>2

\* The invariant in the composition.
PoolsHeld == PoolsInv /\ irreversible_height \in Nat

\* Rewards are transferred to registered synchronizers only, and stay theirs.
LEMMA FeesStepKeepsPools ==
  ASSUME RewardInv, PoolsHeld, [FeesStep(ProviderLists, 1..MaxHeight, Deposits)]_feesVars
  PROVE  PoolsHeld'
<1>0. MaxHeight \in Nat /\ 1..MaxHeight \subseteq Nat /\ irreversible_height \in Nat
  BY FeesAssumption DEF PoolsHeld
<1>1. ASSUME UNCHANGED poolVars PROVE PoolsInv'
  BY <1>1 DEF PoolsHeld, PoolsInv, PoolTypeOK, PoolsKeepTheirs, poolVars
<1>2. CASE StartBlock(ProviderLists)
  BY <1>0, <1>1, <1>2 DEF StartBlock, fundVars, PoolsHeld
<1>3. CASE RewardBatch
  <2>1. PoolsInv'
    <3>1. CASE synchronizer_paid' > synchronizer_paid
      <4>1. RewardPool(migrating.parser, NextHeight, reward_log["btc"].synchronizer)
        BY <1>3, <3>1 DEF RewardBatch
      <4>2. reward_log["btc"].synchronizer \in Nat /\ NextHeight \in Nat
        BY <1>0, RewardAssumption DEF RewardInv, RewardTypeOK, LogType, NextHeight
      <4> QED
        BY <4>1, <4>2, PoolCalled DEF PoolsHeld
    <3>2. CASE ~(synchronizer_paid' > synchronizer_paid)
      BY <1>1, <1>3, <3>2 DEF RewardBatch
    <3> QED
      BY <3>1, <3>2
  <2>2. irreversible_height' \in Nat
    BY <1>0, <1>3 DEF RewardBatch, NextHeight
  <2> QED
    BY <2>1, <2>2 DEF PoolsHeld
<1>4. CASE ResourceNext(1..MaxHeight) /\ UNCHANGED <<poolVars, gasVars, reward_logs>> /\ UNCHANGED irreversible_height
  BY <1>0, <1>1, <1>4 DEF PoolsHeld
<1>5. CASE PoolNext(1..MaxHeight) /\ UNCHANGED irreversible_height
  BY <1>0, <1>5, PoolStep DEF PoolsHeld
<1>6. CASE (\E s, t \in Pools : buyslot(s, t, 1)) /\ UNCHANGED irreversible_height
  <2>1. PICK t \in Pools : \E s : buyslot(s, t, 1)
    BY <1>6
  <2>2. PoolsInv'
    BY <2>1, PoolCalled DEF PoolsHeld
  <2> QED
    BY <1>0, <1>6, <2>2 DEF PoolsHeld
<1>7. CASE GasNext(Deposits) /\ UNCHANGED irreversible_height
  <2>1. UNCHANGED poolVars
    BY <1>7 DEF GasNext, distribute, enfclaim, ramsclaim, handle_evm_fees_transfer, receiver_claim, SaveConfig,
         deldistribut, delrewardlog, fundVars
  <2> QED
    BY <1>0, <1>1, <1>7, <2>1 DEF PoolsHeld
<1>8. CASE UNCHANGED feesVars
  BY <1>0, <1>1, <1>8 DEF feesVars, fundVars, PoolsHeld
<1> QED
  BY <1>2, <1>3, <1>4, <1>5, <1>6, <1>7, <1>8 DEF FeesStep

\* Nothing transferred to a synchronizer is lost to another or to nobody, and no
\* address belongs to one that is gone.
THEOREM PoolsKeepTheirsHolds == FeesSpec => []PoolsKeepTheirs
<1>1. FeesInit => PoolsHeld
  <2> SUFFICES ASSUME FeesInit PROVE PoolsHeld
    OBVIOUS
  <2>1. pool = << >> /\ miner = << >> /\ pool_xsat = 0 /\ irreversible_height \in Nat
    BY FeesAssumption DEF FeesInit, PoolInit
  <2>2. DOMAIN pool = {} /\ DOMAIN miner = {} /\ IsFiniteSet(DOMAIN pool)
    BY <2>1, FS_EmptySet
  <2>3. pool \in [DOMAIN pool -> PoolRow] /\ miner \in [DOMAIN miner -> Pools]
    BY <2>1, <2>2
  <2>4. SumFunction(Unclaimed) = 0
    BY <2>2, SumEmpty DEF Unclaimed, SumFunction
  <2> QED
    BY <2>1, <2>2, <2>3, <2>4 DEF PoolsHeld, PoolsInv, PoolTypeOK, PoolsKeepTheirs, Unclaimed
<1>2. RewardInv /\ PoolsHeld /\ [FeesStep(ProviderLists, 1..MaxHeight, Deposits)]_feesVars => PoolsHeld'
  BY FeesStepKeepsPools
<1>3. PoolsHeld => PoolsKeepTheirs
  BY DEF PoolsHeld, PoolsInv
<1>4. FeesSpec => []RewardInv
  BY FeesImplementRewards, RewardInvHolds, PTL
<1> QED
  BY <1>1, <1>2, <1>3, <1>4, PTL DEF FeesSpec

-----------------------------------------------------------------------------
(* More of sums. *)

\* Elements that count nothing.
LEMMA SumZeros ==
  ASSUME NEW S, IsFiniteSet(S), NEW T \in SUBSET S, NEW f, \A x \in S : f[x] \in Int,
         \A x \in S \ T : f[x] = 0
  PROVE  SumFunctionOnSet(f, S) = SumFunctionOnSet(f, T)
<1>1. PICK R : R = S \ T
  OBVIOUS
<1>2. /\ IsFiniteSet(R) /\ IsFiniteSet(T) /\ R \cap T = {} /\ R \cup T = S
      /\ (\A x \in R \cup T : f[x] \in Int) /\ \A x \in R : f[x] = 0
  BY <1>1, FS_Subset
<1>3. SumFunctionOnSet(f, R \cup T) = SumFunctionOnSet(f, R) + SumFunctionOnSet(f, T)
  BY <1>2, SumUnion
<1>4. SumFunctionOnSet(f, R) = 0 * Cardinality(R)
  BY <1>2, SumConstant
<1>5. Cardinality(R) \in Nat /\ SumFunctionOnSet(f, T) \in Int
  <2>1. \A x \in T : f[x] \in Int
    BY <1>2
  <2> QED
    BY <1>2, <2>1, SumType, FS_CardinalityType
<1>6. SumFunctionOnSet(f, R) = 0
  BY <1>4, <1>5
<1>7. SumFunctionOnSet(f, S) = SumFunctionOnSet(f, R) + SumFunctionOnSet(f, T)
  BY <1>2, <1>3
<1> QED
  BY <1>5, <1>6, <1>7

\* A table of numbers is added up by its rows or by its columns.
LEMMA SumExchange ==
  ASSUME NEW R, IsFiniteSet(R), NEW S, IsFiniteSet(S),
         NEW f, \A r \in R : \A s \in S : f[r][s] \in Int,
         NEW a, \A r \in R : a[r] = SumFunctionOnSet(f[r], S),
         NEW g, \A s \in S : \A r \in R : g[s][r] = f[r][s],
         NEW b, \A s \in S : b[s] = SumFunctionOnSet(g[s], R)
  PROVE  SumFunctionOnSet(a, R) = SumFunctionOnSet(b, S)
<1>2. \A s \in S : \A r \in R : g[s][r] = f[r][s] /\ g[s][r] \in Int
  OBVIOUS
<1> DEFINE B(T) == [s \in S |-> SumFunctionOnSet(g[s], T)]
           P == {T \in SUBSET R : SumFunctionOnSet(a, T) = SumFunctionOnSet(B(T), S)}
<1>3. {} \in P
  <2>1. PICK z : z = B({})
    OBVIOUS
  <2>2. \A s \in S : z[s] = 0
    BY <2>1, SumEmpty
  <2>3. SumFunctionOnSet(z, S) = 0 * Cardinality(S)
    BY <2>2, SumConstant
  <2>4. Cardinality(S) \in Nat
    BY FS_CardinalityType
  <2>5. SumFunctionOnSet(a, {}) = 0
    BY SumEmpty
  <2>6. SumFunctionOnSet(z, S) = 0
    BY <2>3, <2>4
  <2> QED
    BY <2>1, <2>5, <2>6
<1>4. ASSUME NEW T \in SUBSET R, NEW r \in R, T \in P, r \notin T PROVE T \cup {r} \in P
  <2>1. IsFiniteSet(T)
    BY FS_Subset
  <2>2. \A t \in R : a[t] \in Int
    <3> SUFFICES ASSUME NEW t \in R PROVE a[t] \in Int
      OBVIOUS
    <3>1. PICK row : row = f[t]
      OBVIOUS
    <3>2. \A s \in S : row[s] \in Int
      BY <3>1
    <3>3. SumFunctionOnSet(row, S) \in Int
      BY <3>2, SumType
    <3> QED
      BY <3>1, <3>3
  <2>3. SumFunctionOnSet(a, T \cup {r}) = SumFunctionOnSet(a, T) + a[r]
    <3>1. \A y \in T \cup {r} : a[y] \in Int
      BY <2>2
    <3>2. r \notin T
      BY <1>4
    <3> QED
      BY ONLY <2>1, <3>1, <3>2, SumInsert
  <2>4. PICK x, y, row : x = B(T) /\ y = B(T \cup {r}) /\ row = f[r]
    OBVIOUS
  <2>5. \A s \in S : x[s] \in Int /\ row[s] \in Int /\ y[s] = x[s] + row[s]
    <3> SUFFICES ASSUME NEW s \in S PROVE x[s] \in Int /\ row[s] \in Int /\ y[s] = x[s] + row[s]
      OBVIOUS
    <3>1. PICK c : c = g[s]
      OBVIOUS
    <3>2. (\A t \in T \cup {r} : c[t] \in Int) /\ c[r] = row[s]
      BY <1>2, <2>4, <3>1
    <3>3. SumFunctionOnSet(c, T \cup {r}) = SumFunctionOnSet(c, T) + c[r] /\ SumFunctionOnSet(c, T) \in Int
      <4>1. r \notin T
        BY <1>4
      <4> QED
        BY ONLY <2>1, <3>2, <4>1, SumInsert
    <3>4. x[s] = SumFunctionOnSet(c, T) /\ y[s] = SumFunctionOnSet(c, T \cup {r})
      BY <2>4, <3>1
    <3> QED
      BY <3>2, <3>3, <3>4
  <2>6. SumFunctionOnSet(y, S) = SumFunctionOnSet(x, S) + SumFunctionOnSet(row, S)
    BY <2>5, SumAdd
  <2>7. a[r] = SumFunctionOnSet(row, S) /\ SumFunctionOnSet(a, T) = SumFunctionOnSet(x, S)
    BY <1>4, <2>4
  <2>8. SumFunctionOnSet(a, T \cup {r}) = SumFunctionOnSet(y, S)
    BY <2>3, <2>6, <2>7
  <2> QED
    BY <2>4, <2>8
<1>5. R \in P
  <2> HIDE DEF P
  <2> QED
    BY <1>3, <1>4, SetOfFiniteSets
<1>6. \A s \in S : b[s] = B(R)[s]
  OBVIOUS
<1>7. SumFunctionOnSet(b, S) = SumFunctionOnSet(B(R), S)
  <2>1. PICK x : x = B(R)
    OBVIOUS
  <2>2. \A s \in S : x[s] \in Int /\ b[s] = x[s]
    <3> SUFFICES ASSUME NEW s \in S PROVE x[s] \in Int /\ b[s] = x[s]
      OBVIOUS
    <3>1. PICK c : c = g[s]
      OBVIOUS
    <3>2. \A t \in R : c[t] \in Int
      BY <1>2, <3>1
    <3>3. SumFunctionOnSet(c, R) \in Int
      BY <3>2, SumType
    <3> QED
      BY <1>6, <2>1, <3>1, <3>3
  <2>3. SumFunctionOnSet(b, S) = SumFunctionOnSet(x, S)
    BY <2>2, SumEqual
  <2> QED
    BY <2>1, <2>3
<1> QED
  BY <1>5, <1>7

-----------------------------------------------------------------------------
(* The rewards of a height by receiver. *)

ValidatorReceivers == {Validator(v) : v \in Validators}
SynchronizerReceivers == {Synchronizer(s) : s \in Pools}

\* There are finitely many receivers, of two kinds.
LEMMA ReceiverKinds ==
  /\ IsFiniteSet(Receivers) /\ IsFiniteSet(ValidatorReceivers) /\ IsFiniteSet(SynchronizerReceivers)
  /\ Receivers = ValidatorReceivers \cup SynchronizerReceivers
  /\ ValidatorReceivers \cap SynchronizerReceivers = {}
  /\ ValidatorReceivers = {r \in Receivers : r[1] = "validator"}
  /\ SynchronizerReceivers = {r \in Receivers : r[1] = "synchronizer"}
  /\ \A r \in ValidatorReceivers : r[1] = "validator" /\ r[2] \in Validators /\ r = Validator(r[2])
  /\ \A r \in SynchronizerReceivers : r[1] = "synchronizer" /\ r[2] \in Pools /\ r = Synchronizer(r[2])
<1>1. PICK n : n = Len(ReceiverOrder)
  OBVIOUS
<1>2. ReceiverOrder \in [1..n -> Receivers] /\ n \in Nat
  BY <1>1, GasFundAssumption
<1>3. \A r \in Receivers : \E i \in 1..n : ReceiverOrder[i] = r
  BY <1>2, GasFundAssumption DEF Range
<1>4. ReceiverOrder \in Surjection(1..n, Receivers)
  BY <1>2, <1>3 DEF Surjection
<1>5. IsFiniteSet(1..n)
  BY <1>2, FS_Interval
<1>6. IsFiniteSet(Receivers)
  BY <1>4, <1>5, FS_Surjection
<1>7. Receivers = ValidatorReceivers \cup SynchronizerReceivers
  BY DEF Receivers, ValidatorReceivers, SynchronizerReceivers
<1>8. \A r \in ValidatorReceivers : r[1] = "validator" /\ r[2] \in Validators /\ r = Validator(r[2])
  BY DEF ValidatorReceivers, Validator
<1>9. \A r \in SynchronizerReceivers : r[1] = "synchronizer" /\ r[2] \in Pools /\ r = Synchronizer(r[2])
  BY DEF SynchronizerReceivers, Synchronizer
<1>10. "validator" # "synchronizer"
  OBVIOUS
<1>11. ValidatorReceivers \cap SynchronizerReceivers = {}
  BY <1>8, <1>9, <1>10
<1>12. ValidatorReceivers = {r \in Receivers : r[1] = "validator"}
       /\ SynchronizerReceivers = {r \in Receivers : r[1] = "synchronizer"}
  BY <1>7, <1>8, <1>9, <1>10
<1>13. IsFiniteSet(ValidatorReceivers) /\ IsFiniteSet(SynchronizerReceivers)
  BY <1>6, <1>7, FS_Subset
<1> QED
  BY <1>6, <1>7, <1>8, <1>9, <1>11, <1>12, <1>13

\* What is divided goes to the parts, rounding included.
LEMMA DividedParts ==
  ASSUME NEW n \in Nat, NEW parts \in [1..n -> Nat], NEW total \in Nat,
         SumFunctionOnSet(parts, 1..(n - 1)) <= total
  PROVE  LET d == Divided(parts, total) IN
         /\ d \in [1..n -> Nat]
         /\ \A i \in 1..n : i < n => d[i] = parts[i]
         /\ n > 0 => d[n] = total - SumFunctionOnSet(parts, 1..(n - 1))
         /\ n > 0 => SumFunctionOnSet(d, 1..n) = total
<1>1. PICK d : d = Divided(parts, total)
  OBVIOUS
<1>2. parts \in Seq(Nat) /\ Len(parts) = n
  OBVIOUS
<1>3. PICK q : q = [j \in 1..(n - 1) |-> parts[j]]
  OBVIOUS
<1>4. d = [i \in 1..n |-> IF i < n THEN parts[i] ELSE total - Sum(q)]
  BY <1>1, <1>2, <1>3 DEF Divided
<1>5. IsFiniteSet(1..(n - 1))
  BY FS_Interval
<1>6. \A j \in 1..(n - 1) : parts[j] \in Nat /\ q[j] = parts[j] /\ parts[j] \in Int
  BY <1>3
<1>7. SumFunctionOnSet(q, 1..(n - 1)) = SumFunctionOnSet(parts, 1..(n - 1))
  BY <1>5, <1>6, SumEqual
<1>8. Sum(q) = SumFunctionOnSet(parts, 1..(n - 1))
  BY <1>3, <1>7 DEF Sum, SumFunction
<1>9. SumFunctionOnSet(parts, 1..(n - 1)) \in Nat
  BY <1>5, <1>6, SumBound
<1>10. d \in [1..n -> Nat] /\ \A i \in 1..n : i < n => d[i] = parts[i]
  <2>1. total - Sum(q) \in Nat
    BY <1>8, <1>9
  <2> QED
    BY <1>4, <2>1
<1>11. n > 0 => d[n] = total - SumFunctionOnSet(parts, 1..(n - 1))
  BY <1>4, <1>8
<1>12. ASSUME n > 0 PROVE SumFunctionOnSet(d, 1..n) = total
  <2>1. PICK S : S = 1..(n - 1)
    OBVIOUS
  <2>2. 1..n = S \cup {n} /\ n \notin S /\ IsFiniteSet(S)
    BY <1>5, <1>12, <2>1
  <2>3. \A i \in S \cup {n} : d[i] \in Int
    BY <1>10, <2>2
  <2>4. SumFunctionOnSet(d, S \cup {n}) = SumFunctionOnSet(d, S) + d[n]
    BY <2>2, <2>3, SumInsert
  <2>5. \A i \in S : parts[i] \in Int /\ d[i] = parts[i]
    BY <1>10, <2>1
  <2>6. SumFunctionOnSet(d, S) = SumFunctionOnSet(parts, S)
    BY <2>2, <2>5, SumEqual
  <2>7. PICK x : x = SumFunctionOnSet(parts, S)
    OBVIOUS
  <2>8. x \in Nat /\ d[n] = total - x
    BY <1>9, <1>11, <1>12, <2>1, <2>7
  <2>9. SumFunctionOnSet(d, 1..n) = x + (total - x)
    BY <2>2, <2>4, <2>6, <2>7, <2>8
  <2> QED
    BY <2>8, <2>9
<1> QED
  BY <1>1, <1>10, <1>11, <1>12

\* The BTC validators share both parts of the BTC log, if there is a staking part.
LEMMA BtcDivided ==
  ASSUME NEW log \in LogType, log.providers # << >>
  PROVE  LET d == BtcRewards(log)
             n == Len(log.providers) IN
         /\ DOMAIN d \in SUBSET (1..n) /\ \A i \in DOMAIN d : d[i] \in Nat
         /\ SumFunctionOnSet(d, DOMAIN d) = IF log.staking = 0 THEN 0 ELSE BtcReward(log)
         /\ log.staking # 0 => /\ DOMAIN d = 1..n
                               /\ \A i \in 1..(n - 1) : d[i] = BtcPart(log, i)
<1>1. PICK d, n : d = BtcRewards(log) /\ n = Len(log.providers)
  OBVIOUS
<1>2. n \in Nat \ {0} /\ DOMAIN log.providers = 1..n /\ log.staking \in Nat /\ log.consensus \in Nat
      /\ log.providers \in Seq(Validators)
  BY <1>1, EndorsedPositive DEF LogType
<1>3. CASE log.staking = 0
  <2>1. d = << >>
    BY <1>1, <1>3 DEF BtcRewards
  <2>2. DOMAIN d = {}
    BY <2>1
  <2> QED
    BY <1>1, <1>3, <2>2, SumEmpty
<1>4. CASE log.staking # 0
  <2>1. PICK both : both = [providers |-> log.providers, consensus |-> 0, staking |-> BtcReward(log),
                            synchronizer |-> 0, assigned |-> 0]
    OBVIOUS
  <2>2. BtcReward(log) \in Nat
    BY <1>2 DEF BtcReward
  <2>3. both \in LogType /\ both.providers = log.providers /\ both.staking = BtcReward(log)
    BY <1>2, <2>1, <2>2 DEF LogType
  <2>4. PICK q : q = [i \in DOMAIN both.providers |-> StakingShare(both, i)]
    OBVIOUS
  <2>5. EndorsedStaking(both) = EndorsedStaking(log)
    BY <2>3 DEF EndorsedStaking
  <2>6. \A i \in 1..n : BtcPart(log, i) = StakingShare(both, i)
    BY <2>3, <2>5 DEF BtcPart, StakingShare
  <2>7. q = [i \in 1..n |-> BtcPart(log, i)]
    BY <1>2, <2>3, <2>4, <2>6
  <2>8. (\A i \in DOMAIN both.providers : q[i] \in Nat) /\ 1..(n - 1) \in SUBSET DOMAIN both.providers
    BY <1>2, <2>3, <2>4, StakingSums
  <2>9. SumFunctionOnSet(q, 1..(n - 1)) <= both.staking
    BY <2>3, <2>4, <2>8, StakingSums
  <2>10. q \in [1..n -> Nat]
    BY <1>2, <2>3, <2>7, <2>8
  <2>11. d = Divided(q, BtcReward(log))
    BY <1>1, <1>4, <2>7 DEF BtcRewards
  <2>12. /\ d \in [1..n -> Nat] /\ SumFunctionOnSet(d, 1..n) = BtcReward(log)
         /\ \A i \in 1..n : i < n => d[i] = q[i]
    BY <1>2, <2>2, <2>3, <2>9, <2>10, <2>11, DividedParts
  <2>13. DOMAIN d = 1..n /\ \A i \in DOMAIN d : d[i] \in Nat
    BY <2>12
  <2>14. \A i \in 1..(n - 1) : d[i] = BtcPart(log, i)
    BY <1>2, <2>7, <2>12
  <2>15. SumFunctionOnSet(d, DOMAIN d) = BtcReward(log)
    BY <2>12, <2>13
  <2> QED
    BY <1>1, <1>4, <2>13, <2>14, <2>15
<1> QED
  BY <1>3, <1>4

\* The XSAT validators share the consensus part of the XSAT log.
LEMMA XsatDivided ==
  ASSUME NEW log \in LogType, log.providers = << >> => log.consensus = 0
  PROVE  LET d == XsatRewards(log)
             n == Len(log.providers) IN
         /\ n \in Nat /\ DOMAIN d = 1..n /\ \A i \in DOMAIN d : d[i] \in Nat
         /\ SumFunctionOnSet(d, DOMAIN d) = log.consensus
         /\ \A i \in 1..(n - 1) : d[i] = ConsensusShare(log)
<1>1. PICK d, n, c, q : /\ d = XsatRewards(log) /\ n = Len(log.providers) /\ c = ConsensusShare(log)
                        /\ q = [i \in 1..n |-> c]
  OBVIOUS
<1>2. n \in Nat /\ log.consensus \in Nat /\ log.providers \in Seq(Validators)
  BY <1>1 DEF LogType
<1>3. d = Divided(q, log.consensus)
  BY <1>1 DEF XsatRewards, ConsensusShare
<1>4. CASE log.providers = << >>
  <2>1. n = 0 /\ log.consensus = 0
    BY <1>1, <1>4
  <2>2. q = << >> /\ Len(q) = 0
    BY <1>1, <2>1
  <2>3. DOMAIN d = 1..0
    BY <1>3, <2>2 DEF Divided
  <2>4. DOMAIN d = {}
    BY <2>3
  <2> QED
    BY <1>1, <2>1, <2>4, SumEmpty
<1>5. CASE log.providers # << >>
  <2>1. n \in Nat \ {0} /\ c \in Nat /\ c * (n - 1) \in Nat /\ c * (n - 1) <= log.consensus
    <3>1. n \in Nat \ {0}
      BY <1>1, <1>5, EndorsedPositive
    <3>2. n - 1 \in 0..n
      BY <3>1
    <3> QED
      BY <1>1, <1>5, <3>1, <3>2, ConsensusSums
  <2>2. q \in [1..n -> Nat]
    BY <1>1, <2>1
  <2>3. PICK S : S = 1..(n - 1)
    OBVIOUS
  <2>4. IsFiniteSet(S) /\ Cardinality(S) = n - 1
    <3>1. IsFiniteSet(1..(n - 1)) /\ Cardinality(1..(n - 1)) = IF 1 > n - 1 THEN 0 ELSE (n - 1) - 1 + 1
      BY <2>1, FS_Interval
    <3>2. (IF 1 > n - 1 THEN 0 ELSE (n - 1) - 1 + 1) = n - 1
      BY <2>1
    <3> QED
      BY <2>3, <3>1, <3>2
  <2>5. \A i \in S : q[i] = c
    BY <1>1, <2>3
  <2>6. SumFunctionOnSet(q, S) = c * Cardinality(S)
    BY <2>1, <2>4, <2>5, SumConstant
  <2>7. SumFunctionOnSet(q, 1..(n - 1)) <= log.consensus
    BY <2>1, <2>3, <2>4, <2>6
  <2>8. /\ d \in [1..n -> Nat] /\ SumFunctionOnSet(d, 1..n) = log.consensus
        /\ \A i \in 1..n : i < n => d[i] = q[i]
    <3>1. n \in Nat /\ n > 0
      BY <2>1
    <3> QED
      BY <1>2, <1>3, <2>2, <2>7, <3>1, DividedParts
  <2>9. DOMAIN d = 1..n /\ \A i \in DOMAIN d : d[i] \in Nat
    BY <2>8
  <2>10. SumFunctionOnSet(d, DOMAIN d) = log.consensus
    BY <2>8, <2>9
  <2>11. \A i \in 1..(n - 1) : d[i] = c
    BY <2>1, <2>3, <2>5, <2>8
  <2> QED
    BY <1>1, <1>2, <2>9, <2>10, <2>11
<1> QED
  BY <1>4, <1>5

\* The parts of a list, added up by validator.
LEMMA PartsByValidator ==
  ASSUME NEW log \in LogType, NEW d, DOMAIN d \in SUBSET (1..Len(log.providers)), \A i \in DOMAIN d : d[i] \in Nat,
         NEW g, \A r \in ValidatorReceivers : g[r] = OfValidator(log, d, r[2])
  PROVE  /\ \A r \in ValidatorReceivers : g[r] \in Nat
         /\ SumFunctionOnSet(g, ValidatorReceivers) = SumFunctionOnSet(d, DOMAIN d)
<1>1. PICK D, p, V : /\ D = DOMAIN d /\ V = ValidatorReceivers
                     /\ p = [i \in 1..Len(log.providers) |-> Validator(log.providers[i])]
  OBVIOUS
<1>2. Len(log.providers) \in Nat /\ log.providers \in Seq(Validators)
  BY DEF LogType
<1>3. IsFiniteSet(D) /\ D \in SUBSET (1..Len(log.providers))
  <2>1. IsFiniteSet(1..Len(log.providers))
    BY <1>2, FS_Interval
  <2>2. D \in SUBSET (1..Len(log.providers))
    BY <1>1
  <2> QED
    BY <2>1, <2>2, FS_Subset
<1>4. \A i \in D : p[i] \in V
  BY <1>1, <1>2, <1>3 DEF ValidatorReceivers
<1>5. \A i \in D : d[i] \in Nat /\ d[i] \in Int
  BY <1>1
<1>6. \A r \in V : Fiber(D, p, r) = {i \in D : log.providers[i] = r[2]}
  <2> SUFFICES ASSUME NEW r \in V PROVE Fiber(D, p, r) = {i \in D : log.providers[i] = r[2]}
    OBVIOUS
  <2>1. r = Validator(r[2])
    BY <1>1, ReceiverKinds
  <2>2. \A i \in D : p[i] = r <=> log.providers[i] = r[2]
    BY <1>1, <1>3, <2>1 DEF Validator
  <2> QED
    BY <2>2 DEF Fiber
<1>7. \A r \in V : g[r] = SumFunctionOnSet(d, Fiber(D, p, r)) /\ g[r] \in Nat
  <2> SUFFICES ASSUME NEW r \in V PROVE g[r] = SumFunctionOnSet(d, Fiber(D, p, r)) /\ g[r] \in Nat
    OBVIOUS
  <2>1. PICK F, q : F = Fiber(D, p, r) /\ q = Restrict(d, F)
    OBVIOUS
  <2>2. IsFiniteSet(F) /\ F \in SUBSET D
    BY <1>3, <2>1, FS_Subset DEF Fiber
  <2>3. DOMAIN q = F /\ \A i \in F : q[i] = d[i] /\ d[i] \in Int /\ d[i] \in Nat
    BY <1>5, <2>1, <2>2 DEF Restrict
  <2>4. SumFunctionOnSet(q, F) = SumFunctionOnSet(d, F)
    BY <2>2, <2>3, SumEqual
  <2>5. g[r] = SumFunctionOnSet(q, F)
    BY <1>1, <1>6, <2>1, <2>3 DEF OfValidator, Sum, SumFunction
  <2>6. SumFunctionOnSet(d, F) \in Nat
    BY <2>2, <2>3, SumBound
  <2> QED
    BY <2>1, <2>4, <2>5, <2>6
<1>8. IsFiniteSet(V)
  BY <1>1, ReceiverKinds
<1>9. SumFunctionOnSet(g, V) = SumFunctionOnSet(d, D)
  <2>1. \A x \in D : d[x] \in Int
    BY <1>5
  <2>2. \A r \in V : g[r] = SumFunctionOnSet(d, Fiber(D, p, r))
    BY <1>7
  <2>3. IsFiniteSet(D)
    BY <1>3
  <2> QED
    BY ONLY <1>4, <1>8, <2>1, <2>2, <2>3, SumFibers
<1> QED
  BY <1>1, <1>7, <1>9

\* Logs a migrated height leaves: somebody endorsed its block, and an XSAT part
\* was logged for those who did.
LogsOK(logs) ==
  /\ logs \in RewardLogs /\ logs.btc.providers # << >>
  /\ logs.xsat.providers = << >> => logs.xsat.consensus = 0

\* What the validators are rewarded with, and the synchronizer.
ValidatorsPart(h) ==
  (IF reward_logs[h].btc.staking = 0 THEN 0 ELSE BtcReward(reward_logs[h].btc)) + reward_logs[h].xsat.consensus
SynchronizerPart(h) == reward_logs[h].btc.synchronizer

\* calculate_reward gives the receivers of either kind their part in full.
LEMMA RewardsOfHeight ==
  ASSUME NEW h, LogsOK(reward_logs[h]), NEW f, f = [r \in Receivers |-> RewardOf(h, r)]
  PROVE  /\ \A r \in Receivers : f[r] \in Nat
         /\ SumFunctionOnSet(f, ValidatorReceivers) = ValidatorsPart(h)
         /\ SumFunctionOnSet(f, SynchronizerReceivers) = SynchronizerPart(h)
<1>1. PICK b, x, db, dx, logs :
        /\ logs = reward_logs[h] /\ b = logs.btc /\ x = logs.xsat /\ db = BtcRewards(b) /\ dx = XsatRewards(x)
  OBVIOUS
<1>2. /\ b \in LogType /\ x \in LogType /\ b.providers # << >> /\ (x.providers = << >> => x.consensus = 0)
      /\ logs.synchronizer \in Pools
  BY <1>1 DEF LogsOK, RewardLogs
<1>3. PICK V, S : V = ValidatorReceivers /\ S = SynchronizerReceivers
  OBVIOUS
<1>4. PICK fb, fx : /\ fb = [r \in V |-> OfValidator(b, db, r[2])]
                    /\ fx = [r \in V |-> OfValidator(x, dx, r[2])]
  OBVIOUS
<1>5. /\ DOMAIN db \in SUBSET (1..Len(b.providers)) /\ \A i \in DOMAIN db : db[i] \in Nat
      /\ SumFunctionOnSet(db, DOMAIN db) = IF b.staking = 0 THEN 0 ELSE BtcReward(b)
  BY <1>1, <1>2, BtcDivided
<1>6. /\ DOMAIN dx \in SUBSET (1..Len(x.providers)) /\ \A i \in DOMAIN dx : dx[i] \in Nat
      /\ SumFunctionOnSet(dx, DOMAIN dx) = x.consensus
  BY <1>1, <1>2, XsatDivided
<1>7. /\ \A r \in V : fb[r] \in Nat
      /\ SumFunctionOnSet(fb, V) = IF b.staking = 0 THEN 0 ELSE BtcReward(b)
  <2>1. \A r \in ValidatorReceivers : fb[r] = OfValidator(b, db, r[2])
    BY <1>3, <1>4
  <2> QED
    BY <1>2, <1>3, <1>5, <2>1, PartsByValidator
<1>8. (\A r \in V : fx[r] \in Nat) /\ SumFunctionOnSet(fx, V) = x.consensus
  <2>1. \A r \in ValidatorReceivers : fx[r] = OfValidator(x, dx, r[2])
    BY <1>3, <1>4
  <2> QED
    BY <1>2, <1>3, <1>6, <2>1, PartsByValidator
<1>9. \A r \in V : f[r] = fb[r] + fx[r]
  <2> SUFFICES ASSUME NEW r \in V PROVE f[r] = fb[r] + fx[r]
    OBVIOUS
  <2>1. r \in Receivers /\ r[1] = "validator"
    BY <1>3, ReceiverKinds
  <2>2. RewardOf(h, r) = OfValidator(b, db, r[2]) + OfValidator(x, dx, r[2])
    BY <1>1, <2>1 DEF RewardOf
  <2> QED
    BY <1>4, <2>1, <2>2
<1>10. \A r \in S : f[r] = IF r = Synchronizer(logs.synchronizer) THEN b.synchronizer ELSE 0
  <2> SUFFICES ASSUME NEW r \in S
               PROVE  f[r] = IF r = Synchronizer(logs.synchronizer) THEN b.synchronizer ELSE 0
    OBVIOUS
  <2>1. r \in Receivers /\ r[1] = "synchronizer" /\ r = Synchronizer(r[2])
    BY <1>3, ReceiverKinds
  <2>2. RewardOf(h, r) = IF r[2] = logs.synchronizer THEN b.synchronizer ELSE 0
    BY <1>1, <2>1 DEF RewardOf
  <2>3. r[2] = logs.synchronizer <=> r = Synchronizer(logs.synchronizer)
    BY <2>1 DEF Synchronizer
  <2> QED
    BY <2>1, <2>2, <2>3
<1>11. b.synchronizer \in Nat /\ b.staking \in Nat /\ b.consensus \in Nat /\ x.consensus \in Nat
  BY <1>2 DEF LogType
<1>12. IsFiniteSet(V) /\ IsFiniteSet(S) /\ Receivers = V \cup S
  BY <1>3, ReceiverKinds
<1>13. SumFunctionOnSet(f, V) = SumFunctionOnSet(fb, V) + SumFunctionOnSet(fx, V)
  <2>1. \A r \in V : fb[r] \in Int /\ fx[r] \in Int /\ f[r] = fb[r] + fx[r]
    BY <1>7, <1>8, <1>9
  <2> QED
    BY <1>12, <2>1, SumAdd
<1>14. SumFunctionOnSet(f, S) = b.synchronizer
  <2>1. PICK s : s = Synchronizer(logs.synchronizer)
    OBVIOUS
  <2>2. s \in S /\ f[s] = b.synchronizer /\ \A r \in S \ {s} : f[r] = 0
    BY <1>2, <1>3, <1>10, <2>1 DEF SynchronizerReceivers
  <2>3. \A r \in S : f[r] \in Int
    BY <1>11, <2>2
  <2>4. SumFunctionOnSet(f, S) = f[s] + SumFunctionOnSet(f, S \ {s})
    BY <1>12, <2>2, <2>3, SumRemove
  <2>5. SumFunctionOnSet(f, S \ {s}) = SumFunctionOnSet(f, {})
    <3>1. \A r \in S \ {s} : f[r] \in Int
      BY <2>3
    <3>2. {} \in SUBSET (S \ {s}) /\ \A r \in (S \ {s}) \ {} : f[r] = 0
      BY <2>2
    <3>3. IsFiniteSet(S \ {s})
      BY <1>12, FS_Subset
    <3> QED
      BY <3>1, <3>2, <3>3, SumZeros
  <2> QED
    BY <1>11, <2>2, <2>4, <2>5, SumEmpty
<1>15. \A r \in Receivers : f[r] \in Nat
  BY <1>7, <1>8, <1>9, <1>10, <1>11, <1>12
<1> QED
  BY <1>1, <1>3, <1>7, <1>8, <1>13, <1>14, <1>15 DEF ValidatorsPart, SynchronizerPart

\* The rewards of some heights by receiver, and the total they are taken of.
RewardsIn(H) == [r \in Receivers |-> Sum([h \in H |-> RewardOf(h, r)])]
TotalIn(H) == Sum([h \in H |-> TotalReward(h)])

\* What the logs of some heights say of them.
WindowRewarded(H, reward, total) ==
  /\ reward \in [Receivers -> Nat] /\ total \in Nat
  /\ SumFunctionOnSet(reward, SynchronizerReceivers) <= total
  /\ total > 0 => \E r \in Receivers : reward[r] > 0
  /\ H # {} /\ (\A h \in H : reward_logs[h].btc.staking + reward_logs[h].xsat.consensus > 0)
       => \E r \in ValidatorReceivers : reward[r] > 0
  /\ (\A h \in H : reward_logs[h].btc.consensus = 0) => SumFunctionOnSet(reward, Receivers) = total

\* The synchronizers take part of the total, and without a BTC consensus part all
\* receivers take the total.
LEMMA RewardsOfWindow ==
  ASSUME NEW H, IsFiniteSet(H), \A h \in H : LogsOK(reward_logs[h])
  PROVE  WindowRewarded(H, RewardsIn(H), TotalIn(H))
<1>1. PICK reward, total, R, V, S, logs :
        /\ reward = RewardsIn(H) /\ total = TotalIn(H) /\ R = Receivers /\ V = ValidatorReceivers
        /\ S = SynchronizerReceivers /\ logs = reward_logs
  OBVIOUS
<1>2. /\ IsFiniteSet(R) /\ IsFiniteSet(V) /\ IsFiniteSet(S) /\ R = V \cup S /\ V \cap S = {}
      /\ V \in SUBSET R /\ S \in SUBSET R
  BY <1>1, ReceiverKinds
<1>3. PICK f, tot, val, syn :
        /\ f = [r \in R |-> [h \in H |-> RewardOf(h, r)]]
        /\ tot = [h \in H |-> TotalReward(h)] /\ val = [h \in H |-> ValidatorsPart(h)]
        /\ syn = [h \in H |-> SynchronizerPart(h)]
  OBVIOUS
<1>4. \A h \in H : /\ logs[h].btc.synchronizer \in Nat /\ logs[h].btc.staking \in Nat /\ logs[h].btc.consensus \in Nat
                   /\ logs[h].xsat.consensus \in Nat
  BY <1>1 DEF LogsOK, RewardLogs, LogType
<1>5. \A h \in H :
        /\ tot[h] = logs[h].btc.synchronizer + logs[h].btc.staking + logs[h].xsat.consensus
        /\ syn[h] = logs[h].btc.synchronizer
        /\ val[h] = (IF logs[h].btc.staking = 0 THEN 0 ELSE logs[h].btc.staking + logs[h].btc.consensus)
                      + logs[h].xsat.consensus
  BY <1>1, <1>3 DEF TotalReward, SynchronizerPart, ValidatorsPart, BtcReward
<1>6. \A h \in H : tot[h] \in Nat /\ syn[h] \in Nat /\ val[h] \in Nat
  BY <1>4, <1>5
<1>7. \A h \in H : \A r \in R : f[r][h] \in Nat
  <2> SUFFICES ASSUME NEW h \in H, NEW r \in R PROVE f[r][h] \in Nat
    OBVIOUS
  <2>1. PICK g : g = [q \in Receivers |-> RewardOf(h, q)]
    OBVIOUS
  <2>2. g[r] \in Nat
    BY <1>1, <2>1, RewardsOfHeight
  <2> QED
    BY <1>1, <1>3, <2>1, <2>2
<1>8. \A r \in R : reward[r] = SumFunctionOnSet(f[r], H) /\ reward[r] \in Nat
  <2> SUFFICES ASSUME NEW r \in R PROVE reward[r] = SumFunctionOnSet(f[r], H) /\ reward[r] \in Nat
    OBVIOUS
  <2>1. PICK g : g = f[r]
    OBVIOUS
  <2>2. g = [h \in H |-> RewardOf(h, r)]
    BY <1>3, <2>1
  <2>3. reward[r] = SumFunctionOnSet(g, H)
    BY <1>1, <2>2 DEF RewardsIn, Sum, SumFunction
  <2>4. \A h \in H : g[h] \in Nat
    BY <1>7, <2>1
  <2>5. SumFunctionOnSet(g, H) \in Nat
    BY <2>4, SumBound
  <2> QED
    BY <2>1, <2>3, <2>5
<1>9. ASSUME NEW Q \in SUBSET R, NEW b, \A h \in H : b[h] = SumFunctionOnSet([r \in Receivers |-> RewardOf(h, r)], Q)
      PROVE  SumFunctionOnSet(reward, Q) = SumFunctionOnSet(b, H)
  <2>1. IsFiniteSet(Q)
    BY <1>2, FS_Subset
  <2>2. \A r \in Q : \A h \in H : f[r][h] \in Int
    BY <1>7
  <2>3. \A r \in Q : reward[r] = SumFunctionOnSet(f[r], H)
    BY <1>8
  <2>0. PICK g : g = [h \in H |-> [r \in Q |-> f[r][h]]]
    OBVIOUS
  <2>4. ASSUME NEW h \in H PROVE b[h] = SumFunctionOnSet(g[h], Q)
    <3>1. PICK c, d : c = [r \in Receivers |-> RewardOf(h, r)] /\ d = g[h]
      OBVIOUS
    <3>2. \A r \in Q : c[r] \in Int /\ d[r] = c[r]
      BY <1>1, <1>3, <1>7, <2>0, <3>1
    <3>3. SumFunctionOnSet(d, Q) = SumFunctionOnSet(c, Q)
      BY <2>1, <3>2, SumEqual
    <3> QED
      BY <1>9, <3>1, <3>3
  <2>5. \A h \in H : \A r \in Q : g[h][r] = f[r][h]
    BY <2>0
  <2>7. \A h \in H : b[h] = SumFunctionOnSet(g[h], Q)
    BY <2>4
  <2>6. IsFiniteSet(H)
    OBVIOUS
  <2> QED
    BY ONLY <2>1, <2>2, <2>3, <2>5, <2>6, <2>7, SumExchange, SMTT(30)
<1>10. SumFunctionOnSet(reward, V) = SumFunctionOnSet(val, H)
  <2>1. \A h \in H : val[h] = SumFunctionOnSet([r \in Receivers |-> RewardOf(h, r)], V)
    BY <1>1, <1>3, RewardsOfHeight
  <2> QED
    BY <1>2, <1>9, <2>1
<1>11. SumFunctionOnSet(reward, S) = SumFunctionOnSet(syn, H)
  <2>1. \A h \in H : syn[h] = SumFunctionOnSet([r \in Receivers |-> RewardOf(h, r)], S)
    BY <1>1, <1>3, RewardsOfHeight
  <2> QED
    BY <1>2, <1>9, <2>1
<1>12. total = SumFunctionOnSet(tot, H)
  BY <1>1, <1>3 DEF TotalIn, Sum, SumFunction
<1>13. PICK T, A, B : T = SumFunctionOnSet(tot, H) /\ A = SumFunctionOnSet(val, H) /\ B = SumFunctionOnSet(syn, H)
  OBVIOUS
<1>14. T \in Nat /\ A \in Nat /\ B \in Nat
  BY <1>6, <1>13, SumBound
<1>15. PICK both : both = [h \in H |-> val[h] + syn[h]]
  OBVIOUS
<1>16. SumFunctionOnSet(both, H) = A + B
  <2>1. \A h \in H : val[h] \in Int /\ syn[h] \in Int /\ both[h] = val[h] + syn[h]
    BY <1>6, <1>15
  <2> QED
    BY <1>13, <2>1, SumAdd
<1>17. B <= T /\ T <= A + B
  <2>1. \A h \in H : syn[h] \in Int /\ tot[h] \in Int /\ both[h] \in Int
    BY <1>6, <1>15
  <2>2. \A h \in H : 1 * syn[h] <= 1 * tot[h] /\ 1 * tot[h] <= 1 * both[h]
    BY <1>4, <1>5, <1>15
  <2>3. 1 * SumFunctionOnSet(syn, H) <= 1 * SumFunctionOnSet(tot, H)
    BY <2>1, <2>2, SumScaled
  <2>4. 1 * SumFunctionOnSet(tot, H) <= 1 * SumFunctionOnSet(both, H)
    BY <2>1, <2>2, SumScaled
  <2> QED
    BY <1>13, <1>14, <1>16, <2>3, <2>4
<1>18. ASSUME NEW Q \in SUBSET R, \A r \in Q : ~(reward[r] > 0) PROVE SumFunctionOnSet(reward, Q) = 0
  <2>1. IsFiniteSet(Q) /\ \A r \in Q : reward[r] = 0
    BY <1>2, <1>8, <1>18, FS_Subset
  <2>2. SumFunctionOnSet(reward, Q) = 0 * Cardinality(Q)
    BY <2>1, SumConstant
  <2> QED
    BY <2>1, <2>2, FS_CardinalityType
<1>19. total > 0 => \E r \in R : reward[r] > 0
  <2> SUFFICES ASSUME total > 0, \A r \in R : ~(reward[r] > 0) PROVE FALSE
    OBVIOUS
  <2>1. A = 0 /\ B = 0
    BY <1>2, <1>10, <1>11, <1>13, <1>18
  <2> QED
    BY <1>12, <1>13, <1>14, <1>17, <2>1
<1>20. ASSUME H # {}, \A h \in H : logs[h].btc.staking + logs[h].xsat.consensus > 0
       PROVE  \E r \in V : reward[r] > 0
  <2> SUFFICES ASSUME \A r \in V : ~(reward[r] > 0) PROVE FALSE
    OBVIOUS
  <2>1. SumFunctionOnSet(val, H) = 0
    BY <1>2, <1>10, <1>18
  <2>2. PICK h \in H : val[h] > 0
    BY <1>4, <1>5, <1>20
  <2>3. val[h] <= SumFunctionOnSet(val, H)
    BY <1>6, SumBound
  <2> QED
    BY <1>6, <2>1, <2>2, <2>3
<1>21. ASSUME \A h \in H : logs[h].btc.consensus = 0
       PROVE  SumFunctionOnSet(reward, R) = total
  <2>1. \A h \in H : tot[h] \in Int /\ both[h] = tot[h]
    BY <1>4, <1>5, <1>6, <1>15, <1>21
  <2>2. SumFunctionOnSet(both, H) = T
    BY <1>13, <2>1, SumEqual
  <2>3. \A r \in V \cup S : reward[r] \in Int
    BY <1>2, <1>8
  <2>4. SumFunctionOnSet(reward, V \cup S) = SumFunctionOnSet(reward, V) + SumFunctionOnSet(reward, S)
    BY <1>2, <2>3, SumUnion
  <2> QED
    BY <1>2, <1>10, <1>11, <1>12, <1>13, <1>16, <2>2, <2>4
<1>22. reward \in [R -> Nat]
  BY <1>1, <1>8 DEF RewardsIn
<1>23. SumFunctionOnSet(reward, S) <= total /\ total \in Nat
  BY <1>11, <1>12, <1>13, <1>14, <1>17
<1> QED
  BY <1>1, <1>19, <1>20, <1>21, <1>22, <1>23 DEF WindowRewarded

-----------------------------------------------------------------------------
(* The shares of the fees. *)

\* A factor that is not zero.
LEMMA FactorCancels ==
  ASSUME NEW a \in Int, NEW b \in Int, NEW d \in Nat \ {0}, d * a <= d * b
  PROVE  a <= b
<1>1. SUFFICES ASSUME a >= b + 1 PROVE FALSE
  OBVIOUS
<1>2. d * a >= d * (b + 1)
  BY <1>1
<1>3. d * (b + 1) = d * b + d
  OBVIOUS
<1> QED
  BY <1>2, <1>3

\* A quotient is less than one below the fraction.
LEMMA DivNear ==
  ASSUME NEW a \in Nat, NEW b \in Nat \ {0}
  PROVE  a \div b \in Nat /\ b * (a \div b) <= a /\ a <= b * ((a \div b) + 1)
<1>1. PICK k, m : k = a \div b /\ m = a % b
  OBVIOUS
<1>2. k \in Nat /\ m \in 0..(b - 1) /\ a = b * k + m
  BY <1>1
<1>3. b * (k + 1) = b * k + b
  BY <1>2
<1> QED
  BY <1>1, <1>2, <1>3

\* The parts of fees C in proportion to the rewards: together not more than C, and
\* close to it if the rewards are all that the total was taken of.
LEMMA ProportionalParts ==
  ASSUME NEW C \in Nat, NEW reward \in [Receivers -> Nat], NEW total \in Nat \ {0},
         NEW q, q = [r \in Receivers |-> Proportion(C, reward, total, r)]
  PROVE  /\ \A r \in Receivers : q[r] \in Nat /\ (reward[r] = 0 => q[r] = 0)
         /\ \A Q \in SUBSET Receivers :
              /\ SumFunctionOnSet(q, Q) \in Nat
              /\ SumFunctionOnSet(reward, Q) <= total => SumFunctionOnSet(q, Q) <= C
         /\ SumFunctionOnSet(reward, Receivers) = total =>
              C <= SumFunctionOnSet(q, Receivers) + Cardinality(Receivers)
<1>1. \A r \in Receivers : /\ q[r] \in Nat /\ (reward[r] = 0 => q[r] = 0)
                           /\ total * q[r] <= C * reward[r] /\ C * reward[r] <= total * (q[r] + 1)
  <2> SUFFICES ASSUME NEW r \in Receivers
               PROVE  /\ q[r] \in Nat /\ (reward[r] = 0 => q[r] = 0)
                      /\ total * q[r] <= C * reward[r] /\ C * reward[r] <= total * (q[r] + 1)
    OBVIOUS
  <2>1. PICK a : a = C * reward[r]
    OBVIOUS
  <2>2. a \in Nat /\ q[r] = a \div total
    BY <2>1 DEF Proportion, safe_pct
  <2>3. a \div total \in Nat /\ total * (a \div total) <= a /\ a <= total * ((a \div total) + 1)
    BY <2>2, DivNear
  <2>4. ASSUME reward[r] = 0 PROVE q[r] = 0
    <3>1. a = 0
      BY <2>1, <2>4
    <3> QED
      BY <2>2, <3>1
  <2> QED
    BY <2>1, <2>2, <2>3, <2>4
<1>2. IsFiniteSet(Receivers)
  BY ReceiverKinds
<1>3. ASSUME NEW Q \in SUBSET Receivers
      PROVE  /\ SumFunctionOnSet(q, Q) \in Nat
             /\ SumFunctionOnSet(reward, Q) <= total => SumFunctionOnSet(q, Q) <= C
  <2>1. IsFiniteSet(Q)
    BY <1>2, FS_Subset
  <2>2. \A r \in Q : q[r] \in Nat /\ q[r] \in Int /\ reward[r] \in Nat /\ reward[r] \in Int
    BY <1>1
  <2>3. SumFunctionOnSet(q, Q) \in Nat /\ SumFunctionOnSet(reward, Q) \in Nat
    BY <2>1, <2>2, SumBound
  <2>4. \A r \in Q : reward[r] \in Int /\ q[r] \in Int /\ total * q[r] <= C * reward[r]
    BY <1>1, <2>2
  <2>5. total * SumFunctionOnSet(q, Q) <= C * SumFunctionOnSet(reward, Q)
    <3>1. total \in Nat
      OBVIOUS
    <3> QED
      BY ONLY <2>1, <2>4, <3>1, C \in Nat, SumScaled
  <2>6. ASSUME SumFunctionOnSet(reward, Q) <= total PROVE SumFunctionOnSet(q, Q) <= C
    <3>1. PICK a, b : a = SumFunctionOnSet(q, Q) /\ b = SumFunctionOnSet(reward, Q)
      OBVIOUS
    <3>2. C * b <= C * total
      <4>1. PICK d : d = total - b
        OBVIOUS
      <4>2. d \in Nat /\ total = b + d
        BY <2>3, <2>6, <3>1, <4>1
      <4>3. C * (b + d) = C * b + C * d /\ C * d \in Nat /\ C * b \in Nat
        BY <2>3, <3>1, <4>2
      <4> QED
        BY <4>2, <4>3
    <3>3. C * total = total * C /\ C * total \in Nat /\ C * b \in Nat /\ total * a \in Nat
      BY <2>3, <3>1
    <3>4. total * a <= total * C
      BY <2>5, <3>1, <3>2, <3>3
    <3> QED
      BY <2>3, <3>1, <3>4, FactorCancels
  <2> QED
    BY <2>3, <2>6
<1>4. ASSUME SumFunctionOnSet(reward, Receivers) = total
      PROVE  C <= SumFunctionOnSet(q, Receivers) + Cardinality(Receivers)
  <2>1. PICK R, n, a : R = Receivers /\ n = Cardinality(Receivers) /\ a = SumFunctionOnSet(q, Receivers)
    OBVIOUS
  <2>2. n \in Nat /\ IsFiniteSet(R) /\ a \in Nat
    BY <1>2, <1>3, <2>1, FS_CardinalityType
  <2>3. PICK one, up : one = [r \in R |-> 1] /\ up = [r \in R |-> q[r] + 1]
    OBVIOUS
  <2>4. \A r \in R : q[r] \in Int /\ one[r] \in Int /\ up[r] = q[r] + one[r]
    BY <1>1, <2>1, <2>3
  <2>5. SumFunctionOnSet(up, R) = SumFunctionOnSet(q, R) + SumFunctionOnSet(one, R)
    BY <2>2, <2>4, SumAdd
  <2>6. SumFunctionOnSet(one, R) = 1 * Cardinality(R)
    <3>1. \A r \in R : one[r] = 1
      BY <2>3
    <3> QED
      BY <2>2, <3>1, SumConstant
  <2>7. SumFunctionOnSet(up, R) = a + n
    BY <2>1, <2>2, <2>5, <2>6
  <2>8. \A r \in R : up[r] \in Int /\ reward[r] \in Int /\ C * reward[r] <= total * up[r]
    BY <1>1, <2>1, <2>3
  <2>9. C * SumFunctionOnSet(reward, R) <= total * SumFunctionOnSet(up, R)
    <3>1. total \in Nat
      OBVIOUS
    <3> QED
      BY ONLY <2>2, <2>8, <3>1, C \in Nat, SumScaled
  <2>10. total * C <= total * (a + n)
    BY <1>4, <2>1, <2>7, <2>9
  <2> QED
    BY <2>1, <2>2, <2>10, FactorCancels
<1> QED
  BY <1>1, <1>3, <1>4

\* The shares of the fees C of a window: if a validator was rewarded, nothing of C
\* is left over; and a validator gets its part, the last one a remainder as well.
SharesOfFees(C, reward, total, share) ==
  /\ share \in [Receivers -> Int]
  /\ (\E r \in ValidatorReceivers : reward[r] > 0) => SumFunctionOnSet(share, Receivers) = C
  /\ SumFunctionOnSet(reward, Receivers) = total =>
       \A r \in ValidatorReceivers : share[r] - Proportion(C, reward, total, r) \in 0..Cardinality(Receivers)

\* So the rewards of a window divide its fees.
LEMMA SharesOfWindow ==
  ASSUME NEW C \in Nat, NEW reward \in [Receivers -> Nat], NEW total \in Nat \ {0},
         SumFunctionOnSet(reward, SynchronizerReceivers) <= total
  PROVE  SharesOfFees(C, reward, total, ConsensusShares(C, reward, total))
<1>1. PICK share, q, R, V, S, order :
        /\ share = ConsensusShares(C, reward, total)
        /\ q = [r \in Receivers |-> Proportion(C, reward, total, r)]
        /\ R = Receivers /\ V = ValidatorReceivers /\ S = SynchronizerReceivers /\ order = ReceiverOrder
  OBVIOUS
<1>2. /\ IsFiniteSet(R) /\ IsFiniteSet(V) /\ IsFiniteSet(S) /\ R = V \cup S /\ V \cap S = {}
      /\ V = {r \in R : r[1] = "validator"} /\ S = {r \in R : r[1] = "synchronizer"}
      /\ Cardinality(R) \in Nat
  BY <1>1, ReceiverKinds, FS_CardinalityType
<1>3. PICK n : n = Len(order)
  OBVIOUS
<1>4. n \in Nat /\ order \in [1..n -> R] /\ \A r \in R : \E i \in 1..n : order[i] = r
  BY <1>1, <1>3, GasFundAssumption DEF Range
<1>5. PICK I : I = {i \in 1..n : order[i][1] = "validator" /\ reward[order[i]] > 0}
  OBVIOUS
<1>6. PICK last, W : last = order[Max(I)] /\ W = {r \in V : reward[r] > 0}
  OBVIOUS
<1>7. {order[i] : i \in I} = W
  <2>1. \A i \in I : order[i] \in W
    BY <1>2, <1>4, <1>5, <1>6
  <2>2. ASSUME NEW r \in W PROVE \E i \in I : order[i] = r
    <3>1. r \in R /\ r[1] = "validator" /\ reward[r] > 0
      BY <1>2, <1>6
    <3>2. PICK i \in 1..n : order[i] = r
      BY <1>4, <3>1
    <3> QED
      BY <1>5, <3>1, <3>2
  <2> QED
    BY <2>1, <2>2
<1>8. PICK rem : rem = C - Sum([r \in S |-> Proportion(C, reward, total, r)])
  OBVIOUS
<1>9. PICK rest : rest = Sum([r \in W \ {last} |-> Proportion(C, reward, total, r)])
  OBVIOUS
<1>10. share = [r \in R |-> IF r[1] = "synchronizer" THEN Proportion(C, reward, total, r)
                            ELSE IF I = {} \/ rem <= 0 THEN 0
                            ELSE IF r = last THEN rem - rest ELSE Proportion(C, reward, total, r)]
  <2>1. I = {i \in DOMAIN ReceiverOrder : ReceiverOrder[i][1] = "validator" /\ reward[ReceiverOrder[i]] > 0}
    BY <1>1, <1>4, <1>5
  <2>2. last = ReceiverOrder[Max(I)] /\ W \ {last} = {ReceiverOrder[i] : i \in I} \ {last}
    BY <1>1, <1>6, <1>7
  <2>3. S = {r \in Receivers : r[1] = "synchronizer"} /\ R = Receivers
    BY <1>1, <1>2
  <2> QED
    BY ONLY <1>1, <1>8, <1>9, <2>1, <2>2, <2>3, Zenon DEF ConsensusShares
<1>11. /\ \A r \in R : q[r] \in Nat /\ q[r] \in Int /\ (reward[r] = 0 => q[r] = 0)
                       /\ q[r] = Proportion(C, reward, total, r)
       /\ \A Q \in SUBSET R : SumFunctionOnSet(q, Q) \in Nat
                              /\ (SumFunctionOnSet(reward, Q) <= total => SumFunctionOnSet(q, Q) <= C)
       /\ SumFunctionOnSet(reward, R) = total => C <= SumFunctionOnSet(q, R) + Cardinality(R)
  BY <1>1, ProportionalParts
<1>12. ASSUME NEW Q \in SUBSET R
       PROVE  Sum([r \in Q |-> Proportion(C, reward, total, r)]) = SumFunctionOnSet(q, Q)
  <2>1. PICK f : f = [r \in Q |-> Proportion(C, reward, total, r)]
    OBVIOUS
  <2>2. IsFiniteSet(Q) /\ \A r \in Q : q[r] \in Int /\ f[r] = q[r]
    BY <1>2, <1>11, <2>1, FS_Subset
  <2>3. SumFunctionOnSet(f, Q) = SumFunctionOnSet(q, Q)
    BY <2>2, SumEqual
  <2> QED
    BY <2>1, <2>3 DEF Sum, SumFunction
<1>13. PICK a, b, w : a = SumFunctionOnSet(q, V) /\ b = SumFunctionOnSet(q, S)
                      /\ w = SumFunctionOnSet(q, W \ {last})
  OBVIOUS
<1>14. a \in Nat /\ b \in Nat /\ w \in Nat /\ b <= C /\ rem = C - b /\ rest = w
  <2>1. V \in SUBSET R /\ S \in SUBSET R /\ W \ {last} \in SUBSET R
    BY <1>2, <1>6
  <2> QED
    BY <1>1, <1>8, <1>9, <1>11, <1>12, <1>13, <2>1
<1>15. SumFunctionOnSet(q, R) = a + b
  <2>1. \A r \in V \cup S : q[r] \in Int
    BY <1>2, <1>11
  <2> QED
    BY <1>2, <1>13, <2>1, SumUnion
<1>16. share \in [R -> Int]
  BY <1>10, <1>11, <1>14
<1>17. \A r \in S : share[r] = q[r]
  BY <1>2, <1>10, <1>11
<1>18. SumFunctionOnSet(share, S) = b
  <2>1. \A r \in S : q[r] \in Int /\ share[r] = q[r]
    BY <1>2, <1>11, <1>17
  <2> QED
    BY <1>2, <1>13, <2>1, SumEqual
<1>19. SumFunctionOnSet(share, R) = SumFunctionOnSet(share, V) + b /\ SumFunctionOnSet(share, V) \in Int
  <2>1. \A r \in V \cup S : share[r] \in Int
    BY <1>2, <1>16
  <2>2. SumFunctionOnSet(share, V \cup S) = SumFunctionOnSet(share, V) + SumFunctionOnSet(share, S)
    BY <1>2, <2>1, SumUnion
  <2>3. SumFunctionOnSet(share, V) \in Int
    BY <1>2, <2>1, SumType
  <2> QED
    BY <1>2, <1>18, <2>2, <2>3
<1>20. I # {} => last \in W
  <2> SUFFICES ASSUME I # {} PROVE last \in W
    OBVIOUS
  <2>1. I \in SUBSET (0..n)
    BY <1>4, <1>5
  <2>2. Max(I) \in I
    BY <1>4, <2>1, MaxIsGreatest
  <2> QED
    BY <1>6, <1>7, <2>2
<1>21. CASE I = {} \/ rem <= 0
  <2>1. \A r \in V : share[r] = 0
    <3>1. \A r \in V : r \in R /\ r[1] # "synchronizer"
      BY <1>2
    <3> QED
      BY <1>10, <1>21, <3>1
  <2>2. SumFunctionOnSet(share, V) = 0
    <3>1. SumFunctionOnSet(share, V) = 0 * Cardinality(V)
      BY <1>2, <2>1, SumConstant
    <3>2. Cardinality(V) \in Nat
      BY <1>2, FS_CardinalityType
    <3> QED
      BY <3>1, <3>2
  <2>3. ASSUME \E r \in V : reward[r] > 0 PROVE SumFunctionOnSet(share, R) = C
    <3>1. I # {}
      BY <1>6, <1>7, <2>3
    <3>2. rem = 0
      BY <1>14, <1>21, <3>1
    <3> QED
      BY <1>14, <1>19, <2>2, <3>2
  <2>4. ASSUME SumFunctionOnSet(reward, R) = total, NEW r \in V
        PROVE  share[r] - Proportion(C, reward, total, r) \in 0..Cardinality(R)
    <3>1. q[r] = 0
      <4>1. CASE I = {}
        <5>1. reward[r] = 0
          <6>1. ~(reward[r] > 0) /\ r \in R
            BY <1>2, <1>6, <1>7, <4>1
          <6> QED
            BY <1>1, <6>1
        <5> QED
          BY <1>2, <1>11, <5>1
      <4>2. CASE rem <= 0
        <5>1. b = C
          BY <1>14, <4>2
        <5>2. a + b <= C
          <6>1. R \in SUBSET R
            OBVIOUS
          <6> QED
            BY <1>11, <1>15, <2>4, <6>1
        <5>3. a = 0
          BY <1>14, <5>1, <5>2
        <5>4. q[r] <= SumFunctionOnSet(q, V)
          <6>1. \A x \in V : q[x] \in Nat
            BY <1>2, <1>11
          <6> QED
            BY <1>2, <6>1, SumBound
        <5> QED
          BY <1>2, <1>11, <1>13, <5>3, <5>4
      <4> QED
        BY <1>21, <4>1, <4>2
    <3>2. Proportion(C, reward, total, r) = 0
      BY <1>2, <1>11, <3>1
    <3> QED
      BY <1>2, <2>1, <3>2
  <2> QED
    BY <1>1, <1>16, <2>3, <2>4 DEF SharesOfFees
<1>22. CASE ~(I = {} \/ rem <= 0)
  <2>1. last \in W /\ last \in V /\ last \in R
    BY <1>2, <1>6, <1>20, <1>22
  <2>2. /\ share[last] = rem - w
        /\ \A r \in V \ {last} : share[r] = q[r]
    <3>1. \A r \in V : r \in R /\ r[1] # "synchronizer"
      BY <1>2
    <3> QED
      BY <1>10, <1>11, <1>14, <1>22, <2>1, <3>1
  <2>3. SumFunctionOnSet(q, V \ {last}) = w
    <3>1. IsFiniteSet(V \ {last}) /\ W \ {last} \in SUBSET (V \ {last})
      BY <1>2, <1>6, FS_Subset
    <3>2. (\A x \in V \ {last} : q[x] \in Int) /\ \A x \in (V \ {last}) \ (W \ {last}) : q[x] = 0
      <4>1. \A x \in V : x \in R /\ (x \notin W => reward[x] = 0)
        BY <1>1, <1>2, <1>6
      <4> QED
        BY <1>11, <4>1
    <3> QED
      BY <1>13, <3>1, <3>2, SumZeros
  <2>4. SumFunctionOnSet(share, V) = share[last] + SumFunctionOnSet(share, V \ {last})
    <3>1. \A x \in V : share[x] \in Int
      BY <1>2, <1>16
    <3> QED
      BY <1>2, <2>1, <3>1, SumRemove
  <2>5. SumFunctionOnSet(share, V \ {last}) = w
    <3>1. IsFiniteSet(V \ {last}) /\ \A x \in V \ {last} : q[x] \in Int /\ share[x] = q[x]
      BY <1>2, <1>11, <2>2, FS_Subset
    <3>2. SumFunctionOnSet(share, V \ {last}) = SumFunctionOnSet(q, V \ {last})
      BY <3>1, SumEqual
    <3> QED
      BY <2>3, <3>2
  <2>6. SumFunctionOnSet(share, R) = C
    BY <1>14, <1>19, <2>2, <2>4, <2>5
  <2>7. a = q[last] + w
    <3>1. \A x \in V : q[x] \in Int
      BY <1>2, <1>11
    <3>2. SumFunctionOnSet(q, V) = q[last] + SumFunctionOnSet(q, V \ {last})
      BY <1>2, <2>1, <3>1, SumRemove
    <3> QED
      BY <1>13, <2>3, <3>2
  <2>8. ASSUME SumFunctionOnSet(reward, R) = total, NEW r \in V
        PROVE  share[r] - Proportion(C, reward, total, r) \in 0..Cardinality(R)
    <3>1. r \in R /\ Proportion(C, reward, total, r) = q[r] /\ q[r] \in Nat
      BY <1>2, <1>11
    <3>2. CASE r # last
      BY <1>2, <2>2, <3>1, <3>2
    <3>3. CASE r = last
      <4>1. share[r] - q[r] = C - (a + b)
        BY <1>14, <2>2, <2>7, <3>1, <3>3
      <4>2. C <= (a + b) + Cardinality(R) /\ a + b <= C
        <5>1. R \in SUBSET R /\ SumFunctionOnSet(reward, R) <= total
          BY <2>8
        <5> QED
          BY <1>11, <1>15, <2>8, <5>1
      <4> QED
        BY <1>2, <1>14, <3>1, <4>1, <4>2
    <3> QED
      BY <3>2, <3>3
  <2> QED
    BY <1>1, <1>16, <2>6, <2>8 DEF SharesOfFees
<1> QED
  BY <1>21, <1>22

\* A sum of one number.
LEMMA SumSingle ==
  ASSUME NEW f, NEW x, f[x] \in Int
  PROVE  SumFunctionOnSet(f, {x}) = f[x]
<1>1. PICK T : T = {x}
  OBVIOUS
<1>2. IsFiniteSet(T) /\ x \in T /\ (\A y \in T : f[y] \in Int) /\ T \ {x} = {}
  BY <1>1, FS_Singleton
<1>3. SumFunctionOnSet(f, T) = f[x] + SumFunctionOnSet(f, T \ {x})
  BY <1>2, SumRemove
<1> QED
  BY <1>1, <1>2, <1>3, SumEmpty

\* The sum over an interval from one.
LEMMA SumUpTo ==
  ASSUME NEW k \in Nat, NEW f, \A i \in 1..(k + 1) : f[i] \in Int
  PROVE  SumFunctionOnSet(f, 1..(k + 1)) = SumFunctionOnSet(f, 1..k) + f[k + 1] /\ SumFunctionOnSet(f, 1..k) \in Int
<1>1. PICK S, x : S = 1..k /\ x = k + 1
  OBVIOUS
<1>2. IsFiniteSet(S)
  BY <1>1, FS_Interval
<1>3. 1..(k + 1) = S \cup {x} /\ x \notin S
  BY <1>1
<1>4. \A i \in S \cup {x} : f[i] \in Int
  BY <1>3
<1>5. SumFunctionOnSet(f, S \cup {x}) = SumFunctionOnSet(f, S) + f[x] /\ SumFunctionOnSet(f, S) \in Int
  BY ONLY <1>2, <1>3, <1>4, SumInsert
<1> QED
  BY <1>1, <1>3, <1>5

\* There are finitely many ids, and each is shared by finitely many receivers.
LEMMA IdsOfReceivers ==
  /\ IsFiniteSet(ReceiverIds) /\ \A r \in Receivers : receiver_id(r) \in ReceiverIds /\ r \in Sharing(receiver_id(r))
  /\ \A id : Sharing(id) \in SUBSET Receivers /\ IsFiniteSet(Sharing(id)) /\ \A r \in Sharing(id) : receiver_id(r) = id
<1>1. PICK p : p = [r \in Receivers |-> receiver_id(r)]
  OBVIOUS
<1>2. p \in Surjection(Receivers, ReceiverIds)
  BY <1>1 DEF Surjection, ReceiverIds
<1>3. IsFiniteSet(ReceiverIds)
  BY <1>2, ReceiverKinds, FS_Surjection
<1>4. \A id : Sharing(id) \in SUBSET Receivers /\ \A r \in Sharing(id) : receiver_id(r) = id
  BY DEF Sharing
<1>5. \A id : IsFiniteSet(Sharing(id))
  BY <1>4, ReceiverKinds, FS_Subset
<1>6. \A r \in Receivers : receiver_id(r) \in ReceiverIds /\ r \in Sharing(receiver_id(r))
  BY DEF ReceiverIds, Sharing
<1> QED
  BY <1>3, <1>4, <1>5, <1>6

\* What the receivers of an id have together.
LEMMA SumById ==
  ASSUME NEW f, NEW id
  PROVE  ById(f, id) = SumFunctionOnSet([r \in Sharing(id) |-> f[r]], Sharing(id))
BY DEF ById, Restrict, Sum, SumFunction

\* Amounts by id: together those of all receivers.
LEMMA AmountsById ==
  ASSUME NEW f \in [Receivers -> Int], NEW b, b = [id \in ReceiverIds |-> ById(f, id)]
  PROVE  /\ \A id \in ReceiverIds : b[id] = SumFunctionOnSet(f, Sharing(id)) /\ b[id] \in Int
         /\ Sum(b) = SumFunctionOnSet(f, Receivers)
         /\ \A id \in ReceiverIds : (\A r \in Sharing(id) : f[r] = 0) => b[id] = 0
<1>1. ASSUME NEW id \in ReceiverIds PROVE b[id] = SumFunctionOnSet(f, Sharing(id)) /\ b[id] \in Int
  <2>1. PICK T, g : T = Sharing(id) /\ g = [r \in Sharing(id) |-> f[r]]
    OBVIOUS
  <2>2. IsFiniteSet(T) /\ \A r \in T : f[r] \in Int /\ g[r] = f[r]
    BY <2>1, IdsOfReceivers
  <2>3. SumFunctionOnSet(g, T) = SumFunctionOnSet(f, T) /\ SumFunctionOnSet(f, T) \in Int
    BY <2>2, SumEqual, SumType
  <2> QED
    BY <2>1, <2>3, SumById
<1>2. PICK V, S, p : V = ReceiverIds /\ S = Receivers /\ p = [r \in Receivers |-> receiver_id(r)]
  OBVIOUS
<1>3. /\ IsFiniteSet(V) /\ IsFiniteSet(S) /\ (\A x \in S : p[x] \in V) /\ \A x \in S : f[x] \in Int
  BY <1>2, IdsOfReceivers, ReceiverKinds
<1>4. \A v \in V : b[v] = SumFunctionOnSet(f, Fiber(S, p, v))
  <2>1. \A v \in V : Fiber(S, p, v) = Sharing(v)
    BY <1>2 DEF Fiber, Sharing
  <2> QED
    BY <1>1, <1>2, <2>1
<1>5. SumFunctionOnSet(b, V) = SumFunctionOnSet(f, S)
  BY ONLY <1>3, <1>4, SumFibers
<1>6. ASSUME NEW id \in ReceiverIds, \A r \in Sharing(id) : f[r] = 0 PROVE b[id] = 0
  <2>1. IsFiniteSet(Sharing(id)) /\ Cardinality(Sharing(id)) \in Nat
    BY IdsOfReceivers, FS_CardinalityType
  <2>2. SumFunctionOnSet(f, Sharing(id)) = 0 * Cardinality(Sharing(id))
    BY <1>6, <2>1, SumConstant
  <2> QED
    BY <1>1, <2>1, <2>2
<1> QED
  BY <1>1, <1>2, <1>5, <1>6 DEF Sum, SumFunction

\* An id has rewards if one of its receivers does.
LEMMA RewardsById ==
  ASSUME NEW f \in [Receivers -> Nat], NEW id \in ReceiverIds
  PROVE  /\ ById(f, id) \in Nat /\ \A r \in Sharing(id) : f[r] <= ById(f, id)
         /\ ById(f, id) > 0 => \E r \in Sharing(id) : f[r] > 0
<1>1. PICK b : b = [x \in ReceiverIds |-> ById(f, x)]
  OBVIOUS
<1>2. f \in [Receivers -> Int]
  OBVIOUS
<1>3. b[id] = ById(f, id) /\ b[id] = SumFunctionOnSet(f, Sharing(id)) /\ ((\A r \in Sharing(id) : f[r] = 0) => b[id] = 0)
  BY <1>1, <1>2, AmountsById
<1>4. IsFiniteSet(Sharing(id)) /\ \A r \in Sharing(id) : f[r] \in Nat
  BY IdsOfReceivers
<1>5. SumFunctionOnSet(f, Sharing(id)) \in Nat /\ \A r \in Sharing(id) : f[r] <= SumFunctionOnSet(f, Sharing(id))
  BY <1>4, SumBound
<1>6. (\A r \in Sharing(id) : ~(f[r] > 0)) => \A r \in Sharing(id) : f[r] = 0
  BY <1>4
<1> QED
  BY <1>3, <1>5, <1>6

\* Shares added to rows, of which new ones may be needed.
LEMMA SharesCredited ==
  ASSUME NEW fees, \A r \in DOMAIN fees : fees[r] \in Int, NEW share, \A r \in DOMAIN share : share[r] \in Int,
         NEW D \in SUBSET ReceiverIds, DOMAIN fees \subseteq D, DOMAIN share \subseteq ReceiverIds,
         \A r \in DOMAIN share : r \in D \/ share[r] = 0,
         NEW g, DOMAIN g = D, \A r \in D : g[r] = Row(fees, r, 0) + Row(share, r, 0)
  PROVE  /\ (\A r \in D : g[r] \in Int) /\ Sum(g) = Sum(fees) + Sum(share) /\ Sum(fees) \in Int
         /\ \A r \in ReceiverIds : Row(g, r, 0) = Row(fees, r, 0) + Row(share, r, 0)
<1>1. PICK R, f, s, a : /\ R = ReceiverIds /\ f = [r \in R |-> Row(fees, r, 0)] /\ s = [r \in R |-> Row(share, r, 0)]
                        /\ a = [r \in R |-> Row(fees, r, 0) + Row(share, r, 0)]
  OBVIOUS
<1>2. IsFiniteSet(R) /\ D \in SUBSET R /\ DOMAIN fees \in SUBSET R /\ DOMAIN share \in SUBSET R
  BY <1>1, IdsOfReceivers
<1>3. \A r \in R : f[r] \in Int /\ s[r] \in Int /\ a[r] = f[r] + s[r] /\ a[r] \in Int
  BY <1>1 DEF Row
<1>4. SumFunctionOnSet(a, R) = SumFunctionOnSet(f, R) + SumFunctionOnSet(s, R)
  BY <1>2, <1>3, SumAdd
<1>5. ASSUME NEW h, NEW T \in SUBSET R, \A x \in R : h[x] \in Int, \A x \in R \ T : h[x] = 0,
             NEW k, DOMAIN k = T, \A x \in T : k[x] = h[x]
      PROVE  SumFunctionOnSet(h, R) = Sum(k) /\ Sum(k) \in Int
  <2>1. IsFiniteSet(T) /\ \A x \in T : h[x] \in Int /\ k[x] = h[x]
    BY <1>2, <1>5, FS_Subset
  <2>2. SumFunctionOnSet(h, R) = SumFunctionOnSet(h, T)
    BY ONLY <1>2, <1>5, SumZeros
  <2>3. SumFunctionOnSet(k, T) = SumFunctionOnSet(h, T)
    BY <2>1, SumEqual
  <2>4. SumFunctionOnSet(h, T) \in Int
    BY <2>1, SumType
  <2>5. Sum(k) = SumFunctionOnSet(k, T)
    BY <1>5 DEF Sum, SumFunction
  <2> QED
    BY <2>2, <2>3, <2>4, <2>5
<1>6. SumFunctionOnSet(f, R) = Sum(fees) /\ Sum(fees) \in Int
  <2>1. (\A x \in R \ DOMAIN fees : f[x] = 0) /\ \A x \in DOMAIN fees : fees[x] = f[x]
    BY <1>1, <1>2 DEF Row
  <2> QED
    BY <1>2, <1>3, <1>5, <2>1
<1>7. SumFunctionOnSet(s, R) = Sum(share)
  <2>1. (\A x \in R \ DOMAIN share : s[x] = 0) /\ \A x \in DOMAIN share : share[x] = s[x]
    BY <1>1, <1>2 DEF Row
  <2> QED
    BY <1>2, <1>3, <1>5, <2>1
<1>8. \A x \in R \ D : f[x] = 0 /\ s[x] = 0
  BY <1>1 DEF Row
<1>9. SumFunctionOnSet(a, R) = Sum(g)
  <2>1. (\A x \in R \ D : a[x] = 0) /\ DOMAIN g = D /\ \A x \in D : g[x] = a[x]
    BY <1>1, <1>2, <1>3, <1>8
  <2>2. \A x \in R : a[x] \in Int
    BY <1>3
  <2>3. D \in SUBSET R
    BY <1>2
  <2> QED
    BY ONLY <1>5, <2>1, <2>2, <2>3
<1>10. \A r \in ReceiverIds : Row(g, r, 0) = Row(fees, r, 0) + Row(share, r, 0)
  <2> SUFFICES ASSUME NEW r \in R PROVE Row(g, r, 0) = f[r] + s[r]
    BY <1>1
  <2>1. CASE r \in D
    BY <1>1, <2>1 DEF Row
  <2>2. CASE r \notin D
    BY <1>8, <2>2 DEF Row
  <2> QED
    BY <2>1, <2>2
<1>11. \A r \in D : g[r] \in Int
  BY <1>1, <1>2, <1>3
<1> QED
  BY <1>4, <1>6, <1>7, <1>9, <1>10, <1>11

\* So are the shares of all receivers, each in the row of its id.
LEMMA RowsCredited ==
  ASSUME NEW f, f \in [DOMAIN f -> Int], DOMAIN f \subseteq ReceiverIds, NEW share \in [Receivers -> Int],
         NEW g, g = Credited(f, share)
  PROVE  /\ g \in [DOMAIN g -> Int] /\ DOMAIN g \subseteq ReceiverIds
         /\ Sum(g) = Sum(f) + SumFunctionOnSet(share, Receivers)
         /\ \A id \in ReceiverIds : Row(g, id, 0) = Row(f, id, 0) + ById(share, id)
<1>1. PICK D, s : /\ D = DOMAIN f \cup {receiver_id(r) : r \in {r \in Receivers : share[r] # 0}}
                  /\ s = [id \in ReceiverIds |-> ById(share, id)]
  OBVIOUS
<1>2. /\ Sum(s) = SumFunctionOnSet(share, Receivers) /\ \A id \in ReceiverIds : s[id] \in Int
      /\ \A id \in ReceiverIds : (\A r \in Sharing(id) : share[r] = 0) => s[id] = 0
  BY <1>1, AmountsById
<1>3. D \in SUBSET ReceiverIds /\ DOMAIN f \subseteq D /\ DOMAIN s = ReceiverIds /\ \A id \in DOMAIN f : f[id] \in Int
  BY <1>1, IdsOfReceivers
<1>4. \A id \in DOMAIN s : id \in D \/ s[id] = 0
  <2> SUFFICES ASSUME NEW id \in ReceiverIds, id \notin D PROVE \A r \in Sharing(id) : share[r] = 0
    BY <1>2, <1>3
  <2> QED
    BY <1>1 DEF Sharing
<1>5. g = [id \in D |-> Row(f, id, 0) + ById(share, id)]
  BY <1>1 DEF Credited
<1>6. \A id \in ReceiverIds : Row(s, id, 0) = ById(share, id)
  BY <1>1 DEF Row
<1>7. DOMAIN g = D /\ \A id \in D : g[id] = Row(f, id, 0) + Row(s, id, 0)
  BY <1>3, <1>5, <1>6
<1>8. /\ (\A id \in D : g[id] \in Int) /\ Sum(g) = Sum(f) + Sum(s)
      /\ \A id \in ReceiverIds : Row(g, id, 0) = Row(f, id, 0) + Row(s, id, 0)
  <2>1. \A id \in DOMAIN f : f[id] \in Int
    BY <1>3
  <2>2. \A id \in DOMAIN s : s[id] \in Int
    BY <1>2, <1>3
  <2>3. D \in SUBSET ReceiverIds /\ DOMAIN f \subseteq D /\ DOMAIN s \subseteq ReceiverIds
    BY <1>3
  <2>4. DOMAIN g = D
    BY <1>7
  <2>5. \A id \in D : g[id] = Row(f, id, 0) + Row(s, id, 0)
    BY <1>7
  <2> QED
    BY ONLY <1>4, <2>1, <2>2, <2>3, <2>4, <2>5, SharesCredited
<1>9. g \in [DOMAIN g -> Int]
  BY <1>5, <1>7, <1>8
<1> QED
  BY <1>2, <1>3, <1>6, <1>7, <1>8, <1>9

\* The larger of a number and zero.
LEMMA MaxWithZero ==
  ASSUME NEW x \in Int
  PROVE  Max({0, x}) = IF x >= 0 THEN x ELSE 0
<1>1. PICK m : m = IF x >= 0 THEN x ELSE 0
  OBVIOUS
<1>2. m \in {0, x} /\ \A y \in {0, x} : m >= y
  BY <1>1
<1>3. Max({0, x}) \in {0, x} /\ \A y \in {0, x} : Max({0, x}) >= y
  BY <1>2 DEF Max
<1> QED
  BY <1>1, <1>3

\* A row of a record; an id has at most one.
Detail == [receiver : ReceiverIds, reward : Nat]
OneRowEach(rows) == \A i, j \in DOMAIN rows : rows[i].receiver = rows[j].receiver => i = j

\* Taken one after the other from what is left, the shares of a transfer are all of it.
LEMMA SharesOfTransfer ==
  ASSUME NEW C \in Nat, NEW rows \in Seq(Detail), rows # << >>, OneRowEach(rows), NEW total \in Nat \ {0}
  PROVE  LET share == EvmShares(C, rows, total) IN
         /\ DOMAIN share \subseteq ReceiverIds /\ share \in [DOMAIN share -> Nat] /\ Sum(share) = C
<1> DEFINE pD == [i \in DOMAIN rows |-> safe_pct(C, rows[i].reward, total)]
           leftD == [i \in DOMAIN rows |-> Max({0, C - Sum([j \in 1..(i - 1) |-> pD[j]])})]
           shD == [i \in DOMAIN rows |-> IF i = Len(rows) THEN leftD[i] ELSE Min({pD[i], leftD[i]})]
<1>0. EvmShares(C, rows, total) =
        [r \in {rows[i].receiver : i \in DOMAIN rows} |-> shD[CHOOSE i \in DOMAIN rows : rows[i].receiver = r]]
  BY DEF EvmShares
<1>1. PICK share, n, p : /\ share = EvmShares(C, rows, total) /\ n = Len(rows) /\ p = pD
  OBVIOUS
<1>2. n \in Nat \ {0} /\ rows \in [1..n -> Detail] /\ DOMAIN rows = 1..n
  BY <1>1
<1>3. PICK left : left = leftD
  OBVIOUS
<1>4. PICK sh : sh = shD
  OBVIOUS
<1>5. share = [r \in {rows[i].receiver : i \in DOMAIN rows} |-> sh[CHOOSE i \in DOMAIN rows : rows[i].receiver = r]]
  <2> HIDE DEF shD
  <2> QED
    BY <1>0, <1>1, <1>4
<1>5a. \A i \in DOMAIN rows : left[i] = Max({0, C - Sum([j \in 1..(i - 1) |-> p[j]])})
  <2> HIDE DEF pD
  <2> QED
    BY <1>1, <1>3
<1>5b. \A i \in DOMAIN rows : sh[i] = IF i = Len(rows) THEN left[i] ELSE Min({p[i], left[i]})
  <2> HIDE DEF pD, leftD
  <2> QED
    BY <1>1, <1>3, <1>4
<1>5c. \A i \in DOMAIN rows : p[i] = safe_pct(C, rows[i].reward, total)
  BY <1>1
<1> HIDE DEF pD, leftD, shD
<1>6. \A i \in 1..n : p[i] \in Nat
  <2> SUFFICES ASSUME NEW i \in 1..n PROVE p[i] \in Nat
    OBVIOUS
  <2>1. PICK a : a = C * rows[i].reward
    OBVIOUS
  <2>2. a \in Nat /\ p[i] = a \div total
    BY <1>2, <1>5c, <2>1 DEF safe_pct, Detail
  <2> QED
    BY <2>2, DivNear
<1>7. ASSUME NEW k \in 0..n PROVE SumFunctionOnSet(p, 1..k) \in Nat
  <2>1. IsFiniteSet(1..k) /\ \A i \in 1..k : p[i] \in Nat
    BY <1>2, <1>6, FS_Interval
  <2> QED
    BY <2>1, SumBound
<1>8. ASSUME NEW k \in 0..(n - 1) PROVE SumFunctionOnSet(p, 1..(k + 1)) = SumFunctionOnSet(p, 1..k) + p[k + 1]
  <2>1. k \in Nat /\ \A i \in 1..(k + 1) : p[i] \in Int
    BY <1>2, <1>6
  <2> QED
    BY <2>1, SumUpTo
<1>9. ASSUME NEW i \in 1..n
      PROVE  left[i] = (IF C >= SumFunctionOnSet(p, 1..(i - 1)) THEN C - SumFunctionOnSet(p, 1..(i - 1)) ELSE 0)
  <2>1. PICK a, q, S : a = SumFunctionOnSet(p, 1..(i - 1)) /\ S = 1..(i - 1)
                       /\ q = [j \in 1..(i - 1) |-> p[j]]
    OBVIOUS
  <2>2. i - 1 \in 0..n
    BY <1>2
  <2>3. IsFiniteSet(S) /\ \A j \in S : p[j] \in Int /\ q[j] = p[j]
    <3>1. IsFiniteSet(S)
      BY <2>1, <2>2, FS_Interval
    <3>2. \A j \in S : j \in 1..n
      BY <1>2, <2>1
    <3>3. \A j \in S : p[j] \in Int /\ q[j] = p[j]
      BY <1>6, <2>1, <3>2
    <3> QED
      BY <3>1, <3>3
  <2>4. SumFunctionOnSet(q, S) = a
    BY <2>1, <2>3, SumEqual
  <2>5. Sum(q) = a
    BY <2>1, <2>4 DEF Sum, SumFunction
  <2>6. a \in Nat /\ C - a \in Int
    BY <1>7, <2>1, <2>2
  <2>7. left[i] = Max({0, C - a})
    BY <1>2, <1>5a, <2>1, <2>5
  <2>8. left[i] = IF C - a >= 0 THEN C - a ELSE 0
    BY <2>6, <2>7, MaxWithZero
  <2> QED
    BY <2>1, <2>6, <2>8
<1>10. \A i \in 1..n : left[i] \in Nat
  <2> SUFFICES ASSUME NEW i \in 1..n PROVE left[i] \in Nat
    OBVIOUS
  <2>1. i - 1 \in 0..n
    BY <1>2
  <2> QED
    BY <1>7, <1>9, <2>1
<1>11. \A i \in 1..n : sh[i] = (IF i = n THEN left[i] ELSE IF p[i] <= left[i] THEN p[i] ELSE left[i]) /\ sh[i] \in Nat
  <2> SUFFICES ASSUME NEW i \in 1..n
               PROVE  sh[i] = (IF i = n THEN left[i] ELSE IF p[i] <= left[i] THEN p[i] ELSE left[i]) /\ sh[i] \in Nat
    OBVIOUS
  <2>1. Min({p[i], left[i]}) = IF p[i] <= left[i] THEN p[i] ELSE left[i]
    BY <1>6, <1>10, MinOfTwo
  <2> QED
    BY <1>1, <1>2, <1>5b, <1>6, <1>10, <2>1
<1>12. ASSUME NEW k \in 0..(n - 1) PROVE SumFunctionOnSet(sh, 1..(k + 1)) = SumFunctionOnSet(sh, 1..k) + sh[k + 1]
                                         /\ SumFunctionOnSet(sh, 1..k) \in Int
  <2>1. k \in Nat /\ \A i \in 1..(k + 1) : sh[i] \in Int
    BY <1>2, <1>11
  <2> QED
    BY <2>1, SumUpTo
<1>13. \A k \in Nat : k <= n - 1 => SumFunctionOnSet(sh, 1..k) = C - left[k + 1]
  <2> DEFINE P == {k \in Nat : k <= n - 1 => SumFunctionOnSet(sh, 1..k) = C - left[k + 1]}
  <2>1. 0 \in P
    <3>1. left[1] = C
      <4>1. 1..(1 - 1) = {} /\ 1 \in 1..n
        BY <1>2
      <4>2. SumFunctionOnSet(p, 1..(1 - 1)) = 0
        BY <4>1, SumEmpty
      <4> QED
        BY <1>9, <4>1, <4>2
    <3>2. SumFunctionOnSet(sh, 1..0) = 0
      <4>1. 1..0 = {}
        OBVIOUS
      <4> QED
        BY <4>1, SumEmpty
    <3> QED
      BY <3>1, <3>2
  <2>2. ASSUME NEW k \in P PROVE k + 1 \in P
    <3> SUFFICES ASSUME k + 1 <= n - 1 PROVE SumFunctionOnSet(sh, 1..(k + 1)) = C - left[(k + 1) + 1]
      BY <2>2
    <3>1. k \in 0..(n - 1) /\ k + 1 \in 1..n /\ k + 2 \in 1..n /\ k + 1 # n /\ (k + 1) + 1 = k + 2
          /\ k \in 0..n /\ (k + 1) - 1 = k /\ (k + 2) - 1 = k + 1
      BY <1>2, <2>2
    <3>2. PICK a, x, l1, l2 : a = SumFunctionOnSet(p, 1..k) /\ x = p[k + 1] /\ l1 = left[k + 1] /\ l2 = left[k + 2]
      OBVIOUS
    <3>3. SumFunctionOnSet(sh, 1..k) = C - l1
      BY <2>2, <3>1, <3>2
    <3>4. a \in Nat /\ x \in Nat /\ SumFunctionOnSet(p, 1..(k + 1)) = a + x
      BY <1>6, <1>7, <1>8, <3>1, <3>2
    <3>5. l1 = IF C >= a THEN C - a ELSE 0
      BY <1>9, <3>1, <3>2
    <3>6. l2 = IF C >= a + x THEN C - (a + x) ELSE 0
      BY <1>9, <3>1, <3>2, <3>4
    <3>7. sh[k + 1] = IF x <= l1 THEN x ELSE l1
      BY <1>11, <3>1, <3>2
    <3>8. SumFunctionOnSet(sh, 1..(k + 1)) = SumFunctionOnSet(sh, 1..k) + sh[k + 1]
      BY <1>12, <3>1
    <3>9. SumFunctionOnSet(sh, 1..(k + 1)) = C - l2
      BY <3>3, <3>4, <3>5, <3>6, <3>7, <3>8
    <3> QED
      BY <3>1, <3>2, <3>9
  <2>3. P = Nat
    <3>1. P \in SUBSET Nat
      OBVIOUS
    <3> HIDE DEF P
    <3> QED
      BY <2>1, <2>2, <3>1, SetOfNaturals
  <2> QED
    BY <2>3
<1>14. SumFunctionOnSet(sh, 1..n) = C
  <2>1. n - 1 \in Nat /\ n - 1 \in 0..(n - 1) /\ (n - 1) + 1 = n /\ n \in 1..n
    BY <1>2
  <2>2. SumFunctionOnSet(sh, 1..(n - 1)) = C - left[n]
    BY <1>13, <2>1
  <2>3. SumFunctionOnSet(sh, 1..n) = SumFunctionOnSet(sh, 1..(n - 1)) + sh[n]
    BY <1>12, <2>1
  <2>4. sh[n] = left[n] /\ left[n] \in Nat
    BY <1>10, <1>11, <2>1
  <2> QED
    BY <2>2, <2>3, <2>4
<1>15. PICK V, S, q : V = {rows[i].receiver : i \in DOMAIN rows} /\ S = 1..n /\ q = [i \in 1..n |-> rows[i].receiver]
  OBVIOUS
<1>16. /\ IsFiniteSet(S) /\ V \subseteq ReceiverIds /\ IsFiniteSet(V) /\ (\A i \in S : q[i] \in V)
       /\ (\A i \in S : sh[i] \in Int) /\ DOMAIN share = V
  <2>1. IsFiniteSet(S)
    <3>1. n \in Int
      BY <1>2
    <3> QED
      BY <1>15, <3>1, FS_Interval
  <2>2. V \subseteq ReceiverIds
    BY <1>2, <1>15, Zenon DEF Detail
  <2>3. IsFiniteSet(V)
    BY <2>2, IdsOfReceivers, FS_Subset
  <2> QED
    <3>1. DOMAIN share = V
      BY <1>5, <1>15
    <3>2. \A i \in S : q[i] \in V
      BY <1>2, <1>15
    <3>3. \A i \in S : sh[i] \in Int
      BY <1>11, <1>15
    <3> QED
      BY <2>1, <2>2, <2>3, <3>1, <3>2, <3>3
<1>17. ASSUME NEW r \in V PROVE share[r] = SumFunctionOnSet(sh, Fiber(S, q, r)) /\ share[r] \in Nat
  <2>1. PICK i \in S : rows[i].receiver = r
    BY <1>2, <1>15
  <2>2. PICK k : k = CHOOSE j \in DOMAIN rows : rows[j].receiver = r
    OBVIOUS
  <2>3. k \in S /\ rows[k].receiver = r
    BY <1>2, <1>15, <2>1, <2>2
  <2>4. Fiber(S, q, r) = {k}
    <3>1. \A j \in S : rows[j].receiver = r => j = k
      BY <1>2, <1>15, <2>3 DEF OneRowEach
    <3> QED
      BY <1>15, <2>3, <3>1 DEF Fiber
  <2>5. share[r] = sh[k]
    BY <1>5, <1>15, <2>2
  <2>6. sh[k] \in Nat
    BY <1>11, <1>15, <2>3
  <2>7. SumFunctionOnSet(sh, {k}) = sh[k]
    BY <2>6, SumSingle
  <2> QED
    BY <2>4, <2>5, <2>6, <2>7
<1>18. SumFunctionOnSet(share, V) = SumFunctionOnSet(sh, S)
  <2>1. \A r \in V : share[r] = SumFunctionOnSet(sh, Fiber(S, q, r))
    BY <1>17
  <2> QED
    BY ONLY <1>16, <2>1, SumFibers
<1>19. Sum(share) = C
  BY <1>14, <1>15, <1>16, <1>18 DEF Sum, SumFunction
<1>20. share \in [DOMAIN share -> Nat]
  BY <1>5, <1>16, <1>17
<1> QED
  BY <1>1, <1>16, <1>19, <1>20

\* The elements of a finite set of naturals by rank: each once.
LEMMA RankedElements ==
  ASSUME NEW S \in SUBSET Nat, IsFiniteSet(S)
  PROVE  LET n == Cardinality(S) IN
         /\ n \in Nat
         /\ \A k \in 1..n : Ranked(S, k) \in S
         /\ \A k, l \in 1..n : Ranked(S, k) = Ranked(S, l) => k = l
         /\ \A i \in S : \E k \in 1..n : Ranked(S, k) = i
<1>1. PICK n, rank : n = Cardinality(S) /\ rank = [i \in S |-> Cardinality({j \in S : j < i})]
  OBVIOUS
<1>2. n \in Nat
  BY <1>1, FS_CardinalityType
<1>3. ASSUME NEW i \in S PROVE rank[i] \in 0..(n - 1)
  <2>1. {j \in S : j < i} \in SUBSET (S \ {i})
    OBVIOUS
  <2>2. IsFiniteSet(S \ {i}) /\ Cardinality(S \ {i}) = n - 1
    BY <1>1, FS_RemoveElement
  <2>3. IsFiniteSet({j \in S : j < i}) /\ Cardinality({j \in S : j < i}) <= n - 1
    BY <2>1, <2>2, FS_Subset
  <2>4. Cardinality({j \in S : j < i}) \in Nat
    BY <2>3, FS_CardinalityType
  <2> QED
    BY <1>1, <1>2, <2>3, <2>4
<1>4. ASSUME NEW i \in S, NEW l \in S, i < l PROVE rank[i] < rank[l]
  <2>1. PICK A, B : A = {j \in S : j < i} /\ B = {j \in S : j < l}
    OBVIOUS
  <2>2. A \in SUBSET S /\ B \in SUBSET S /\ i \notin A /\ A \cup {i} \in SUBSET B
    <3>1. \A j \in A : j \in B
      <4> SUFFICES ASSUME NEW j \in A PROVE j \in S /\ j < l
        BY <2>1
      <4>1. j \in Nat /\ i \in Nat /\ l \in Nat /\ j \in S /\ j < i
        BY <2>1
      <4> QED
        BY <1>4, <4>1
    <3>2. i \in B
      BY <1>4, <2>1
    <3>3. i \notin A
      <4>1. i \in Nat
        OBVIOUS
      <4> QED
        BY <2>1, <4>1
    <3> QED
      BY <2>1, <3>1, <3>2, <3>3
  <2>3. IsFiniteSet(A) /\ IsFiniteSet(B)
    BY <2>2, FS_Subset
  <2>4. IsFiniteSet(A \cup {i}) /\ Cardinality(A \cup {i}) = Cardinality(A) + 1
    BY <2>2, <2>3, FS_AddElement
  <2>5. Cardinality(A \cup {i}) <= Cardinality(B)
    BY <2>2, <2>3, FS_Subset
  <2>6. Cardinality(A) \in Nat /\ Cardinality(B) \in Nat
    BY <2>3, FS_CardinalityType
  <2>7. rank[i] = Cardinality(A) /\ rank[l] = Cardinality(B)
    BY <1>1, <2>1
  <2> QED
    BY <2>4, <2>5, <2>6, <2>7
<1>5. \A i, l \in S : rank[i] = rank[l] => i = l
  <2> SUFFICES ASSUME NEW i \in S, NEW l \in S, rank[i] = rank[l] PROVE i = l
    OBVIOUS
  <2>1. i \in Nat /\ l \in Nat /\ rank[i] \in Int /\ rank[l] \in Int
    BY <1>3
  <2>2. ~(i < l) /\ ~(l < i)
    BY <1>4, <2>1
  <2> QED
    BY <2>1, <2>2
<1>6. rank \in Surjection(S, 0..(n - 1))
  <2>1. PICK T : T = 0..(n - 1)
    OBVIOUS
  <2>2. IsFiniteSet(T) /\ Cardinality(T) = n
    <3>1. n - 1 \in Int /\ 0 \in Int
      BY <1>2
    <3>2. IsFiniteSet(0..(n - 1)) /\ Cardinality(0..(n - 1)) = IF 0 > n - 1 THEN 0 ELSE (n - 1) - 0 + 1
      BY <3>1, FS_Interval
    <3> QED
      BY <1>2, <2>1, <3>2
  <2>3. rank \in Injection(S, T)
    BY <1>1, <1>3, <1>5, <2>1 DEF Injection, IsInjective
  <2>4. Cardinality(S) = Cardinality(T)
    BY <1>1, <2>2
  <2>5. rank \in Surjection(S, T)
    BY <2>2, <2>3, <2>4, FS_Injection
  <2> QED
    BY <2>1, <2>5
<1>7. ASSUME NEW k \in 1..n PROVE Ranked(S, k) \in S /\ rank[Ranked(S, k)] = k - 1
  <2>1. k - 1 \in 0..(n - 1)
    BY <1>2
  <2>2. PICK i \in S : rank[i] = k - 1
    BY <1>6, <2>1 DEF Surjection
  <2>3. \A l \in S : rank[l] = Cardinality({j \in S : j < l})
    BY <1>1
  <2>4. Cardinality({j \in S : j < i}) = k - 1
    BY <2>2, <2>3
  <2>5. Ranked(S, k) \in S /\ Cardinality({j \in S : j < Ranked(S, k)}) = k - 1
    BY <2>4 DEF Ranked
  <2> QED
    BY <2>3, <2>5
<1>8. ASSUME NEW k \in 1..n, NEW l \in 1..n, Ranked(S, k) = Ranked(S, l) PROVE k = l
  <2>1. k - 1 = l - 1
    BY <1>7, <1>8
  <2> QED
    BY <1>2, <2>1
<1>9. ASSUME NEW i \in S PROVE \E k \in 1..n : Ranked(S, k) = i
  <2>1. PICK k : k = rank[i] + 1
    OBVIOUS
  <2>2. k \in 1..n /\ rank[i] = k - 1
    BY <1>2, <1>3, <2>1
  <2>3. Ranked(S, k) \in S /\ rank[Ranked(S, k)] = k - 1
    BY <1>7, <2>2
  <2> QED
    BY <1>5, <2>2, <2>3
<1>10. (\A k \in 1..n : Ranked(S, k) \in S) /\ (\A k, l \in 1..n : Ranked(S, k) = Ranked(S, l) => k = l)
       /\ (\A i \in S : \E k \in 1..n : Ranked(S, k) = i)
  BY <1>7, <1>8, <1>9
<1> QED
  BY <1>1, <1>2, <1>10

\* What is recorded for an id.
Recorded(rows, r) == Sum([i \in DetailRow(rows, r) |-> rows[i].reward])

\* One row records its reward, and no row nothing.
LEMMA RecordedInOne ==
  ASSUME NEW rows, NEW r
  PROVE  /\ DetailRow(rows, r) = {} => Recorded(rows, r) = 0
         /\ \A i : DetailRow(rows, r) = {i} /\ rows[i].reward \in Int => Recorded(rows, r) = rows[i].reward
<1>1. PICK D, f : D = DetailRow(rows, r) /\ f = [i \in D |-> rows[i].reward]
  OBVIOUS
<1>2. Recorded(rows, r) = SumFunctionOnSet(f, D)
  BY <1>1 DEF Recorded, Sum, SumFunction
<1>3. D = {} => SumFunctionOnSet(f, D) = 0
  BY SumEmpty
<1>4. ASSUME NEW i, D = {i}, rows[i].reward \in Int PROVE SumFunctionOnSet(f, D) = rows[i].reward
  <2>1. f[i] = rows[i].reward /\ f[i] \in Int
    BY <1>1, <1>4
  <2>2. SumFunctionOnSet(f, {i}) = f[i]
    BY <2>1, SumSingle
  <2> QED
    BY <1>4, <2>1, <2>2
<1> QED
  BY <1>1, <1>2, <1>3, <1>4

\* The rewards of a window are added to the rows: each id has one row at most and
\* the rewards of its receivers are recorded.
LEMMA AccumulatedRows ==
  ASSUME NEW rows \in Seq(Detail), OneRowEach(rows), NEW reward \in [Receivers -> Nat]
  PROVE  LET a == Accumulated(rows, reward) IN
         /\ a \in Seq(Detail) /\ OneRowEach(a)
         /\ rows # << >> \/ (\E r \in Receivers : reward[r] > 0) => a # << >>
         /\ \A x \in ReceiverIds : Recorded(a, x) = Recorded(rows, x) + ById(reward, x)
<1> DEFINE idD(i) == receiver_id(ReceiverOrder[i])
           newD == {i \in DOMAIN ReceiverOrder :
                      /\ reward[ReceiverOrder[i]] > 0 /\ DetailRow(rows, idD(i)) = {}
                      /\ \A j \in 1..(i - 1) : reward[ReceiverOrder[j]] > 0 => idD(j) # idD(i)}
           oldD == [i \in DOMAIN rows |-> [rows[i] EXCEPT !.reward = @ + ById(reward, rows[i].receiver)]]
           addD == [k \in 1..Cardinality(newD) |-> [receiver |-> idD(Ranked(newD, k)),
                                                     reward |-> ById(reward, idD(Ranked(newD, k)))]]
<1>1. Accumulated(rows, reward) = oldD \o addD
  BY DEF Accumulated
<1>2. PICK a, new, old, add : a = Accumulated(rows, reward) /\ new = newD /\ old = oldD /\ add = addD
  OBVIOUS
<1>3. PICK m, n, R, id, b : /\ m = Len(rows) /\ n = Cardinality(new) /\ R = (DOMAIN ReceiverOrder)
                            /\ id = [i \in DOMAIN ReceiverOrder |-> receiver_id(ReceiverOrder[i])]
                            /\ b = [x \in ReceiverIds |-> ById(reward, x)]
  OBVIOUS
<1>4. /\ ReceiverOrder \in [R -> Receivers] /\ R = 1..Len(ReceiverOrder) /\ Len(ReceiverOrder) \in Nat
      /\ (\A r \in Receivers : \E i \in R : ReceiverOrder[i] = r)
      /\ \A i \in R : id[i] = receiver_id(ReceiverOrder[i]) /\ id[i] \in ReceiverIds
                      /\ ReceiverOrder[i] \in Receivers /\ reward[ReceiverOrder[i]] \in Nat
  <2>1. ReceiverOrder \in [R -> Receivers] /\ R = 1..Len(ReceiverOrder) /\ Len(ReceiverOrder) \in Nat
        /\ (\A r \in Receivers : \E i \in R : ReceiverOrder[i] = r)
    BY <1>3, GasFundAssumption DEF Range
  <2> QED
    BY <1>3, <2>1, IdsOfReceivers
<1>4a. /\ \A x \in ReceiverIds : b[x] = ById(reward, x) /\ b[x] \in Nat
       /\ \A x \in ReceiverIds : b[x] > 0 => \E r \in Sharing(x) : reward[r] > 0
  BY <1>3, RewardsById
<1>4b. \A i \in R : b[id[i]] \in Nat /\ reward[ReceiverOrder[i]] <= b[id[i]] /\ b[id[i]] = ById(reward, id[i])
  <2> SUFFICES ASSUME NEW i \in R
               PROVE  b[id[i]] \in Nat /\ reward[ReceiverOrder[i]] <= b[id[i]] /\ b[id[i]] = ById(reward, id[i])
    OBVIOUS
  <2>1. PICK x, r : x = id[i] /\ r = ReceiverOrder[i]
    OBVIOUS
  <2>2. x \in ReceiverIds /\ r \in Sharing(x)
    BY <1>4, <2>1, IdsOfReceivers
  <2>3. reward[r] <= ById(reward, x)
    BY <2>2, RewardsById
  <2>4. b[x] = ById(reward, x) /\ b[x] \in Nat
    BY <1>4a, <2>2
  <2> QED
    BY <2>1, <2>3, <2>4
<1>5. m \in Nat /\ DOMAIN rows = 1..m /\ \A i \in 1..m : rows[i] \in Detail
  BY <1>3
<1>6. /\ \A i \in R : i \in new <=> /\ reward[ReceiverOrder[i]] > 0 /\ DetailRow(rows, id[i]) = {}
                                   /\ \A j \in 1..(i - 1) : reward[ReceiverOrder[j]] > 0 => id[j] # id[i]
      /\ new \in SUBSET R
  <2>1. \A i \in R : idD(i) = id[i] /\ \A j \in 1..(i - 1) : j \in R
    BY <1>3, <1>4
  <2>2. \A i \in R : (\A j \in 1..(i - 1) : reward[ReceiverOrder[j]] > 0 => idD(j) # idD(i))
                       <=> \A j \in 1..(i - 1) : reward[ReceiverOrder[j]] > 0 => id[j] # id[i]
    BY <2>1
  <2>3. \A i \in R : i \in new <=> /\ reward[ReceiverOrder[i]] > 0 /\ DetailRow(rows, idD(i)) = {}
                                  /\ \A j \in 1..(i - 1) : reward[ReceiverOrder[j]] > 0 => idD(j) # idD(i)
    <3> HIDE DEF idD
    <3> QED
      BY <1>2, <1>3
  <2>4. new \in SUBSET R
    BY <1>2, <1>3
  <2> QED
    BY <2>1, <2>2, <2>3, <2>4
<1>7. DOMAIN old = 1..m /\ \A i \in 1..m : /\ old[i] = [receiver |-> rows[i].receiver, reward |-> rows[i].reward + b[rows[i].receiver]]
                                           /\ rows[i].receiver \in ReceiverIds /\ b[rows[i].receiver] \in Nat
  <2>1. \A i \in 1..m : rows[i].receiver \in ReceiverIds
    BY <1>5 DEF Detail
  <2>2. DOMAIN old = 1..m /\ \A i \in 1..m : old[i] = [rows[i] EXCEPT !.reward = rows[i].reward + ById(reward, rows[i].receiver)]
    BY <1>2, <1>5
  <2>3. ASSUME NEW i \in 1..m
        PROVE  old[i] = [receiver |-> rows[i].receiver, reward |-> rows[i].reward + b[rows[i].receiver]]
               /\ b[rows[i].receiver] \in Nat
    <3>1. PICK d, x : d = rows[i] /\ x = d.receiver
      OBVIOUS
    <3>2. d \in [receiver : ReceiverIds, reward : Nat]
      BY <1>5, <3>1 DEF Detail
    <3>3. b[x] = ById(reward, x) /\ b[x] \in Nat
      BY <1>4a, <3>1, <3>2
    <3>4. old[i] = [d EXCEPT !.reward = d.reward + b[x]]
      BY <2>2, <3>1, <3>3
    <3> QED
      BY <3>1, <3>2, <3>3, <3>4
  <2> QED
    BY <2>1, <2>2, <2>3
<1>8. DOMAIN add = 1..n /\ \A k \in 1..n : add[k] = [receiver |-> idD(Ranked(new, k)), reward |-> ById(reward, idD(Ranked(new, k)))]
  <2> HIDE DEF newD, idD
  <2> QED
    BY <1>2, <1>3
<1>9. a = old \o add
  <2> HIDE DEF oldD, addD
  <2> QED
    BY <1>1, <1>2
<1>8a. \A i \in R : idD(i) = id[i]
  BY <1>3
<1> HIDE DEF idD, newD, oldD, addD
<1>10. IsFiniteSet(new) /\ new \in SUBSET Nat
  <2>1. IsFiniteSet(R)
    <3>1. Len(ReceiverOrder) \in Int
      BY <1>4
    <3> QED
      BY <1>4, <3>1, FS_Interval
  <2>2. R \in SUBSET Nat
    BY <1>4
  <2> QED
    BY <1>6, <2>1, <2>2, FS_Subset
<1>11. /\ n \in Nat
       /\ \A k \in 1..n : Ranked(new, k) \in new
       /\ \A k, l \in 1..n : Ranked(new, k) = Ranked(new, l) => k = l
       /\ \A i \in new : \E k \in 1..n : Ranked(new, k) = i
  <2>1. n = Cardinality(new)
    BY <1>3
  <2> QED
    BY ONLY <1>10, <2>1, RankedElements
<1>12. old \in Seq(Detail) /\ Len(old) = m
  <2>1. \A i \in 1..m : old[i] \in Detail
    <3> SUFFICES ASSUME NEW i \in 1..m PROVE old[i] \in Detail
      OBVIOUS
    <3>1. PICK x, y : x = rows[i].receiver /\ y = rows[i].reward + b[x]
      OBVIOUS
    <3>2. old[i] = [receiver |-> x, reward |-> y] /\ x \in ReceiverIds /\ b[x] \in Nat
      BY <1>7, <3>1
    <3>3. rows[i].reward \in Nat
      BY <1>5 DEF Detail
    <3> QED
      BY <3>1, <3>2, <3>3 DEF Detail
  <2>2. old \in [1..m -> Detail]
    BY <1>2, <1>7, <2>1 DEF oldD
  <2> QED
    BY <1>5, <2>2
<1>13. add \in Seq(Detail) /\ Len(add) = n
  <2>1. \A k \in 1..n : add[k] \in Detail
    <3> SUFFICES ASSUME NEW k \in 1..n PROVE add[k] \in Detail
      OBVIOUS
    <3>1. PICK i \in R : i = Ranked(new, k)
      BY <1>6, <1>11
    <3>2. add[k] = [receiver |-> id[i], reward |-> b[id[i]]]
      BY <1>4b, <1>8, <1>8a, <3>1
    <3> QED
      BY <1>4, <1>4b, <3>2 DEF Detail
  <2>2. add \in [1..n -> Detail]
    BY <1>2, <1>8, <2>1 DEF addD
  <2> QED
    BY <1>11, <2>2
<1>14. /\ a \in Seq(Detail) /\ Len(a) = m + n /\ DOMAIN a = 1..(m + n)
       /\ (\A i \in 1..m : a[i] = old[i]) /\ \A k \in 1..n : a[m + k] = add[k]
  <2>1. a \in Seq(Detail) /\ Len(a) = m + n
    <3>1. PICK D : D = Detail
      OBVIOUS
    <3>2. old \in Seq(D) /\ add \in Seq(D)
      BY <1>12, <1>13, <3>1
    <3>3. old \o add \in Seq(D) /\ Len(old \o add) = Len(old) + Len(add)
      BY ONLY <3>2
    <3> QED
      BY <1>9, <1>12, <1>13, <3>1, <3>3
  <2>2. DOMAIN a = 1..(m + n)
    BY <2>1
  <2>3. \A i \in 1..(m + n) : a[i] = IF i <= m THEN old[i] ELSE add[i - m]
    BY <1>9, <1>12, <1>13
  <2>4. \A i \in 1..m : a[i] = old[i]
    BY <1>5, <1>11, <2>3
  <2>5. ASSUME NEW k \in 1..n PROVE a[m + k] = add[k]
    <3>1. m + k \in 1..(m + n) /\ ~(m + k <= m) /\ (m + k) - m = k
      BY <1>5, <1>11
    <3> QED
      BY <2>3, <3>1
  <2> QED
    BY <2>1, <2>2, <2>4, <2>5
<1>15. \A i \in 1..m : a[i].receiver = rows[i].receiver /\ a[i].reward = rows[i].reward + b[rows[i].receiver]
  BY <1>7, <1>14
<1>16. ASSUME NEW k \in 1..n
       PROVE  \E i \in new : i = Ranked(new, k) /\ a[m + k].receiver = id[i] /\ a[m + k].reward = b[id[i]]
  <2>1. PICK i \in new : i = Ranked(new, k)
    BY <1>11
  <2>2. i \in R
    BY <1>6
  <2>3. add[k] = [receiver |-> id[i], reward |-> b[id[i]]]
    BY <1>4b, <1>8, <1>8a, <2>1, <2>2
  <2> QED
    BY <1>14, <2>1, <2>3
<1>17. \A i \in 1..(m + n) : i \in 1..m \/ \E k \in 1..n : i = m + k
  <2> SUFFICES ASSUME NEW i \in 1..(m + n), i \notin 1..m PROVE \E k \in 1..n : i = m + k
    OBVIOUS
  <2>1. i - m \in 1..n /\ i = m + (i - m)
    BY <1>5, <1>11
  <2> QED
    BY <2>1
<1>18. ASSUME NEW i \in 1..m, NEW k \in 1..n PROVE a[i].receiver # a[m + k].receiver
  <2>1. PICK l \in new : a[m + k].receiver = id[l]
    BY <1>16
  <2>2. DetailRow(rows, id[l]) = {}
    BY <1>6
  <2>3. rows[i].receiver # id[l]
    BY <1>5, <2>2 DEF DetailRow
  <2> QED
    BY <1>15, <2>1, <2>3
<1>19. ASSUME NEW k \in 1..n, NEW l \in 1..n, a[m + k].receiver = a[m + l].receiver PROVE k = l
  <2>1. PICK i \in new : i = Ranked(new, k) /\ a[m + k].receiver = id[i]
    BY <1>16
  <2>2. PICK j \in new : j = Ranked(new, l) /\ a[m + l].receiver = id[j]
    BY <1>16
  <2>3. id[i] = id[j]
    BY <1>19, <2>1, <2>2
  <2>4. i \in R /\ j \in R /\ reward[ReceiverOrder[i]] > 0 /\ reward[ReceiverOrder[j]] > 0
    BY <1>6
  <2>5. i \notin 1..(j - 1) /\ j \notin 1..(i - 1)
    BY <1>6, <2>3, <2>4
  <2>6. i = j
    BY <1>4, <2>4, <2>5
  <2> QED
    BY <1>11, <2>1, <2>2, <2>6
<1>20. OneRowEach(a)
  <2> SUFFICES ASSUME NEW i \in 1..(m + n), NEW j \in 1..(m + n), a[i].receiver = a[j].receiver PROVE i = j
    BY <1>14 DEF OneRowEach
  <2>1. CASE i \in 1..m /\ j \in 1..m
    <3>1. rows[i].receiver = rows[j].receiver
      BY <1>15, <2>1
    <3> QED
      BY <1>5, <2>1, <3>1 DEF OneRowEach
  <2>2. CASE i \in 1..m /\ j \notin 1..m
    <3>1. PICK l \in 1..n : j = m + l
      BY <1>17, <2>2
    <3> QED
      BY <1>18, <2>2, <3>1
  <2>3. CASE i \notin 1..m /\ j \in 1..m
    <3>1. PICK k \in 1..n : i = m + k
      BY <1>17, <2>3
    <3> QED
      BY <1>18, <2>3, <3>1
  <2>4. CASE i \notin 1..m /\ j \notin 1..m
    <3>1. PICK k \in 1..n, l \in 1..n : i = m + k /\ j = m + l
      BY <1>17, <2>4
    <3> QED
      BY <1>19, <3>1
  <2> QED
    BY <2>1, <2>2, <2>3, <2>4
<1>21. ASSUME NEW x \in ReceiverIds, b[x] > 0, DetailRow(rows, x) = {}
       PROVE  \E k \in 1..n : a[m + k].receiver = x /\ a[m + k].reward = b[x]
  <2>1. PICK J : J = {i \in R : id[i] = x /\ reward[ReceiverOrder[i]] > 0}
    OBVIOUS
  <2>2. J # {} /\ J \in SUBSET Nat
    <3>1. PICK r \in Sharing(x) : reward[r] > 0
      BY <1>4a, <1>21
    <3>2. r \in Receivers /\ receiver_id(r) = x
      BY IdsOfReceivers
    <3>3. PICK i \in R : ReceiverOrder[i] = r
      BY <1>4, <3>2
    <3>4. i \in J
      BY <1>4, <2>1, <3>1, <3>2, <3>3
    <3>5. J \in SUBSET Nat
      BY <1>4, <2>1
    <3> QED
      BY <3>4, <3>5
  <2>3. PICK i \in J : \A j \in J : i <= j
    BY <2>2, MinIsLeast
  <2>4. i \in R /\ id[i] = x /\ reward[ReceiverOrder[i]] > 0
    BY <2>1
  <2>5. i \in new
    <3>1. ASSUME NEW j \in 1..(i - 1), reward[ReceiverOrder[j]] > 0 PROVE id[j] # id[i]
      <4>1. j \in R /\ ~(i <= j)
        BY <1>4, <2>4
      <4> QED
        BY <2>1, <2>3, <2>4, <3>1, <4>1
    <3> QED
      BY <1>6, <1>21, <2>4, <3>1
  <2>6. PICK k \in 1..n : Ranked(new, k) = i
    BY <1>11, <2>5
  <2>7. PICK l \in new : l = Ranked(new, k) /\ a[m + k].receiver = id[l] /\ a[m + k].reward = b[id[l]]
    BY <1>16
  <2>8. l = i
    BY <2>6, <2>7
  <2> QED
    BY <2>4, <2>7, <2>8
<1>22. ASSUME NEW x \in ReceiverIds PROVE Recorded(a, x) = Recorded(rows, x) + ById(reward, x)
  <2>0. b[x] \in Nat /\ b[x] = ById(reward, x)
    BY <1>4a
  <2>2. CASE DetailRow(rows, x) # {}
    <3>1. PICK i \in 1..m : rows[i].receiver = x
      BY <1>5, <2>2 DEF DetailRow
    <3>2. DetailRow(rows, x) = {i}
      BY <1>5, <3>1 DEF DetailRow, OneRowEach
    <3>3. i \in DOMAIN a /\ a[i].receiver = x /\ a[i].reward = rows[i].reward + b[x]
      BY <1>5, <1>11, <1>14, <1>15, <3>1
    <3>4. DetailRow(a, x) = {i}
      BY <1>20, <3>3 DEF DetailRow, OneRowEach
    <3>5. rows[i].reward \in Nat /\ a[i].reward \in Int
      BY <1>5, <2>0, <3>3 DEF Detail
    <3> QED
      BY <2>0, <3>2, <3>3, <3>4, <3>5, RecordedInOne
  <2>3. CASE DetailRow(rows, x) = {} /\ b[x] = 0
    <3>1. \A i \in 1..(m + n) : a[i].receiver # x
      <4> SUFFICES ASSUME NEW i \in 1..(m + n) PROVE a[i].receiver # x
        OBVIOUS
      <4>1. CASE i \in 1..m
        BY <1>5, <1>15, <2>3, <4>1 DEF DetailRow
      <4>2. CASE i \notin 1..m
        <5>1. PICK k \in 1..n : i = m + k
          BY <1>17, <4>2
        <5>2. PICK l \in new : a[m + k].receiver = id[l]
          BY <1>16
        <5>3. l \in R /\ reward[ReceiverOrder[l]] > 0
          BY <1>6
        <5>4. reward[ReceiverOrder[l]] \in Nat /\ b[id[l]] \in Nat /\ reward[ReceiverOrder[l]] <= b[id[l]]
          BY <1>4, <1>4b, <5>3
        <5>5. b[id[l]] # 0
          BY <5>3, <5>4
        <5> QED
          BY <2>3, <5>1, <5>2, <5>5
      <4> QED
        BY <4>1, <4>2
    <3>2. DetailRow(a, x) = {}
      BY <1>14, <3>1 DEF DetailRow
    <3> QED
      BY <2>0, <2>3, <3>2, RecordedInOne
  <2>4. CASE DetailRow(rows, x) = {} /\ b[x] # 0
    <3>1. PICK k \in 1..n : a[m + k].receiver = x /\ a[m + k].reward = b[x]
      BY <1>21, <2>0, <2>4
    <3>2. m + k \in DOMAIN a
      BY <1>5, <1>11, <1>14
    <3>3. DetailRow(a, x) = {m + k}
      BY <1>20, <3>1, <3>2 DEF DetailRow, OneRowEach
    <3> QED
      BY <2>0, <2>4, <3>1, <3>3, RecordedInOne
  <2> QED
    BY <2>2, <2>3, <2>4
<1>23. rows # << >> \/ (\E r \in Receivers : reward[r] > 0) => a # << >>
  <2>1. CASE rows # << >>
    <3>1. m > 0
      BY <1>3, <1>5, <2>1
    <3> QED
      BY <1>5, <1>11, <1>14, <3>1
  <2>2. ASSUME NEW r \in Receivers, reward[r] > 0, rows = << >> PROVE a # << >>
    <3>1. PICK i \in R : ReceiverOrder[i] = r
      BY <1>4
    <3>2. b[id[i]] > 0 /\ id[i] \in ReceiverIds
      BY <1>4, <1>4b, <2>2, <3>1
    <3>3. DetailRow(rows, id[i]) = {}
      BY <2>2 DEF DetailRow
    <3>4. PICK k \in 1..n : a[m + k].receiver = id[i]
      BY <1>21, <3>2, <3>3
    <3> QED
      BY <1>5, <1>11, <1>14, <3>4
  <2> QED
    BY <2>1, <2>2
<1> QED
  BY <1>2, <1>14, <1>20, <1>22, <1>23

\* A fee is divided without a remainder.
LEMMA FeeDivided ==
  ASSUME gas_config \in GasConfigs, NEW fee \in Nat
  PROVE  /\ EnfPart(fee) \in Nat /\ RamsPart(fee) \in Nat /\ ConsensusPart(fee) \in Nat
         /\ EnfPart(fee) + RamsPart(fee) + ConsensusPart(fee) = fee
<1>1. PICK R, a, b : R = RATE_BASE_10000 /\ a = gas_config.enf_rate /\ b = gas_config.rams_rate
  OBVIOUS
<1>2. R \in Nat \ {0} /\ a \in Nat /\ b \in Nat /\ a + b <= R
  BY <1>1, GasFundAssumption
<1>3. PICK x, y, f, g : x = fee * a /\ y = fee * b /\ f = x \div R /\ g = y \div R
  OBVIOUS
<1>4. x \in Nat /\ y \in Nat
  BY <1>2, <1>3
<1>5. f \in Nat /\ R * f <= x /\ g \in Nat /\ R * g <= y
  BY <1>2, <1>3, <1>4, DivNear
<1>6. R * (f + g) <= R * fee
  <2>1. R * (f + g) = R * f + R * g
    BY ONLY <1>2, <1>5
  <2>2. x + y = fee * (a + b)
    BY ONLY <1>2, <1>3, fee \in Nat
  <2>3. \A k \in Nat : k <= R => fee * k <= R * fee
    BY ONLY <1>2, fee \in Nat
  <2>4. fee * (a + b) <= R * fee
    BY <1>2, <2>3
  <2>5. PICK p, q, w : p = R * f /\ q = R * g /\ w = R * fee
    OBVIOUS
  <2>6. p \in Int /\ q \in Int /\ w \in Int
    BY <1>2, <1>5, <2>5
  <2>7. p <= x /\ q <= y /\ x + y <= w
    BY <1>5, <2>2, <2>4, <2>5
  <2>8. p + q <= w
    BY ONLY <1>4, <2>6, <2>7
  <2> QED
    BY <2>1, <2>5, <2>8
<1>7. f + g <= fee
  <2>1. f + g \in Int /\ fee \in Int
    BY <1>5
  <2> QED
    BY ONLY <1>2, <1>6, <2>1, FactorCancels
<1>8. EnfPart(fee) = f /\ RamsPart(fee) = g
  BY <1>1, <1>3 DEF EnfPart, RamsPart, safe_pct
<1>9. ConsensusPart(fee) = fee - f - g
  BY <1>8 DEF ConsensusPart
<1> QED
  BY <1>5, <1>7, <1>8, <1>9

\* The fees of some heights are divided without a remainder.
LEMMA FeesDivided ==
  ASSUME ResourceTypeOK, gas_config \in GasConfigs, NEW H \in SUBSET DOMAIN feestat
  PROVE  LET e == Sum([h \in H |-> EnfPart(feestat[h])])
             r == Sum([h \in H |-> RamsPart(feestat[h])])
             c == Sum([h \in H |-> ConsensusPart(feestat[h])]) IN
         /\ e \in Nat /\ r \in Nat /\ c \in Nat
         /\ Sum(Restrict(feestat, H)) = e + r + c
<1>1. PICK f, e, r, c, s : /\ f = Restrict(feestat, H) /\ e = [h \in H |-> EnfPart(feestat[h])]
                           /\ r = [h \in H |-> RamsPart(feestat[h])] /\ c = [h \in H |-> ConsensusPart(feestat[h])]
                           /\ s = [h \in H |-> e[h] + r[h]]
  OBVIOUS
<1>2. IsFiniteSet(H)
  BY FS_Subset DEF ResourceTypeOK
<1>3. ASSUME NEW h \in H
      PROVE  /\ f[h] = feestat[h] /\ e[h] \in Nat /\ r[h] \in Nat /\ c[h] \in Nat
             /\ f[h] = s[h] + c[h] /\ s[h] = e[h] + r[h] /\ s[h] \in Nat
  <2>1. feestat[h] \in Nat /\ f[h] = feestat[h]
    BY <1>1 DEF ResourceTypeOK, Restrict
  <2>2. /\ EnfPart(feestat[h]) \in Nat /\ RamsPart(feestat[h]) \in Nat /\ ConsensusPart(feestat[h]) \in Nat
        /\ EnfPart(feestat[h]) + RamsPart(feestat[h]) + ConsensusPart(feestat[h]) = feestat[h]
    BY <2>1, FeeDivided
  <2>3. e[h] = EnfPart(feestat[h]) /\ r[h] = RamsPart(feestat[h]) /\ c[h] = ConsensusPart(feestat[h])
        /\ s[h] = e[h] + r[h]
    BY <1>1
  <2> QED
    BY <2>1, <2>2, <2>3
<1>4. SumFunctionOnSet(s, H) = SumFunctionOnSet(e, H) + SumFunctionOnSet(r, H)
  <2>1. \A h \in H : e[h] \in Int /\ r[h] \in Int /\ s[h] = e[h] + r[h]
    BY <1>3
  <2> QED
    BY <1>2, <2>1, SumAdd
<1>5. SumFunctionOnSet(f, H) = SumFunctionOnSet(s, H) + SumFunctionOnSet(c, H)
  <2>1. \A h \in H : s[h] \in Int /\ c[h] \in Int /\ f[h] = s[h] + c[h]
    BY <1>3
  <2> QED
    BY <1>2, <2>1, SumAdd
<1>6. SumFunctionOnSet(e, H) \in Nat /\ SumFunctionOnSet(r, H) \in Nat /\ SumFunctionOnSet(c, H) \in Nat
  BY <1>2, <1>3, SumBound
<1>7. Sum(e) = SumFunctionOnSet(e, H) /\ Sum(r) = SumFunctionOnSet(r, H) /\ Sum(c) = SumFunctionOnSet(c, H)
  BY <1>1 DEF Sum, SumFunction
<1>8. Sum(f) = SumFunctionOnSet(f, H)
  <2>1. DOMAIN f = H
    BY <1>1 DEF Restrict
  <2> QED
    BY <2>1 DEF Sum, SumFunction
<1> QED
  BY <1>1, <1>4, <1>5, <1>6, <1>7, <1>8

\* The fees above a height contain those of any heights above it, and the more of
\* them the lower it is.
LEMMA FeesOfHeights ==
  ASSUME ResourceTypeOK, NEW last \in Nat, NEW top \in Nat, last <= top,
         NEW H \in SUBSET DOMAIN feestat, \A h \in H : last < h /\ h <= top
  PROVE  /\ Sum(Restrict(feestat, H)) \in Nat /\ FeesAbove(feestat, top) \in Nat /\ FeesAbove(feestat, last) \in Nat
         /\ FeesAbove(feestat, last) >= Sum(Restrict(feestat, H)) + FeesAbove(feestat, top)
<1>1. PICK A, B, f : A = {h \in DOMAIN feestat : h > last} /\ B = {h \in DOMAIN feestat : h > top} /\ f = feestat
  OBVIOUS
<1>2. IsFiniteSet(DOMAIN f) /\ f \in [DOMAIN f -> Nat] /\ DOMAIN f \subseteq Nat
  BY <1>1 DEF ResourceTypeOK
<1>3. H \in SUBSET A /\ B \in SUBSET A /\ H \cap B = {} /\ A \in SUBSET DOMAIN f
  <2>1. H \in SUBSET A
    BY <1>1, <1>2
  <2>2. ASSUME NEW h \in B PROVE h \in A
    <3>1. h \in Nat /\ h > top /\ h \in DOMAIN feestat
      BY <1>1, <1>2
    <3> QED
      BY <1>1, <3>1
  <2>3. ASSUME NEW h \in B, h \in H PROVE FALSE
    <3>1. h \in Nat /\ h > top /\ h <= top
      BY <1>1, <1>2, <2>3
    <3> QED
      BY <3>1
  <2> QED
    BY <1>1, <2>1, <2>2, <2>3
<1>4. ASSUME NEW S \in SUBSET A
      PROVE  /\ IsFiniteSet(S) /\ (\A h \in S : f[h] \in Nat) /\ SumFunctionOnSet(f, S) \in Nat
             /\ Sum(Restrict(f, S)) = SumFunctionOnSet(f, S)
  <2>1. IsFiniteSet(S) /\ \A h \in S : f[h] \in Nat
    BY <1>2, <1>3, FS_Subset
  <2>2. SumFunctionOnSet(f, S) \in Nat
    BY <2>1, SumBound
  <2>3. PICK g : g = Restrict(f, S)
    OBVIOUS
  <2>4. DOMAIN g = S /\ \A h \in S : f[h] \in Int /\ g[h] = f[h]
    BY <2>1, <2>3 DEF Restrict
  <2>5. SumFunctionOnSet(g, S) = SumFunctionOnSet(f, S)
    BY <2>1, <2>4, SumEqual
  <2> QED
    BY <2>1, <2>2, <2>3, <2>4, <2>5 DEF Sum, SumFunction
<1>5. PICK C, U : C = A \ (H \cup B) /\ U = H \cup B
  OBVIOUS
<1>6. SumFunctionOnSet(f, U) = SumFunctionOnSet(f, H) + SumFunctionOnSet(f, B)
  <2>1. IsFiniteSet(H) /\ IsFiniteSet(B) /\ \A h \in H \cup B : f[h] \in Int
    BY <1>3, <1>4
  <2>2. B \cap H = {} /\ \A h \in B \cup H : f[h] \in Int
    BY <1>3, <2>1
  <2> QED
    BY <1>3, <1>5, <2>1, <2>2, SumUnion
<1>7. SumFunctionOnSet(f, A) = SumFunctionOnSet(f, U) + SumFunctionOnSet(f, C)
  <2>1. U \in SUBSET A /\ C \in SUBSET A /\ U \cup C = A /\ U \cap C = {}
    BY <1>3, <1>5
  <2>2. IsFiniteSet(U) /\ IsFiniteSet(C) /\ \A h \in U \cup C : f[h] \in Int
    BY <1>4, <2>1
  <2> QED
    BY <2>1, <2>2, SumUnion
<1>8. SumFunctionOnSet(f, C) \in Nat /\ SumFunctionOnSet(f, H) \in Nat /\ SumFunctionOnSet(f, B) \in Nat
  BY <1>3, <1>4, <1>5
<1>9. /\ FeesAbove(feestat, last) = SumFunctionOnSet(f, A) /\ FeesAbove(feestat, top) = SumFunctionOnSet(f, B)
      /\ Sum(Restrict(feestat, H)) = SumFunctionOnSet(f, H)
  BY <1>1, <1>3, <1>4 DEF FeesAbove
<1> QED
  BY <1>6, <1>7, <1>8, <1>9

\* Of each migrated height a log was left.
LogsHeld ==
  /\ irreversible_height \in Nat
  /\ migrating \in [synchronizer : Pools, parser : Pools]
  /\ DOMAIN reward_logs \subseteq 0..irreversible_height
  /\ reward_logs = [h \in DOMAIN reward_logs |-> reward_logs[h]]
  /\ \A h \in DOMAIN reward_logs : LogsOK(reward_logs[h])

\* What a configuration is expected to leave the BTC validators: there is a subsidy,
\* and no rates take all of it.
SubsidyIsStaked ==
  /\ 0 \notin Subsidies
  /\ \A r \in Rates : r.synchronizer + r.btc + r.xsat < RATE_BASE

\* Then the staking part of a subsidy, of which every validator that endorsed the
\* block has its share, is above zero.
StakingLogged ==
  SubsidyIsStaked =>
    /\ LogExists("btc") => reward_log["btc"].staking > 0
    /\ \A h \in DOMAIN reward_logs : reward_logs[h].btc.staking > 0

\* The record of an EVM window that has rows has a total to divide them by.
RecordsOK ==
  \A k \in DOMAIN details : k >= fees_stat.last_evm_height =>
    k \in DOMAIN distributes /\ distributes[k].total_rewards > 0 /\ OneRowEach(details[k])

\* The tables of the fund.
FundTypeOK ==
  /\ gas_config \in GasConfigs
  /\ fees_stat \in [last_height : Nat, last_evm_height : Nat,
                    enf_unclaimed : Nat, rams_unclaimed : Nat, consensus_unclaimed : Nat]
  /\ distributes \in [DOMAIN distributes -> [total_rewards : Nat, end_height : Nat]]
  /\ details \in [DOMAIN details -> Seq(Detail) \ {<< >>}] /\ DOMAIN details \subseteq Nat
  /\ consensus_fees \in [DOMAIN consensus_fees -> Int] /\ DOMAIN consensus_fees \subseteq ReceiverIds

\* The fund holds what it owes, and every transfer of the EVM finds its record.
GasInv ==
  /\ FundTypeOK
  /\ btc.gasfund = fees_stat.enf_unclaimed + fees_stat.rams_unclaimed + fees_stat.consensus_unclaimed
  /\ SubsidyIsStaked => fees_stat.consensus_unclaimed = Sum(consensus_fees)
  /\ fees_stat.last_height >= fees_stat.last_evm_height
  /\ RecordsOK

\* With it, the accounts and fees of rescmng.xsat.
FundInv ==
  /\ ResourceTypeOK /\ PrepaidHeld /\ GasInv
  /\ btc.fees >= FeesAbove(feestat, fees_stat.last_height)

\* The fees above a height are a natural.
LEMMA FeesAboveType ==
  ASSUME NEW stat, stat \in [DOMAIN stat -> Nat], IsFiniteSet(DOMAIN stat), NEW last
  PROVE  FeesAbove(stat, last) \in Nat
<1>1. PICK S, g : S = {h \in DOMAIN stat : h > last} /\ g = Restrict(stat, S)
  OBVIOUS
<1>2. S \in SUBSET DOMAIN stat
  BY <1>1
<1>3. IsFiniteSet(S) /\ DOMAIN g = S /\ \A h \in S : g[h] \in Nat
  BY <1>1, <1>2, FS_Subset DEF Restrict
<1>4. SumFunctionOnSet(g, S) \in Nat
  BY <1>3, SumBound
<1> QED
  BY <1>1, <1>3, <1>4 DEF FeesAbove, Sum, SumFunction

\* While the fund does nothing, it keeps what it has, whoever pays or deposits.
LEMMA FundKept ==
  ASSUME FundInv, ResourceKept(fees_stat.last_height), UNCHANGED gasVars
  PROVE  FundInv'
<1>1. UNCHANGED <<gas_config, fees_stat, distributes, details, consensus_fees>> /\ btc'.gasfund = btc.gasfund
      /\ ResourceTypeOK' /\ PrepaidHeld'
  BY DEF gasVars, ResourceKept
<1>2. GasInv'
  BY <1>1 DEF FundInv, GasInv, FundTypeOK, RecordsOK
<1>3. btc'.fees >= FeesAbove(feestat', fees_stat'.last_height)
  <2>1. PICK last, a, b : last = fees_stat.last_height /\ a = FeesAbove(feestat, last) /\ b = FeesAbove(feestat', last)
    OBVIOUS
  <2>2. a \in Nat
    BY <2>1, FeesAboveType DEF FundInv, ResourceTypeOK
  <2>3. b \in Nat
    <3>1. PICK stat : stat = feestat'
      OBVIOUS
    <3>2. stat \in [DOMAIN stat -> Nat] /\ IsFiniteSet(DOMAIN stat)
      BY <1>1, <3>1 DEF ResourceTypeOK
    <3> QED
      BY <2>1, <3>1, <3>2, FeesAboveType
  <2>4. btc'.fees - b >= btc.fees - a /\ btc.fees >= a
    BY <2>1 DEF ResourceKept, FundInv
  <2>5. btc'.fees \in Int /\ btc.fees \in Int
    BY <1>1 DEF ResourceTypeOK, FundInv
  <2>6. btc'.fees >= b
    BY <2>2, <2>3, <2>4, <2>5
  <2> QED
    BY <1>1, <2>1, <2>6
<1> QED
  BY <1>1, <1>2, <1>3 DEF FundInv

\* A step of the fund that leaves rescmng.xsat and the fee account alone.
LEMMA FundActs ==
  ASSUME FundInv, NEW n \in Int, btc' = [btc EXCEPT !.gasfund = n], UNCHANGED <<resource_config, account, feestat>>,
         fees_stat'.last_height = fees_stat.last_height, GasInv'
  PROVE  FundInv'
<1>1. btc \in [rescmng : Int, fees : Int, gasfund : Int]
  BY DEF FundInv, ResourceTypeOK
<1>2. btc' \in [rescmng : Int, fees : Int, gasfund : Int] /\ btc'.rescmng = btc.rescmng /\ btc'.fees = btc.fees
  BY <1>1
<1>3. ResourceTypeOK' /\ PrepaidHeld'
  BY <1>2 DEF FundInv, ResourceTypeOK, PrepaidHeld
<1> QED
  BY <1>2, <1>3 DEF FundInv

\* Whoever claims receives what is counted as theirs.
LEMMA ClaimKeeps ==
  ASSUME FundInv, (\E r \in Receivers : receiver_claim(r)) \/ enfclaim \/ ramsclaim
  PROVE  FundInv'
<1>0. /\ fees_stat \in [last_height : Nat, last_evm_height : Nat,
                        enf_unclaimed : Nat, rams_unclaimed : Nat, consensus_unclaimed : Nat]
      /\ consensus_fees \in [DOMAIN consensus_fees -> Int] /\ DOMAIN consensus_fees \subseteq ReceiverIds
      /\ btc.gasfund = fees_stat.enf_unclaimed + fees_stat.rams_unclaimed + fees_stat.consensus_unclaimed
      /\ btc.gasfund \in Int /\ (SubsidyIsStaked => fees_stat.consensus_unclaimed = Sum(consensus_fees))
  BY DEF FundInv, GasInv, FundTypeOK, ResourceTypeOK
<1>1. ASSUME NEW c \in Receivers, receiver_claim(c) PROVE FundInv'
  <2>1. PICK r, u, f, g : r = receiver_id(c) /\ u = consensus_fees[r] /\ f = consensus_fees /\ g = consensus_fees'
    OBVIOUS
  <2>2. /\ r \in DOMAIN f /\ u > 0 /\ fees_stat.consensus_unclaimed >= u
        /\ btc' = [btc EXCEPT !.gasfund = btc.gasfund - u]
        /\ g = [f EXCEPT ![r] = 0] /\ fees_stat' = [fees_stat EXCEPT !.consensus_unclaimed = fees_stat.consensus_unclaimed - u]
        /\ UNCHANGED <<gas_config, distributes, details, resource_config, account, feestat>>
    BY <1>1, <2>1 DEF receiver_claim
  <2>3. u \in Int /\ IsFiniteSet(DOMAIN f) /\ DOMAIN g = DOMAIN f /\ g[r] = 0 /\ f[r] = u
        /\ (\A x \in DOMAIN f : f[x] \in Int) /\ (\A x \in DOMAIN f \ {r} : g[x] = f[x])
    <3>1. IsFiniteSet(DOMAIN f)
      BY <1>0, <2>1, IdsOfReceivers, FS_Subset
    <3> QED
      BY <1>0, <2>1, <2>2, <3>1
  <2>4. SumFunctionOnSet(g, DOMAIN f) = SumFunctionOnSet(f, DOMAIN f) - f[r] + g[r]
    <3>1. PICK D : D = DOMAIN f
      OBVIOUS
    <3>2. IsFiniteSet(D) /\ r \in D /\ (\A x \in D : f[x] \in Int) /\ g[r] \in Int /\ (\A x \in D \ {r} : g[x] = f[x])
      BY <2>2, <2>3, <3>1
    <3>3. SumFunctionOnSet(g, D) = SumFunctionOnSet(f, D) - f[r] + g[r]
      BY ONLY <3>2, SumUpdate
    <3> QED
      BY <3>1, <3>3
  <2>5. Sum(g) = Sum(f) - u
    <3>1. SumFunctionOnSet(f, DOMAIN f) = Sum(f) /\ SumFunctionOnSet(g, DOMAIN f) = Sum(g)
      BY <2>3 DEF Sum, SumFunction
    <3>2. SumFunctionOnSet(f, DOMAIN f) \in Int
      BY <2>3, SumType
    <3> QED
      BY <2>3, <2>4, <3>1, <3>2
  <2>6. /\ fees_stat' \in [last_height : Nat, last_evm_height : Nat,
                           enf_unclaimed : Nat, rams_unclaimed : Nat, consensus_unclaimed : Nat]
        /\ fees_stat'.last_height = fees_stat.last_height /\ fees_stat'.last_evm_height = fees_stat.last_evm_height
        /\ fees_stat'.enf_unclaimed = fees_stat.enf_unclaimed /\ fees_stat'.rams_unclaimed = fees_stat.rams_unclaimed
        /\ fees_stat'.consensus_unclaimed = fees_stat.consensus_unclaimed - u
    <3>1. fees_stat.consensus_unclaimed - u \in Nat
      BY <1>0, <2>2, <2>3
    <3> QED
      BY <1>0, <2>2, <3>1
  <2>7. btc'.gasfund = btc.gasfund - u
    BY <2>2 DEF FundInv, ResourceTypeOK
  <2>8. consensus_fees' \in [DOMAIN consensus_fees' -> Int] /\ DOMAIN consensus_fees' \subseteq ReceiverIds
    BY <1>0, <2>1, <2>2
  <2>9. FundTypeOK' /\ RecordsOK' /\ fees_stat'.last_height >= fees_stat'.last_evm_height
    BY <2>2, <2>6, <2>8 DEF FundInv, GasInv, FundTypeOK, RecordsOK
  <2>10. btc'.gasfund = fees_stat'.enf_unclaimed + fees_stat'.rams_unclaimed + fees_stat'.consensus_unclaimed
         /\ (SubsidyIsStaked => fees_stat'.consensus_unclaimed = Sum(consensus_fees'))
    BY <1>0, <2>1, <2>3, <2>5, <2>6, <2>7
  <2>11. GasInv'
    BY <2>9, <2>10 DEF GasInv
  <2>12. btc.gasfund - u \in Int
    BY <1>0, <2>3
  <2> QED
    BY <2>2, <2>6, <2>11, <2>12, FundActs
<1>2. CASE enfclaim
  <2>1. /\ btc' = [btc EXCEPT !.gasfund = btc.gasfund - fees_stat.enf_unclaimed]
        /\ fees_stat' = [fees_stat EXCEPT !.enf_unclaimed = 0]
        /\ UNCHANGED <<gas_config, distributes, details, consensus_fees, resource_config, account, feestat>>
    BY <1>2 DEF enfclaim
  <2>2. /\ fees_stat' \in [last_height : Nat, last_evm_height : Nat,
                           enf_unclaimed : Nat, rams_unclaimed : Nat, consensus_unclaimed : Nat]
        /\ fees_stat'.last_height = fees_stat.last_height /\ fees_stat'.last_evm_height = fees_stat.last_evm_height
        /\ fees_stat'.enf_unclaimed = 0 /\ fees_stat'.rams_unclaimed = fees_stat.rams_unclaimed
        /\ fees_stat'.consensus_unclaimed = fees_stat.consensus_unclaimed
    BY <1>0, <2>1
  <2>3. btc'.gasfund = btc.gasfund - fees_stat.enf_unclaimed /\ btc.gasfund - fees_stat.enf_unclaimed \in Int
    BY <1>0, <2>1 DEF FundInv, ResourceTypeOK
  <2>4. FundTypeOK' /\ RecordsOK' /\ fees_stat'.last_height >= fees_stat'.last_evm_height
    BY <2>1, <2>2 DEF FundInv, GasInv, FundTypeOK, RecordsOK
  <2>5. btc'.gasfund = fees_stat'.enf_unclaimed + fees_stat'.rams_unclaimed + fees_stat'.consensus_unclaimed
        /\ (SubsidyIsStaked => fees_stat'.consensus_unclaimed = Sum(consensus_fees'))
    BY <1>0, <2>1, <2>2, <2>3
  <2>6. GasInv'
    BY <2>4, <2>5 DEF GasInv
  <2> QED
    BY <2>1, <2>2, <2>3, <2>6, FundActs
<1>3. CASE ramsclaim
  <2>1. /\ btc' = [btc EXCEPT !.gasfund = btc.gasfund - fees_stat.rams_unclaimed]
        /\ fees_stat' = [fees_stat EXCEPT !.rams_unclaimed = 0]
        /\ UNCHANGED <<gas_config, distributes, details, consensus_fees, resource_config, account, feestat>>
    BY <1>3 DEF ramsclaim
  <2>2. /\ fees_stat' \in [last_height : Nat, last_evm_height : Nat,
                           enf_unclaimed : Nat, rams_unclaimed : Nat, consensus_unclaimed : Nat]
        /\ fees_stat'.last_height = fees_stat.last_height /\ fees_stat'.last_evm_height = fees_stat.last_evm_height
        /\ fees_stat'.enf_unclaimed = fees_stat.enf_unclaimed /\ fees_stat'.rams_unclaimed = 0
        /\ fees_stat'.consensus_unclaimed = fees_stat.consensus_unclaimed
    BY <1>0, <2>1
  <2>3. btc'.gasfund = btc.gasfund - fees_stat.rams_unclaimed /\ btc.gasfund - fees_stat.rams_unclaimed \in Int
    BY <1>0, <2>1 DEF FundInv, ResourceTypeOK
  <2>4. FundTypeOK' /\ RecordsOK' /\ fees_stat'.last_height >= fees_stat'.last_evm_height
    BY <2>1, <2>2 DEF FundInv, GasInv, FundTypeOK, RecordsOK
  <2>5. btc'.gasfund = fees_stat'.enf_unclaimed + fees_stat'.rams_unclaimed + fees_stat'.consensus_unclaimed
        /\ (SubsidyIsStaked => fees_stat'.consensus_unclaimed = Sum(consensus_fees'))
    BY <1>0, <2>1, <2>2, <2>3
  <2>6. GasInv'
    BY <2>4, <2>5 DEF GasInv
  <2> QED
    BY <2>1, <2>2, <2>3, <2>6, FundActs
<1> QED
  BY <1>1, <1>2, <1>3

\* The three sums grow by what was collected.
LEMMA CollectedSums ==
  ASSUME NEW stat \in [last_height : Nat, last_evm_height : Nat,
                       enf_unclaimed : Nat, rams_unclaimed : Nat, consensus_unclaimed : Nat],
         NEW e \in Nat, NEW r \in Nat, NEW c \in Nat
  PROVE  Collected(stat, e, r, c)
           = [last_height |-> stat.last_height, last_evm_height |-> stat.last_evm_height,
              enf_unclaimed |-> stat.enf_unclaimed + e, rams_unclaimed |-> stat.rams_unclaimed + r,
              consensus_unclaimed |-> stat.consensus_unclaimed + c]
<1>1. PICK a, b, d : a = stat.enf_unclaimed + e /\ b = stat.rams_unclaimed + r /\ d = stat.consensus_unclaimed + c
  OBVIOUS
<1>3. Collected(stat, e, r, c)
        = [stat EXCEPT !.enf_unclaimed = a, !.rams_unclaimed = b, !.consensus_unclaimed = d]
  BY <1>1 DEF Collected
<1>4. Collected(stat, e, r, c)
        = [last_height |-> stat.last_height, last_evm_height |-> stat.last_evm_height,
           enf_unclaimed |-> a, rams_unclaimed |-> b, consensus_unclaimed |-> d]
  BY <1>3
<1> QED
  BY <1>1, <1>4

\* The shares of an EVM transfer are credited as it comes in.
LEMMA EvmTransferKeeps ==
  ASSUME FundInv, NEW q \in Nat, handle_evm_fees_transfer(q)
  PROVE  FundInv'
<1>0. /\ fees_stat \in [last_height : Nat, last_evm_height : Nat,
                        enf_unclaimed : Nat, rams_unclaimed : Nat, consensus_unclaimed : Nat]
      /\ consensus_fees \in [DOMAIN consensus_fees -> Int] /\ DOMAIN consensus_fees \subseteq ReceiverIds
      /\ btc.gasfund = fees_stat.enf_unclaimed + fees_stat.rams_unclaimed + fees_stat.consensus_unclaimed
      /\ btc.gasfund \in Int /\ (SubsidyIsStaked => fees_stat.consensus_unclaimed = Sum(consensus_fees))
      /\ gas_config \in GasConfigs /\ gas_config.start \in Nat
      /\ distributes \in [DOMAIN distributes -> [total_rewards : Nat, end_height : Nat]]
      /\ details \in [DOMAIN details -> Seq(Detail) \ {<< >>}] /\ DOMAIN details \subseteq Nat /\ RecordsOK
  BY GasFundAssumption DEF FundInv, GasInv, FundTypeOK, ResourceTypeOK
<1>1. PICK key, C, rows, total, share :
        /\ key = EvmStart /\ C = ConsensusPart(q) /\ rows = details[key] /\ total = distributes[key].total_rewards
        /\ share = EvmShares(C, rows, total)
  OBVIOUS
<1>2. PICK e, r : e = EnfPart(q) /\ r = RamsPart(q)
  OBVIOUS
<1>3. e \in Nat /\ r \in Nat /\ C \in Nat /\ e + r + C = q
  BY <1>0, <1>1, <1>2, FeeDivided
<1>4. /\ fees_stat.last_height > fees_stat.last_evm_height
      /\ key \in DOMAIN distributes /\ Row(details, key, << >>) # << >>
      /\ consensus_fees' = [x \in DOMAIN consensus_fees \cup DOMAIN share |-> Row(consensus_fees, x, 0) + Row(share, x, 0)]
      /\ distributes' = [distributes EXCEPT ![key] = [distributes[key] EXCEPT !.end_height = fees_stat.last_height]]
      /\ fees_stat' = [Collected(fees_stat, e, r, C) EXCEPT !.last_evm_height = fees_stat.last_height]
      /\ btc' = [btc EXCEPT !.gasfund = btc.gasfund + q]
      /\ UNCHANGED <<gas_config, details, resource_config, account, feestat>>
  BY <1>1, <1>2 DEF handle_evm_fees_transfer
<1>5. key \in DOMAIN details /\ rows # << >> /\ rows \in Seq(Detail)
  BY <1>0, <1>1, <1>4 DEF Row
<1>6. key >= fees_stat.last_evm_height
  BY <1>0, <1>1 DEF EvmStart
<1>7. total \in Nat \ {0} /\ OneRowEach(rows)
  <2>1. distributes[key].total_rewards > 0 /\ OneRowEach(details[key])
    BY <1>0, <1>5, <1>6 DEF RecordsOK
  <2> QED
    BY <1>0, <1>1, <1>4, <2>1
<1>8. DOMAIN share \subseteq ReceiverIds /\ share \in [DOMAIN share -> Nat] /\ Sum(share) = C
  BY <1>1, <1>3, <1>5, <1>7, SharesOfTransfer
<1>9. /\ consensus_fees' \in [DOMAIN consensus_fees' -> Int] /\ DOMAIN consensus_fees' \subseteq ReceiverIds
      /\ Sum(consensus_fees') = Sum(consensus_fees) + C
  <2>1. PICK D, g, f : D = DOMAIN consensus_fees \cup DOMAIN share /\ g = consensus_fees' /\ f = consensus_fees
    OBVIOUS
  <2>2. /\ D \in SUBSET ReceiverIds /\ DOMAIN f \subseteq D /\ (\A x \in DOMAIN f : f[x] \in Int)
        /\ (\A x \in DOMAIN share : share[x] \in Int) /\ (\A x \in DOMAIN share : x \in D \/ share[x] = 0)
        /\ g = [x \in D |-> Row(f, x, 0) + Row(share, x, 0)]
        /\ DOMAIN g = D /\ (\A x \in D : g[x] = Row(f, x, 0) + Row(share, x, 0))
    BY <1>0, <1>4, <1>8, <2>1
  <2>3. (\A x \in D : g[x] \in Int) /\ Sum(g) = Sum(f) + Sum(share)
    <3>1. DOMAIN share \subseteq ReceiverIds
      BY <1>8
    <3> QED
      BY ONLY <2>2, <3>1, SharesCredited
  <2> QED
    BY <1>8, <2>1, <2>2, <2>3
<1>10. /\ fees_stat' \in [last_height : Nat, last_evm_height : Nat,
                          enf_unclaimed : Nat, rams_unclaimed : Nat, consensus_unclaimed : Nat]
       /\ fees_stat'.last_height = fees_stat.last_height /\ fees_stat'.last_evm_height = fees_stat.last_height
       /\ fees_stat'.enf_unclaimed = fees_stat.enf_unclaimed + e /\ fees_stat'.rams_unclaimed = fees_stat.rams_unclaimed + r
       /\ fees_stat'.consensus_unclaimed = fees_stat.consensus_unclaimed + C
  <2>1. PICK s : s = Collected(fees_stat, e, r, C)
    OBVIOUS
  <2>2. /\ s \in [last_height : Nat, last_evm_height : Nat,
                  enf_unclaimed : Nat, rams_unclaimed : Nat, consensus_unclaimed : Nat]
        /\ s.last_height = fees_stat.last_height
        /\ s.enf_unclaimed = fees_stat.enf_unclaimed + e /\ s.rams_unclaimed = fees_stat.rams_unclaimed + r
        /\ s.consensus_unclaimed = fees_stat.consensus_unclaimed + C
    <3>1. fees_stat \in [last_height : Nat, last_evm_height : Nat,
                        enf_unclaimed : Nat, rams_unclaimed : Nat, consensus_unclaimed : Nat]
      BY <1>0
    <3>2. s = [last_height |-> fees_stat.last_height, last_evm_height |-> fees_stat.last_evm_height,
               enf_unclaimed |-> fees_stat.enf_unclaimed + e, rams_unclaimed |-> fees_stat.rams_unclaimed + r,
               consensus_unclaimed |-> fees_stat.consensus_unclaimed + C]
      BY <1>3, <2>1, <3>1, CollectedSums
    <3> QED
      BY <1>3, <3>1, <3>2
  <2>3. fees_stat' = [s EXCEPT !.last_evm_height = fees_stat.last_height]
    BY <1>4, <2>1
  <2> QED
    BY <1>0, <2>2, <2>3
<1>11. /\ distributes' \in [DOMAIN distributes' -> [total_rewards : Nat, end_height : Nat]]
       /\ DOMAIN distributes' = DOMAIN distributes
       /\ \A k \in DOMAIN distributes : distributes'[k].total_rewards = distributes[k].total_rewards
  <2>1. PICK d : d = [distributes[key] EXCEPT !.end_height = fees_stat.last_height]
    OBVIOUS
  <2>2. d \in [total_rewards : Nat, end_height : Nat] /\ d.total_rewards = distributes[key].total_rewards
    BY <1>0, <1>4, <2>1
  <2>3. distributes' = [distributes EXCEPT ![key] = d]
    BY <1>4, <2>1
  <2> QED
    BY <1>0, <2>2, <2>3
<1>12. FundTypeOK'
  BY <1>0, <1>4, <1>9, <1>10, <1>11 DEF FundTypeOK
<1>13. RecordsOK'
  <2> SUFFICES ASSUME NEW k \in DOMAIN details, k >= fees_stat'.last_evm_height
               PROVE  k \in DOMAIN distributes' /\ distributes'[k].total_rewards > 0 /\ OneRowEach(details[k])
    BY <1>4 DEF RecordsOK
  <2>1. k >= fees_stat.last_evm_height
    <3>1. k \in Nat /\ k >= fees_stat.last_height
      BY <1>0, <1>10
    <3> QED
      BY <1>0, <1>4, <3>1
  <2>2. k \in DOMAIN distributes /\ distributes[k].total_rewards > 0 /\ OneRowEach(details[k])
    BY <1>0, <2>1 DEF RecordsOK
  <2> QED
    BY <1>11, <2>2
<1>14. btc'.gasfund = btc.gasfund + q /\ btc.gasfund + q \in Int
  BY <1>0, <1>4 DEF FundInv, ResourceTypeOK
<1>15. /\ btc'.gasfund = fees_stat'.enf_unclaimed + fees_stat'.rams_unclaimed + fees_stat'.consensus_unclaimed
       /\ (SubsidyIsStaked => fees_stat'.consensus_unclaimed = Sum(consensus_fees'))
       /\ fees_stat'.last_height >= fees_stat'.last_evm_height
  <2>1. fees_stat'.last_height >= fees_stat'.last_evm_height
    BY <1>0, <1>10
  <2>2. SubsidyIsStaked => fees_stat'.consensus_unclaimed = Sum(consensus_fees')
    BY <1>0, <1>9, <1>10
  <2>3. PICK x, y, z, w : x = fees_stat.enf_unclaimed /\ y = fees_stat.rams_unclaimed /\ z = fees_stat.consensus_unclaimed
                          /\ w = btc.gasfund
    OBVIOUS
  <2>4. x \in Nat /\ y \in Nat /\ z \in Nat /\ w = x + y + z
    BY <1>0, <2>3
  <2>5. w + q = (x + e) + (y + r) + (z + C)
    BY ONLY <1>3, <2>4
  <2> QED
    BY <1>10, <1>14, <2>1, <2>2, <2>3, <2>5
<1>16. GasInv'
  BY <1>12, <1>13, <1>15 DEF GasInv
<1> QED
  BY <1>4, <1>10, <1>14, <1>16, FundActs

\* The window begins after the heights that were shared, and distribute is called
\* for one with fees and logs of every height.
LEMMA WindowOf ==
  ASSUME irreversible_height \in Nat, FundTypeOK,
         Window \subseteq DOMAIN feestat \cap DOMAIN reward_logs
  PROVE  LET H == Window IN
         /\ H \in SUBSET DOMAIN feestat /\ H \in SUBSET DOMAIN reward_logs /\ IsFiniteSet(H)
         /\ WindowStart \in Nat /\ fees_stat.last_height <= WindowStart
         /\ H # {} => /\ Max(H) \in H /\ H = (WindowStart + 1)..Max(H) /\ Max(H) <= irreversible_height
<1>1. gas_config.start \in Nat /\ gas_config.max_interval \in Nat /\ fees_stat.last_height \in Nat
  BY GasFundAssumption DEF FundTypeOK
<1>2. PICK H, w, x, m : H = Window /\ w = WindowStart /\ x = w + gas_config.max_interval /\ m = Min({irreversible_height, x})
  OBVIOUS
<1>3. w \in Nat /\ fees_stat.last_height <= w /\ x \in Nat
  BY <1>1, <1>2 DEF WindowStart
<1>4. m \in Nat /\ m <= irreversible_height
  <2>1. m = IF irreversible_height <= x THEN irreversible_height ELSE x
    BY <1>2, <1>3, MinOfTwo
  <2> QED
    BY <1>3, <2>1
<1>5. H = (w + 1)..m
  BY <1>2 DEF Window
<1>6. IsFiniteSet(H)
  <2>1. w + 1 \in Int /\ m \in Int
    BY <1>3, <1>4
  <2> QED
    BY <1>5, <2>1, FS_Interval
<1>7. ASSUME H # {} PROVE Max(H) \in H /\ Max(H) = m
  <2>1. H \in SUBSET (0..m) /\ m \in H
    BY <1>3, <1>4, <1>5, <1>7
  <2>2. Max(H) \in H /\ \A y \in H : Max(H) >= y
    BY <1>4, <1>7, <2>1, MaxIsGreatest
  <2>3. Max(H) >= m /\ Max(H) <= m /\ Max(H) \in Int
    BY <1>5, <2>1, <2>2
  <2> QED
    BY <1>4, <2>2, <2>3
<1> QED
  BY <1>2, <1>3, <1>4, <1>5, <1>6, <1>7

\* What a distribution with a reward shares: all of the fees of its heights.
LEMMA DistributeShares ==
  ASSUME LogsHeld, StakingLogged, FundInv, distribute, TotalIn(Window) # 0
  PROVE  FundInv'
<1>0. /\ fees_stat \in [last_height : Nat, last_evm_height : Nat,
                        enf_unclaimed : Nat, rams_unclaimed : Nat, consensus_unclaimed : Nat]
      /\ consensus_fees \in [DOMAIN consensus_fees -> Int] /\ DOMAIN consensus_fees \subseteq ReceiverIds
      /\ btc.gasfund = fees_stat.enf_unclaimed + fees_stat.rams_unclaimed + fees_stat.consensus_unclaimed
      /\ btc \in [rescmng : Int, fees : Int, gasfund : Int]
      /\ (SubsidyIsStaked => fees_stat.consensus_unclaimed = Sum(consensus_fees)) /\ fees_stat.last_height >= fees_stat.last_evm_height
      /\ gas_config \in GasConfigs /\ gas_config.start \in Nat /\ FundTypeOK /\ irreversible_height \in Nat
      /\ distributes \in [DOMAIN distributes -> [total_rewards : Nat, end_height : Nat]]
      /\ details \in [DOMAIN details -> Seq(Detail) \ {<< >>}] /\ DOMAIN details \subseteq Nat /\ RecordsOK
      /\ ResourceTypeOK /\ btc.fees >= FeesAbove(feestat, fees_stat.last_height)
  BY GasFundAssumption DEF FundInv, GasInv, FundTypeOK, ResourceTypeOK, LogsHeld
<1>1. PICK H, reward, total, F, E, A, C, key :
        /\ H = Window /\ reward = RewardsIn(H) /\ total = TotalIn(H) /\ F = Sum(Restrict(feestat, H))
        /\ E = Sum([h \in H |-> EnfPart(feestat[h])]) /\ A = Sum([h \in H |-> RamsPart(feestat[h])])
        /\ C = Sum([h \in H |-> ConsensusPart(feestat[h])]) /\ key = EvmStart
  OBVIOUS
<1>2. PICK share, rows, top, record :
        /\ share = ConsensusShares(C, reward, total) /\ rows = Row(details, key, << >>) /\ top = Max(H)
        /\ record = [Row(distributes, key, [total_rewards |-> 0, end_height |-> 0]) EXCEPT !.total_rewards = @ + total]
  OBVIOUS
<1>3. /\ H \subseteq DOMAIN feestat \cap DOMAIN reward_logs /\ total # 0
      /\ F <= btc.fees
      /\ btc' = [btc EXCEPT !.fees = btc.fees - F, !.gasfund = btc.gasfund + F]
      /\ distributes' = Put(distributes, key, record) /\ details' = Put(details, key, Accumulated(rows, reward))
      /\ consensus_fees' = Credited(consensus_fees, share)
      /\ fees_stat' = [Collected(fees_stat, E, A, C) EXCEPT !.last_height = top]
      /\ UNCHANGED <<gas_config, resource_config, account, feestat>>
  BY <1>1, <1>2, Zenon DEF distribute, TotalIn, RewardsIn, RecordKey, Move
<1>4. /\ H \in SUBSET DOMAIN feestat /\ H \in SUBSET DOMAIN reward_logs /\ IsFiniteSet(H)
      /\ WindowStart \in Nat /\ fees_stat.last_height <= WindowStart
      /\ H # {} => top \in H /\ H = (WindowStart + 1)..top
  BY <1>0, <1>1, <1>2, <1>3, WindowOf
<1>5. WindowRewarded(H, reward, total)
  <2>1. \A h \in H : LogsOK(reward_logs[h])
    BY <1>4 DEF LogsHeld
  <2> QED
    BY <1>1, <1>4, <2>1, RewardsOfWindow
<1>6. H # {}
  <2>1. ASSUME H = {} PROVE total = 0
    <3>1. PICK f : f = [h \in H |-> TotalReward(h)]
      OBVIOUS
    <3>2. DOMAIN f = {} /\ total = Sum(f)
      BY <1>1, <2>1, <3>1 DEF TotalIn
    <3> QED
      BY <3>2, SumEmpty DEF Sum, SumFunction
  <2> QED
    BY <1>3, <2>1
<1>7. top \in Nat /\ fees_stat.last_height < top /\ \A h \in H : fees_stat.last_height < h /\ h <= top
  <2>1. PICK last, w : last = fees_stat.last_height /\ w = WindowStart
    OBVIOUS
  <2>2. last \in Nat /\ w \in Nat /\ last <= w /\ top \in H /\ H = (w + 1)..top
    BY <1>0, <1>4, <1>6, <2>1
  <2>3. top \in Nat /\ last < top /\ \A h \in H : last < h /\ h <= top
    BY ONLY <2>2
  <2> QED
    BY <2>1, <2>3
<1>8. /\ F \in Nat /\ FeesAbove(feestat, top) \in Nat
      /\ FeesAbove(feestat, fees_stat.last_height) >= F + FeesAbove(feestat, top)
      /\ FeesAbove(feestat, fees_stat.last_height) \in Nat
  <2>1. PICK last : last = fees_stat.last_height
    OBVIOUS
  <2>2. last \in Nat /\ last <= top /\ \A h \in H : last < h /\ h <= top
    BY <1>0, <1>7, <2>1
  <2>3. /\ Sum(Restrict(feestat, H)) \in Nat /\ FeesAbove(feestat, top) \in Nat /\ FeesAbove(feestat, last) \in Nat
        /\ FeesAbove(feestat, last) >= Sum(Restrict(feestat, H)) + FeesAbove(feestat, top)
    BY <1>0, <1>4, <1>7, <2>2, FeesOfHeights
  <2> QED
    BY <1>1, <2>1, <2>3
<1>9. E \in Nat /\ A \in Nat /\ C \in Nat /\ F = E + A + C
  BY <1>0, <1>1, <1>4, FeesDivided
<1>10. reward \in [Receivers -> Nat] /\ total \in Nat \ {0} /\ SumFunctionOnSet(reward, SynchronizerReceivers) <= total
       /\ (SubsidyIsStaked => \E x \in ValidatorReceivers : reward[x] > 0) /\ \E x \in Receivers : reward[x] > 0
  <2>1. reward \in [Receivers -> Nat] /\ total \in Nat /\ SumFunctionOnSet(reward, SynchronizerReceivers) <= total
    BY <1>5 DEF WindowRewarded
  <2>2. ASSUME SubsidyIsStaked PROVE \A h \in H : reward_logs[h].btc.staking + reward_logs[h].xsat.consensus > 0
    <3> SUFFICES ASSUME NEW h \in H PROVE reward_logs[h].btc.staking + reward_logs[h].xsat.consensus > 0
      OBVIOUS
    <3>1. LogsOK(reward_logs[h]) /\ reward_logs[h].btc.staking > 0
      BY <1>4, <2>2 DEF LogsHeld, StakingLogged
    <3>2. reward_logs[h].btc.staking \in Nat /\ reward_logs[h].xsat.consensus \in Nat
      BY <3>1 DEF LogsOK, RewardLogs, LogType
    <3> QED
      BY <3>1, <3>2
  <2>3. ASSUME SubsidyIsStaked PROVE \E x \in ValidatorReceivers : reward[x] > 0
    <3>1. \A h \in H : reward_logs[h].btc.staking + reward_logs[h].xsat.consensus > 0
      BY <2>2, <2>3
    <3> QED
      BY <1>5, <1>6, <3>1, Zenon DEF WindowRewarded
  <2>4. \E x \in Receivers : reward[x] > 0
    BY <1>3, <1>5, <2>1 DEF WindowRewarded
  <2> QED
    BY <1>3, <2>1, <2>3, <2>4
<1>11. share \in [Receivers -> Int] /\ (SubsidyIsStaked => SumFunctionOnSet(share, Receivers) = C)
  <2>1. SharesOfFees(C, reward, total, share)
    BY <1>2, <1>9, <1>10, SharesOfWindow
  <2> QED
    BY <1>10, <2>1 DEF SharesOfFees
<1>12. /\ consensus_fees' \in [DOMAIN consensus_fees' -> Int] /\ DOMAIN consensus_fees' \subseteq ReceiverIds
       /\ (SubsidyIsStaked => Sum(consensus_fees') = Sum(consensus_fees) + C)
  <2>1. consensus_fees' = Credited(consensus_fees, share) /\ share \in [Receivers -> Int]
    BY <1>3, <1>11
  <2>2. /\ consensus_fees' \in [DOMAIN consensus_fees' -> Int] /\ DOMAIN consensus_fees' \subseteq ReceiverIds
        /\ Sum(consensus_fees') = Sum(consensus_fees) + SumFunctionOnSet(share, Receivers)
    BY <1>0, <2>1, RowsCredited
  <2> QED
    BY <1>11, <2>2
<1>13. /\ fees_stat' \in [last_height : Nat, last_evm_height : Nat,
                          enf_unclaimed : Nat, rams_unclaimed : Nat, consensus_unclaimed : Nat]
       /\ fees_stat'.last_height = top /\ fees_stat'.last_evm_height = fees_stat.last_evm_height
       /\ fees_stat'.enf_unclaimed = fees_stat.enf_unclaimed + E /\ fees_stat'.rams_unclaimed = fees_stat.rams_unclaimed + A
       /\ fees_stat'.consensus_unclaimed = fees_stat.consensus_unclaimed + C
  <2>1. PICK s : s = Collected(fees_stat, E, A, C)
    OBVIOUS
  <2>2. /\ s \in [last_height : Nat, last_evm_height : Nat,
                  enf_unclaimed : Nat, rams_unclaimed : Nat, consensus_unclaimed : Nat]
        /\ s.last_height = fees_stat.last_height /\ s.last_evm_height = fees_stat.last_evm_height
        /\ s.enf_unclaimed = fees_stat.enf_unclaimed + E /\ s.rams_unclaimed = fees_stat.rams_unclaimed + A
        /\ s.consensus_unclaimed = fees_stat.consensus_unclaimed + C
    <3>1. fees_stat \in [last_height : Nat, last_evm_height : Nat,
                        enf_unclaimed : Nat, rams_unclaimed : Nat, consensus_unclaimed : Nat]
      BY <1>0
    <3>2. s = [last_height |-> fees_stat.last_height, last_evm_height |-> fees_stat.last_evm_height,
               enf_unclaimed |-> fees_stat.enf_unclaimed + E, rams_unclaimed |-> fees_stat.rams_unclaimed + A,
               consensus_unclaimed |-> fees_stat.consensus_unclaimed + C]
      BY <1>9, <2>1, <3>1, CollectedSums
    <3> QED
      BY <1>9, <3>1, <3>2
  <2>3. fees_stat' = [s EXCEPT !.last_height = top]
    BY <1>3, <2>1
  <2> QED
    BY <1>7, <2>2, <2>3
<1>14. key \in Nat /\ key >= fees_stat.last_evm_height
  BY <1>0, <1>1 DEF EvmStart
<1>15. rows \in Seq(Detail) /\ OneRowEach(rows)
  <2>1. CASE key \in DOMAIN details
    BY <1>0, <1>2, <1>14, <2>1 DEF RecordsOK, Row
  <2>2. CASE key \notin DOMAIN details
    <3>1. rows = << >>
      BY <1>2, <2>2 DEF Row
    <3>2. DOMAIN rows = {} /\ rows \in Seq(Detail)
      BY <3>1
    <3> QED
      BY <3>2 DEF OneRowEach
  <2> QED
    BY <2>1, <2>2
<1>16. Accumulated(rows, reward) \in Seq(Detail) \ {<< >>} /\ OneRowEach(Accumulated(rows, reward))
  <2> QED
    BY <1>10, <1>15, AccumulatedRows
<1>17. /\ details' \in [DOMAIN details' -> Seq(Detail) \ {<< >>}] /\ DOMAIN details' = DOMAIN details \cup {key}
       /\ \A k \in DOMAIN details' : details'[k] = IF k = key THEN Accumulated(rows, reward) ELSE details[k]
  <2>1. details' = [k \in DOMAIN details \cup {key} |-> IF k = key THEN Accumulated(rows, reward) ELSE details[k]]
    BY <1>3 DEF Put
  <2> QED
    BY <1>0, <1>16, <2>1
<1>18. record \in [total_rewards : Nat, end_height : Nat] /\ record.total_rewards > 0
  <2>1. PICK d : d = Row(distributes, key, [total_rewards |-> 0, end_height |-> 0])
    OBVIOUS
  <2>2. d \in [total_rewards : Nat, end_height : Nat]
    BY <1>0, <2>1 DEF Row
  <2>3. record = [d EXCEPT !.total_rewards = d.total_rewards + total]
    BY <1>2, <2>1
  <2> QED
    BY <1>10, <2>2, <2>3
<1>19. /\ distributes' \in [DOMAIN distributes' -> [total_rewards : Nat, end_height : Nat]]
       /\ DOMAIN distributes' = DOMAIN distributes \cup {key}
       /\ \A k \in DOMAIN distributes' : distributes'[k] = IF k = key THEN record ELSE distributes[k]
  <2>1. distributes' = [k \in DOMAIN distributes \cup {key} |-> IF k = key THEN record ELSE distributes[k]]
    BY <1>3 DEF Put
  <2> QED
    BY <1>0, <1>18, <2>1
<1>20. RecordsOK'
  <2> SUFFICES ASSUME NEW k \in DOMAIN details', k >= fees_stat'.last_evm_height
               PROVE  k \in DOMAIN distributes' /\ distributes'[k].total_rewards > 0 /\ OneRowEach(details'[k])
    BY DEF RecordsOK
  <2>1. CASE k = key
    BY <1>16, <1>17, <1>18, <1>19, <2>1
  <2>2. CASE k # key
    <3>1. k \in DOMAIN details /\ k >= fees_stat.last_evm_height
      BY <1>13, <1>17, <2>2
    <3>2. k \in DOMAIN distributes /\ distributes[k].total_rewards > 0 /\ OneRowEach(details[k])
      BY <1>0, <3>1 DEF RecordsOK
    <3> QED
      BY <1>17, <1>19, <2>2, <3>1, <3>2
  <2> QED
    BY <2>1, <2>2
<1>21. FundTypeOK'
  <2>1. DOMAIN details' \subseteq Nat /\ gas_config' \in GasConfigs
    BY <1>0, <1>3, <1>14, <1>17
  <2> QED
    BY <1>12, <1>13, <1>17, <1>19, <2>1 DEF FundTypeOK
<1>22. btc' \in [rescmng : Int, fees : Int, gasfund : Int] /\ btc'.gasfund = btc.gasfund + F
       /\ btc'.fees = btc.fees - F /\ btc'.rescmng = btc.rescmng
  <2>1. PICK a, b : a = btc.fees - F /\ b = btc.gasfund + F
    OBVIOUS
  <2>2. a \in Int /\ b \in Int
    <3>1. btc.fees \in Int /\ btc.gasfund \in Int
      BY <1>0
    <3> QED
      BY <1>8, <2>1, <3>1
  <2>3. btc' = [btc EXCEPT !.fees = a, !.gasfund = b]
    BY <1>3, <2>1
  <2>4. btc' = [rescmng |-> btc.rescmng, fees |-> a, gasfund |-> b]
    BY <1>0, <2>3
  <2> QED
    BY <1>0, <2>1, <2>2, <2>4
<1>23. /\ btc'.gasfund = fees_stat'.enf_unclaimed + fees_stat'.rams_unclaimed + fees_stat'.consensus_unclaimed
       /\ (SubsidyIsStaked => fees_stat'.consensus_unclaimed = Sum(consensus_fees'))
       /\ fees_stat'.last_height >= fees_stat'.last_evm_height
  <2>1. fees_stat'.last_height >= fees_stat'.last_evm_height
    BY <1>0, <1>7, <1>13
  <2>2. SubsidyIsStaked => fees_stat'.consensus_unclaimed = Sum(consensus_fees')
    BY <1>0, <1>12, <1>13
  <2>3. PICK x, y, z, w : x = fees_stat.enf_unclaimed /\ y = fees_stat.rams_unclaimed /\ z = fees_stat.consensus_unclaimed
                          /\ w = btc.gasfund
    OBVIOUS
  <2>4. x \in Nat /\ y \in Nat /\ z \in Nat /\ w = x + y + z
    BY <1>0, <2>3
  <2>5. w + F = (x + E) + (y + A) + (z + C)
    BY ONLY <1>9, <2>4
  <2> QED
    BY <1>13, <1>22, <2>1, <2>2, <2>3, <2>5
<1>24. GasInv'
  BY <1>20, <1>21, <1>23 DEF GasInv
<1>25. ResourceTypeOK' /\ PrepaidHeld'
  BY <1>3, <1>22 DEF FundInv, ResourceTypeOK, PrepaidHeld
<1>26. btc'.fees >= FeesAbove(feestat', fees_stat'.last_height)
  <2>1. btc.fees - F >= FeesAbove(feestat, top)
    BY <1>0, <1>8
  <2> QED
    BY <1>3, <1>13, <1>22, <2>1
<1> QED
  BY <1>24, <1>25, <1>26 DEF FundInv

\* Without a reward in the window a distribution only writes the record.
LEMMA DistributeRecords ==
  ASSUME LogsHeld, FundInv, distribute, TotalIn(Window) = 0
  PROVE  FundInv'
<1>0. /\ distributes \in [DOMAIN distributes -> [total_rewards : Nat, end_height : Nat]] /\ RecordsOK
      /\ btc \in [rescmng : Int, fees : Int, gasfund : Int] /\ btc.gasfund \in Int
  BY DEF FundInv, GasInv, FundTypeOK, ResourceTypeOK
<1>1. PICK key, d, record :
        /\ key = EvmStart /\ d = Row(distributes, key, [total_rewards |-> 0, end_height |-> 0])
        /\ record = [d EXCEPT !.total_rewards = d.total_rewards + 0]
  OBVIOUS
<1>2. distributes' = Put(distributes, key, record)
      /\ UNCHANGED <<details, consensus_fees, fees_stat, btc, gas_config, resource_config, account, feestat>>
  <2>1. PICK total : total = TotalIn(Window)
    OBVIOUS
  <2>2. /\ distributes' = Put(distributes, key, [Row(distributes, key, [total_rewards |-> 0, end_height |-> 0])
                                                   EXCEPT !.total_rewards = @ + total])
        /\ total = 0 => UNCHANGED <<details, consensus_fees, fees_stat, btc>>
        /\ UNCHANGED <<gas_config, resource_config, account, feestat>>
    BY <1>1, <2>1, Zenon DEF distribute, TotalIn, RecordKey
  <2>3. total = 0
    BY <2>1
  <2> QED
    BY <1>1, <2>2, <2>3
<1>3. d \in [total_rewards : Nat, end_height : Nat]
  BY <1>0, <1>1 DEF Row
<1>4. record = d
  BY <1>1, <1>3
<1>5. /\ distributes' \in [DOMAIN distributes' -> [total_rewards : Nat, end_height : Nat]]
      /\ DOMAIN distributes \subseteq DOMAIN distributes'
      /\ \A k \in DOMAIN distributes : distributes'[k] = distributes[k]
  <2>1. distributes' = [k \in DOMAIN distributes \cup {key} |-> IF k = key THEN d ELSE distributes[k]]
    BY <1>2, <1>4 DEF Put
  <2>2. \A k \in DOMAIN distributes : distributes'[k] = distributes[k]
    BY <1>1, <2>1 DEF Row
  <2> QED
    BY <1>0, <1>3, <2>1, <2>2
<1>6. FundTypeOK' /\ RecordsOK'
  BY <1>0, <1>2, <1>5 DEF FundInv, GasInv, FundTypeOK, RecordsOK
<1>7. GasInv'
  BY <1>2, <1>6 DEF FundInv, GasInv
<1> QED
  BY <1>2, <1>7 DEF FundInv, ResourceTypeOK, PrepaidHeld

\* Configurations, records that are deleted and logs that are.
LEMMA FundTidied ==
  ASSUME FundInv,
         \/ \E c \in GasConfigs : SaveConfig(c)
         \/ \E h \in DOMAIN distributes : deldistribut(h)
         \/ \E a, b \in DOMAIN reward_logs : delrewardlog(a, b)
  PROVE  FundInv'
<1>0. btc \in [rescmng : Int, fees : Int, gasfund : Int] /\ btc.gasfund \in Int /\ btc = [btc EXCEPT !.gasfund = btc.gasfund]
      /\ details \in [DOMAIN details -> Seq(Detail) \ {<< >>}] /\ DOMAIN details \subseteq Nat
  BY DEF FundInv, ResourceTypeOK, GasInv, FundTypeOK
<1>1. ASSUME NEW c \in GasConfigs, SaveConfig(c) PROVE FundInv'
  <2>1. gas_config' \in GasConfigs /\ UNCHANGED <<fees_stat, distributes, details, consensus_fees, resourceVars>>
    BY <1>1 DEF SaveConfig
  <2>2. GasInv'
    BY <2>1 DEF FundInv, GasInv, FundTypeOK, RecordsOK, resourceVars
  <2> QED
    BY <1>0, <2>1, <2>2, FundActs DEF resourceVars
<1>2. ASSUME NEW h \in DOMAIN distributes, deldistribut(h) PROVE FundInv'
  <2>1. /\ h < fees_stat.last_evm_height
        /\ distributes' = Drop(distributes, {h})
        /\ UNCHANGED <<gas_config, fees_stat, consensus_fees, resourceVars>>
    BY <1>2 DEF deldistribut
  <2>2. PICK left \in {<< >>, Tail(Row(details, h, <<0>>))} :
          details' = IF left = << >> THEN Drop(details, {h}) ELSE [details EXCEPT ![h] = left]
    BY <1>2 DEF deldistribut
  <2>3. /\ details' \in [DOMAIN details' -> Seq(Detail) \ {<< >>}] /\ DOMAIN details' \subseteq DOMAIN details
        /\ \A k \in DOMAIN details' : k # h => details'[k] = details[k]
    <3>1. CASE left = << >>
      <4>1. details' = [k \in DOMAIN details \ {h} |-> details[k]]
        BY <2>2, <3>1 DEF Drop, Restrict
      <4> QED
        BY <1>0, <4>1
    <3>2. CASE left # << >>
      <4>1. left = Tail(Row(details, h, <<0>>)) /\ details' = [details EXCEPT ![h] = left]
        BY <2>2, <3>2
      <4>2. CASE h \in DOMAIN details
        <5>1. details[h] \in Seq(Detail) \ {<< >>} /\ left = Tail(details[h])
          BY <1>0, <4>1, <4>2 DEF Row
        <5>2. left \in Seq(Detail)
          BY <5>1
        <5>3. left \in Seq(Detail) \ {<< >>}
          BY <3>2, <5>2
        <5> QED
          BY <1>0, <4>1, <5>3
      <4>3. CASE h \notin DOMAIN details
        <5>1. details' = details
          BY <1>0, <4>1, <4>3
        <5> QED
          BY <1>0, <5>1
      <4> QED
        BY <4>2, <4>3
    <3> QED
      BY <3>1, <3>2
  <2>4. /\ distributes' = [k \in DOMAIN distributes \ {h} |-> distributes[k]]
        /\ distributes \in [DOMAIN distributes -> [total_rewards : Nat, end_height : Nat]]
    BY <2>1 DEF Drop, Restrict, FundInv, GasInv, FundTypeOK
  <2>5. distributes' \in [DOMAIN distributes' -> [total_rewards : Nat, end_height : Nat]]
        /\ DOMAIN distributes' = DOMAIN distributes \ {h} /\ \A k \in DOMAIN distributes' : distributes'[k] = distributes[k]
    BY <2>4
  <2>6. RecordsOK'
    <3> SUFFICES ASSUME NEW k \in DOMAIN details', k >= fees_stat.last_evm_height
                 PROVE  k \in DOMAIN distributes' /\ distributes'[k].total_rewards > 0 /\ OneRowEach(details'[k])
      BY <2>1 DEF RecordsOK
    <3>1. k \in DOMAIN details /\ k \in Nat /\ k # h
      <4>1. fees_stat.last_evm_height \in Nat
        BY DEF FundInv, GasInv, FundTypeOK
      <4>2. k \in DOMAIN details /\ k \in Nat
        BY <1>0, <2>3
      <4> QED
        BY <2>1, <4>1, <4>2
    <3>2. k \in DOMAIN distributes /\ distributes[k].total_rewards > 0 /\ OneRowEach(details[k])
      BY <3>1 DEF FundInv, GasInv, RecordsOK
    <3> QED
      BY <2>3, <2>5, <3>1, <3>2
  <2>7. GasInv'
    BY <1>0, <2>1, <2>3, <2>5, <2>6 DEF FundInv, GasInv, FundTypeOK, resourceVars
  <2> QED
    BY <1>0, <2>1, <2>7, FundActs DEF resourceVars
<1>3. ASSUME NEW a, NEW b, delrewardlog(a, b) PROVE FundInv'
  <2>1. UNCHANGED <<gas_config, fees_stat, distributes, details, consensus_fees>> /\ UNCHANGED <<resource_config, account, feestat, btc>>
    BY <1>3 DEF delrewardlog, fundVars, gasVars, resourceVars
  <2>2. GasInv'
    BY <2>1 DEF FundInv, GasInv, FundTypeOK, RecordsOK
  <2> QED
    BY <2>1, <2>2 DEF FundInv, ResourceTypeOK, PrepaidHeld
<1> QED
  BY <1>1, <1>2, <1>3

\* Whatever the fund does.
LEMMA GasStep ==
  ASSUME LogsHeld, StakingLogged, FundInv, NEW Q \in SUBSET Nat, GasNext(Q)
  PROVE  FundInv'
<1>1. CASE distribute
  BY <1>1, DistributeShares, DistributeRecords
<1>2. ASSUME NEW q \in Q, handle_evm_fees_transfer(q) PROVE FundInv'
  BY <1>2, EvmTransferKeeps
<1> QED
  BY <1>1, <1>2, ClaimKeeps, FundTidied DEF GasNext

\* Parts of less than the whole leave something of what is there.
LEMMA PartsLeave ==
  ASSUME NEW n \in Nat \ {0}, NEW a \in Nat, NEW b \in Nat, NEW c \in Nat, a + b + c < RATE_BASE
  PROVE  /\ Part(n, a) \in Nat /\ Part(n, b) \in Nat /\ Part(n, c) \in Nat
         /\ Part(n, a) + Part(n, b) + Part(n, c) < n
<1>1. PICK R, f, g, h : R = RATE_BASE /\ f = Part(n, a) /\ g = Part(n, b) /\ h = Part(n, c)
  OBVIOUS
<1>2. R \in Nat \ {0}
  BY <1>1, RewardAssumption
<1>3. ASSUME NEW k \in Nat PROVE Part(n, k) \in Nat /\ R * Part(n, k) <= n * k
  <2>1. PICK x : x = n * k
    OBVIOUS
  <2>2. x \in Nat /\ Part(n, k) = x \div R
    BY <1>1, <2>1 DEF Part
  <2> QED
    BY <1>2, <2>1, <2>2, DivNear
<1>4. /\ f \in Nat /\ g \in Nat /\ h \in Nat
      /\ R * f <= n * a /\ R * g <= n * b /\ R * h <= n * c
  BY <1>1, <1>3
<1>5. R * (f + g + h) <= n * (a + b + c)
  <2>1. R * (f + g + h) = R * f + R * g + R * h /\ n * (a + b + c) = n * a + n * b + n * c
    BY ONLY <1>2, <1>4, n \in Nat, a \in Nat, b \in Nat, c \in Nat
  <2>2. PICK p, q, s, x, y, z : p = R * f /\ q = R * g /\ s = R * h /\ x = n * a /\ y = n * b /\ z = n * c
    OBVIOUS
  <2>3. p \in Int /\ q \in Int /\ s \in Int /\ x \in Int /\ y \in Int /\ z \in Int
    BY ONLY <1>2, <1>4, <2>2, n \in Nat, a \in Nat, b \in Nat, c \in Nat
  <2>4. p <= x /\ q <= y /\ s <= z
    BY <1>4, <2>2
  <2>5. p + q + s <= x + y + z
    BY ONLY <2>3, <2>4
  <2> QED
    BY <2>1, <2>2, <2>5
<1>6. n * (a + b + c) < R * n
  <2>1. PICK k : k = a + b + c
    OBVIOUS
  <2>2. k \in Nat /\ k < R
    BY <1>1, <2>1
  <2>3. n * k <= n * (R - 1)
    <3>1. \A i, j \in Nat : i <= j => n * i <= n * j
      BY ONLY n \in Nat
    <3>2. k \in Nat /\ R - 1 \in Nat /\ k <= R - 1
      BY <1>2, <2>2
    <3> QED
      BY <3>1, <3>2
  <2>4. n * (R - 1) = R * n - n
    BY ONLY <1>2, n \in Nat
  <2>5. PICK p, q : p = n * k /\ q = R * n
    OBVIOUS
  <2>6. p \in Int /\ q \in Int
    BY <1>2, <2>2, <2>5
  <2>7. p < q
    BY <2>3, <2>4, <2>5, <2>6
  <2> QED
    BY <2>1, <2>5, <2>7
<1>7. ASSUME n <= f + g + h PROVE FALSE
  <2>1. PICK s : s = f + g + h
    OBVIOUS
  <2>2. s \in Nat /\ n <= s
    BY <1>4, <1>7, <2>1
  <2>3. R * n <= R * s
    BY ONLY <1>2, <2>2, n \in Nat
  <2>4. PICK p, q, t : p = R * n /\ q = R * s /\ t = n * (a + b + c)
    OBVIOUS
  <2>5. p \in Int /\ q \in Int /\ t \in Int
    BY <1>2, <2>2, <2>4
  <2>6. p <= q /\ q <= t /\ t < p
    BY <1>5, <1>6, <2>1, <2>3, <2>4
  <2> QED
    BY <2>5, <2>6
<1>8. f + g + h < n
  BY <1>4, <1>7
<1> QED
  BY <1>1, <1>4, <1>8

\* So the staking part that distribute logs is above zero.
LEMMA StakingStarts ==
  ASSUME SubsidyIsStaked, StartRewardOf(ProviderLists)
  PROVE  reward_log'["btc"].staking > 0
<1>1. PICK n \in Subsidies, r \in Rates, lists \in ProviderLists, head \in BOOLEAN, here \in BOOLEAN :
        Distribute(n, r, lists[1], lists[2], here)
  BY Zenon DEF StartRewardOf
<1>2. PICK a, b, c : a = r.synchronizer /\ b = r.btc /\ c = r.xsat
  OBVIOUS
<1>3. n \in Nat \ {0} /\ a \in Nat /\ b \in Nat /\ c \in Nat /\ a + b + c < RATE_BASE
  BY <1>2, RewardAssumption DEF SubsidyIsStaked
<1>4. /\ Part(n, a) \in Nat /\ Part(n, b) \in Nat /\ Part(n, c) \in Nat
      /\ Part(n, a) + Part(n, b) + Part(n, c) < n
  BY <1>3, PartsLeave
<1>5. PICK x : x = IF here THEN Part(n, c) ELSE 0
  OBVIOUS
<1>6. reward_log'["btc"].staking = n - Part(n, a) - Part(n, b) - x
  <2>1. \E other : reward_log' = [s \in RewardScopes |->
          IF s = "btc" THEN [providers |-> lists[1], consensus |-> Part(n, b),
                             staking |-> n - Part(n, a) - Part(n, b) - x,
                             synchronizer |-> Part(n, a), assigned |-> 0]
            ELSE other]
    BY <1>1, <1>2, <1>5 DEF Distribute
  <2> QED
    BY <2>1, RewardAssumption
<1> QED
  BY <1>3, <1>4, <1>5, <1>6

\* A batch leaves the amounts of the log as they were.
LEMMA BatchKeepsStaking ==
  ASSUME RewardInv, Batch
  PROVE  reward_log'["btc"].staking = reward_log["btc"].staking
<1>1. PICK from, to : EndTRewards(from, to, active_here)
  BY DEF Batch
<1>2. EndTReward("btc", from, to).log.staking = reward_log["btc"].staking
  <2>1. reward_log["btc"] \in LogType
    BY RewardAssumption DEF RewardInv, RewardTypeOK
  <2>2. PICK log : log = reward_log["btc"]
    OBVIOUS
  <2>3. \E n : EndTReward("btc", from, to).log = IF Returns(log, from, to) THEN log ELSE [log EXCEPT !.assigned = n]
    <3>1. CASE Returns(log, from, to)
      BY <2>2, <3>1 DEF EndTReward
    <3>2. CASE ~Returns(log, from, to)
      BY <2>2, <3>2 DEF EndTReward
    <3> QED
      BY <3>1, <3>2
  <2> QED
    BY <2>1, <2>2, <2>3 DEF LogType
<1>3. reward_log'["btc"] = EndTReward("btc", from, to).log
  BY <1>1, RewardAssumption DEF EndTRewards
<1> QED
  BY <1>2, <1>3

\* Each step leaves logs as they are, adds those of a height whose reward was paid,
\* or deletes some.
LogsStep ==
  \/ UNCHANGED <<irreversible_height, reward_logs>>
  \/ /\ distributing /\ irreversible_height' = NextHeight
     /\ reward_logs' = Put(reward_logs, NextHeight,
                           [btc |-> reward_log["btc"], xsat |-> reward_log["xsat"],
                            synchronizer |-> migrating.synchronizer])
  \/ /\ UNCHANGED irreversible_height
     /\ \E K : reward_logs' = Drop(reward_logs, K)

\* Every step of the system is such a step.
LEMMA LogsChange ==
  ASSUME [FeesStep(ProviderLists, 1..MaxHeight, Deposits)]_feesVars
  PROVE  LogsStep /\ (migrating' = migrating \/ migrating' \in [synchronizer : Pools, parser : Pools])
<1>1. CASE StartBlock(ProviderLists)
  BY <1>1 DEF StartBlock, LogsStep
<1>2. CASE RewardBatch
  <2>1. distributing /\ migrating' = migrating
    BY <1>2 DEF RewardBatch, Batch
  <2>2. CASE distributing'
    BY <1>2, <2>1, <2>2 DEF RewardBatch, LogsStep
  <2>3. CASE ~distributing'
    BY <1>2, <2>1, <2>3 DEF RewardBatch, LogsStep
  <2> QED
    BY <2>1, <2>2, <2>3
<1>3. CASE GasNext(Deposits) /\ UNCHANGED <<irreversible_height, migrating>>
  <2>1. CASE \E a, b \in DOMAIN reward_logs : delrewardlog(a, b)
    BY <1>3, <2>1 DEF delrewardlog, LogsStep
  <2>2. CASE ~\E a, b \in DOMAIN reward_logs : delrewardlog(a, b)
    <3>1. UNCHANGED reward_logs
      BY <1>3, <2>2 DEF GasNext, distribute, enfclaim, ramsclaim, handle_evm_fees_transfer, receiver_claim,
         SaveConfig, deldistribut
    <3> QED
      BY <1>3, <3>1 DEF LogsStep
  <2> QED
    BY <2>1, <2>2
<1>4. CASE UNCHANGED <<irreversible_height, migrating, reward_logs>>
  BY <1>4 DEF LogsStep
<1>5. CASE UNCHANGED feesVars
  BY <1>5 DEF feesVars, LogsStep
<1> QED
  BY <1>1, <1>2, <1>3, <1>4, <1>5 DEF FeesStep

\* The logs of a height whose block was rewarded are what the fund expects.
LEMMA LogsAreHeld ==
  ASSUME RewardInv, LogsHeld, [FeesStep(ProviderLists, 1..MaxHeight, Deposits)]_feesVars
  PROVE  LogsHeld'
<1>0. /\ irreversible_height \in Nat /\ migrating \in [synchronizer : Pools, parser : Pools]
      /\ DOMAIN reward_logs \subseteq 0..irreversible_height /\ reward_logs = [h \in DOMAIN reward_logs |-> reward_logs[h]]
      /\ \A h \in DOMAIN reward_logs : LogsOK(reward_logs[h])
  BY DEF LogsHeld
<1>1. LogsStep /\ migrating' \in [synchronizer : Pools, parser : Pools]
  BY <1>0, LogsChange
<1>2. CASE UNCHANGED <<irreversible_height, reward_logs>>
  BY <1>0, <1>1, <1>2 DEF LogsHeld, LogsOK
<1>3. CASE /\ distributing /\ irreversible_height' = NextHeight
           /\ reward_logs' = Put(reward_logs, NextHeight,
                                 [btc |-> reward_log["btc"], xsat |-> reward_log["xsat"],
                                  synchronizer |-> migrating.synchronizer])
  <2>1. PICK logs, n : /\ n = NextHeight /\ logs = [btc |-> reward_log["btc"], xsat |-> reward_log["xsat"],
                                                  synchronizer |-> migrating.synchronizer]
    OBVIOUS
  <2>2. LogsOK(logs)
    <3>1. reward_log["btc"] \in LogType /\ reward_log["xsat"] \in LogType
      BY RewardAssumption DEF RewardInv, RewardTypeOK
    <3>2. logs \in RewardLogs
      BY <1>0, <2>1, <3>1 DEF RewardLogs
    <3>3. reward_log["btc"].providers # << >>
      BY <1>3 DEF RewardInv, LogsOfHeight, LogExists
    <3>4. ASSUME reward_log["xsat"].providers = << >> PROVE reward_log["xsat"].consensus = 0
      <4>1. reward_log["xsat"] = NoLog
        BY <3>4, RewardAssumption DEF RewardInv, LogsOfHeight, LogExists
      <4> QED
        BY <4>1 DEF NoLog
    <3> QED
      BY <2>1, <3>2, <3>3, <3>4 DEF LogsOK
  <2>3. reward_logs' = [h \in DOMAIN reward_logs \cup {n} |-> IF h = n THEN logs ELSE reward_logs[h]]
    BY <1>3, <2>1 DEF Put
  <2>4. DOMAIN reward_logs' \subseteq 0..irreversible_height' /\ irreversible_height' \in Nat
    BY <1>0, <1>3, <2>1, <2>3 DEF NextHeight
  <2>5. \A h \in DOMAIN reward_logs' : LogsOK(reward_logs'[h])
    BY <1>0, <2>2, <2>3
  <2>6. reward_logs' = [h \in DOMAIN reward_logs' |-> reward_logs'[h]]
    BY <2>3
  <2> QED
    BY <1>1, <2>4, <2>5, <2>6 DEF LogsHeld, LogsOK
<1>4. CASE UNCHANGED irreversible_height /\ \E K : reward_logs' = Drop(reward_logs, K)
  <2>1. PICK K : reward_logs' = [h \in DOMAIN reward_logs \ K |-> reward_logs[h]]
    BY <1>4 DEF Drop, Restrict
  <2>2. DOMAIN reward_logs' \subseteq 0..irreversible_height' /\ irreversible_height' \in Nat
    BY <1>0, <1>4, <2>1
  <2>3. \A h \in DOMAIN reward_logs' : LogsOK(reward_logs'[h])
    BY <1>0, <2>1
  <2>4. reward_logs' = [h \in DOMAIN reward_logs' |-> reward_logs'[h]]
    BY <2>1
  <2> QED
    BY <1>1, <2>2, <2>3, <2>4 DEF LogsHeld, LogsOK
<1> QED
  BY <1>1, <1>2, <1>3, <1>4 DEF LogsStep

\* Under the rates expected, every log of a height has a staking part.
LEMMA StakingIsLogged ==
  ASSUME RewardInv, StakingLogged, [FeesStep(ProviderLists, 1..MaxHeight, Deposits)]_feesVars
  PROVE  StakingLogged'
<1> SUFFICES ASSUME SubsidyIsStaked
             PROVE  /\ LogExists("btc")' => reward_log'["btc"].staking > 0
                    /\ \A h \in DOMAIN reward_logs' : reward_logs'[h].btc.staking > 0
  <2>1. SubsidyIsStaked' => SubsidyIsStaked
    BY DEF SubsidyIsStaked
  <2> QED
    BY <2>1 DEF StakingLogged
<1>0. /\ LogExists("btc") => reward_log["btc"].staking > 0
      /\ \A h \in DOMAIN reward_logs : reward_logs[h].btc.staking > 0
  BY DEF StakingLogged
<1>1. LogExists("btc")' => reward_log'["btc"].staking > 0
  <2>1. CASE StartBlock(ProviderLists)
    BY <2>1, StakingStarts DEF StartBlock
  <2>2. CASE RewardBatch
    <3>1. LogExists("btc") /\ reward_log'["btc"].staking = reward_log["btc"].staking
      BY <2>2, BatchKeepsStaking DEF RewardBatch, Batch, RewardInv, LogsOfHeight
    <3> QED
      BY <1>0, <3>1
  <2>3. CASE UNCHANGED allRewardVars
    BY <1>0, <2>3 DEF allRewardVars, rewardVars, LogExists
  <2>4. CASE UNCHANGED feesVars
    BY <1>0, <2>4 DEF feesVars, allRewardVars, rewardVars, LogExists
  <2> QED
    BY <2>1, <2>2, <2>3, <2>4 DEF FeesStep
<1>2. \A h \in DOMAIN reward_logs' : reward_logs'[h].btc.staking > 0
  <2>1. LogsStep
    BY LogsChange
  <2>2. CASE UNCHANGED reward_logs
    BY <1>0, <2>2
  <2>3. CASE /\ distributing
             /\ reward_logs' = Put(reward_logs, NextHeight,
                                   [btc |-> reward_log["btc"], xsat |-> reward_log["xsat"],
                                    synchronizer |-> migrating.synchronizer])
    <3>1. reward_log["btc"].staking > 0
      BY <1>0, <2>3 DEF RewardInv, LogsOfHeight
    <3> QED
      BY <1>0, <2>3, <3>1 DEF Put
  <2>4. CASE \E K : reward_logs' = Drop(reward_logs, K)
    BY <1>0, <2>4 DEF Drop, Restrict
  <2> QED
    BY <2>1, <2>2, <2>3, <2>4 DEF LogsStep
<1> QED
  BY <1>1, <1>2

\* Rewards, pools and rescmng.xsat leave the fund alone, and the fund keeps what it
\* has.
LEMMA FeesStepKeepsFund ==
  ASSUME LogsHeld, StakingLogged, FundInv, [FeesStep(ProviderLists, 1..MaxHeight, Deposits)]_feesVars
  PROVE  FundInv'
<1>0. /\ 1..MaxHeight \in SUBSET Nat /\ Deposits \in SUBSET Nat /\ fees_stat.last_height \in Nat
      /\ ResourceTypeOK /\ PrepaidHeld
  BY FeesAssumption, ResourceAssumption DEF FundInv, GasInv, FundTypeOK
<1>1. ASSUME UNCHANGED <<gasVars, resourceVars>> PROVE FundInv'
  BY <1>1 DEF gasVars, resourceVars, FundInv, GasInv, FundTypeOK, RecordsOK, ResourceTypeOK, PrepaidHeld
<1>2. CASE StartBlock(ProviderLists)
  BY <1>1, <1>2 DEF StartBlock, fundVars
<1>3. CASE RewardBatch
  BY <1>1, <1>3 DEF RewardBatch
<1>4. CASE ResourceNext(1..MaxHeight) /\ UNCHANGED gasVars
  <2>1. ResourceKept(fees_stat.last_height)
    BY <1>0, <1>4, ResourceStep
  <2> QED
    BY <1>4, <2>1, FundKept
<1>5. CASE PoolNext(1..MaxHeight) /\ UNCHANGED <<resourceVars, gasVars>>
  BY <1>1, <1>5
<1>6. CASE (\E s, t \in Pools : buyslot(s, t, 1)) /\ UNCHANGED <<resource_config, gasVars>>
  <2>1. PICK s, t : buyslot(s, t, 1)
    BY <1>6
  <2>2. pay(0, s, "BUY_SLOT", 1) /\ resource_config' = resource_config
    BY <1>6, <2>1 DEF buyslot
  <2>3. ResourceKept(fees_stat.last_height)
    BY <1>0, <2>2, PayKeeps DEF FeeTypes
  <2> QED
    BY <1>6, <2>3, FundKept
<1>7. CASE GasNext(Deposits)
  BY <1>0, <1>7, GasStep
<1>8. CASE UNCHANGED feesVars
  BY <1>1, <1>8 DEF feesVars, fundVars
<1> QED
  BY <1>2, <1>3, <1>4, <1>5, <1>6, <1>7, <1>8 DEF FeesStep

\* At the start nothing was paid, logged or shared.
LEMMA FeesInitHeld == FeesInit => LogsHeld /\ StakingLogged /\ FundInv
<1> SUFFICES ASSUME FeesInit PROVE LogsHeld /\ StakingLogged /\ FundInv
  OBVIOUS
<1>1. /\ reward_logs = << >> /\ distributes = << >> /\ details = << >> /\ consensus_fees = << >>
      /\ account = << >> /\ feestat = << >> /\ gas_config \in GasConfigs
      /\ resource_config = [saved |-> FALSE, disabled_withdraw |-> FALSE, cost |-> NoCost]
      /\ btc = [rescmng |-> 0, fees |-> 0, gasfund |-> 0]
      /\ fees_stat = [last_height |-> 0, last_evm_height |-> 0,
                      enf_unclaimed |-> 0, rams_unclaimed |-> 0, consensus_unclaimed |-> 0]
      /\ irreversible_height = InitialHeight /\ migrating \in [synchronizer : Pools, parser : Pools]
  BY DEF FeesInit, ResourceInit, GasInit
<1>2. DOMAIN reward_logs = {} /\ DOMAIN distributes = {} /\ DOMAIN details = {} /\ DOMAIN consensus_fees = {}
      /\ DOMAIN account = {} /\ DOMAIN feestat = {} /\ IsFiniteSet({})
  BY <1>1, FS_EmptySet
<1>3. LogsHeld
  <2>1. irreversible_height \in Nat
    BY <1>1, FeesAssumption
  <2>2. reward_logs = [h \in DOMAIN reward_logs |-> reward_logs[h]]
    BY <1>1, <1>2
  <2> QED
    BY <1>1, <1>2, <2>1, <2>2 DEF LogsHeld
<1>4. StakingLogged
  <2>1. reward_log["btc"] = NoLog
    BY RewardAssumption DEF FeesInit, RewardInit
  <2> QED
    BY <1>2, <2>1 DEF StakingLogged, LogExists, NoLog
<1>5. Sum(account) = 0 /\ Sum(consensus_fees) = 0
  BY <1>2, SumEmpty DEF Sum, SumFunction
<1>6. FeesAbove(feestat, 0) = 0
  <2>1. PICK g : g = Restrict(feestat, {h \in DOMAIN feestat : h > 0})
    OBVIOUS
  <2>2. DOMAIN g = {}
    BY <1>2, <2>1 DEF Restrict
  <2> QED
    BY <2>1, <2>2, SumEmpty DEF FeesAbove, Sum, SumFunction
<1>7. ResourceTypeOK /\ PrepaidHeld
  <2>1. NoCost \in [FeeTypes -> Nat]
    BY DEF NoCost
  <2>2. resource_config \in [saved : BOOLEAN, disabled_withdraw : BOOLEAN, cost : [FeeTypes -> Nat]]
    BY <1>1, <2>1
  <2>3. account \in [DOMAIN account -> Nat] /\ feestat \in [DOMAIN feestat -> Nat]
    BY <1>1, <1>2
  <2> QED
    BY <1>1, <1>2, <1>5, <2>2, <2>3 DEF ResourceTypeOK, PrepaidHeld
<1>8. FundTypeOK
  <2>1. distributes \in [DOMAIN distributes -> [total_rewards : Nat, end_height : Nat]]
        /\ details \in [DOMAIN details -> Seq(Detail) \ {<< >>}] /\ consensus_fees \in [DOMAIN consensus_fees -> Int]
    BY <1>1, <1>2
  <2> QED
    BY <1>1, <1>2, <2>1 DEF FundTypeOK
<1>9. FundInv
  BY <1>1, <1>2, <1>5, <1>6, <1>7, <1>8 DEF FundInv, GasInv, RecordsOK
<1> QED
  BY <1>3, <1>4, <1>9

\* The invariant says more than the property: fees below the first window too are
\* still with the fee account.
LEMMA FundInvHeld ==
  ASSUME SubsidyIsStaked, FundInv
  PROVE  FeesAreHeld
<1>1. PICK a, b : a = FeesAbove(feestat, fees_stat.last_height) /\ b = FeesAbove(feestat, WindowStart)
  OBVIOUS
<1>2. PICK x, y : x = fees_stat.last_height /\ y = WindowStart
  OBVIOUS
<1>3. x \in Nat /\ y \in Nat /\ x <= y
  BY <1>2, GasFundAssumption DEF FundInv, GasInv, FundTypeOK, WindowStart
<1>4. /\ Sum(Restrict(feestat, {})) \in Nat /\ FeesAbove(feestat, y) \in Nat /\ FeesAbove(feestat, x) \in Nat
      /\ FeesAbove(feestat, x) >= Sum(Restrict(feestat, {})) + FeesAbove(feestat, y)
  <2>1. PICK H : H = {}
    OBVIOUS
  <2>2. H \in SUBSET DOMAIN feestat /\ \A h \in H : x < h /\ h <= y
    BY <2>1
  <2>3. /\ Sum(Restrict(feestat, H)) \in Nat /\ FeesAbove(feestat, y) \in Nat /\ FeesAbove(feestat, x) \in Nat
        /\ FeesAbove(feestat, x) >= Sum(Restrict(feestat, H)) + FeesAbove(feestat, y)
    BY <1>3, <2>2, FeesOfHeights DEF FundInv
  <2> QED
    BY <2>1, <2>3
<1>5. btc.fees >= b
  BY <1>1, <1>2, <1>4 DEF FundInv, ResourceTypeOK
<1>6. b = Sum(Restrict(feestat, {h \in DOMAIN feestat : h > WindowStart}))
  BY <1>1 DEF FeesAbove
<1> QED
  BY <1>5, <1>6 DEF FundInv, GasInv, PrepaidHeld, FeesAreHeld

\* The logs and the fund at every point.
FeesInv == RewardInv /\ LogsHeld /\ StakingLogged /\ FundInv

\* They hold in every state of the composition.
LEMMA FeesInvHolds == FeesSpec => []FeesInv
<1>1. FeesInit => LogsHeld /\ StakingLogged /\ FundInv
  BY FeesInitHeld
<1>2. RewardInv /\ LogsHeld /\ StakingLogged /\ FundInv
        /\ [FeesStep(ProviderLists, 1..MaxHeight, Deposits)]_feesVars
        => LogsHeld' /\ StakingLogged' /\ FundInv'
  BY LogsAreHeld, StakingIsLogged, FeesStepKeepsFund
<1>3. FeesSpec => []RewardInv
  BY FeesImplementRewards, RewardInvHolds, PTL
<1> QED
  BY <1>1, <1>2, <1>3, PTL DEF FeesSpec, FeesInv

\* Every BTC paid, deposited or shared is where it is counted, in every window, with
\* EVM transfers, claims, late fees and deletions in any order; if the rates leave
\* the validators something of each subsidy, so that a window that has a reward has
\* a validator that takes what is left over.
THEOREM FeesAreHeldHolds == SubsidyIsStaked /\ FeesSpec => []FeesAreHeld
<1>1. SubsidyIsStaked /\ FeesInv => FeesAreHeld
  BY FundInvHeld DEF FeesInv
<1>2. SubsidyIsStaked => []SubsidyIsStaked
  <2>1. SubsidyIsStaked => SubsidyIsStaked'
    BY DEF SubsidyIsStaked
  <2> QED
    BY <2>1, PTL
<1> QED
  BY <1>1, <1>2, FeesInvHolds, PTL

-----------------------------------------------------------------------------
(* What was paid and what is divided anew. *)

\* Only the providers of a log were paid from it.
PaidToProviders ==
  \A s \in RewardScopes : \A v \in Validators \ Range(reward_log[s].providers) : paid[s][v] = 0

\* A log that was paid in full.
PaidOut(log, got) ==
  /\ got \in [Validators -> Nat] /\ Sum(got) = log.consensus + log.staking
  /\ \A i \in 1..(Len(log.providers) - 1) : got[log.providers[i]] = StakingShare(log, i) + ConsensusShare(log)
  /\ \A v \in Validators \ Range(log.providers) : got[v] = 0

\* A batch changes nothing of a log but how far it is paid, and pays its providers.
LEMMA BatchKeepsLog ==
  ASSUME RewardInv, PaidToProviders, Batch, NEW s \in RewardScopes
  PROVE  /\ reward_log[s] \in LogType
         /\ \E m \in Nat : reward_log'[s] = [reward_log[s] EXCEPT !.assigned = m]
         /\ \A v \in Validators \ Range(reward_log[s].providers) : paid'[s][v] = 0
<1>0. PICK from, to : /\ from = num_validators_assigned
                      /\ to = Min({from + num_validators_per_distribution, num_provider_validators})
  OBVIOUS
<1>1. EndTRewards(from, to, active_here)
  BY <1>0 DEF Batch
<1>2. PICK log, got : log = reward_log[s] /\ got = paid[s]
  OBVIOUS
<1>3. log \in LogType /\ got \in [Validators -> Nat] /\ \A v \in Validators \ Range(log.providers) : got[v] = 0
  BY <1>2 DEF RewardInv, RewardTypeOK, PaidToProviders
<1>4. /\ log.assigned \in Nat /\ log = [log EXCEPT !.assigned = log.assigned] /\ Len(log.providers) \in Nat
      /\ DOMAIN log.providers = 1..Len(log.providers)
  BY <1>3 DEF LogType
<1>5. \/ reward_log'[s] = log /\ paid'[s] = got
      \/ reward_log'[s] = EndTReward(s, from, to).log /\ paid'[s] = EndTReward(s, from, to).paid
  <2>1. PICK called : called = {"btc"} \cup (IF active_here /\ LogExists("xsat") THEN {"xsat"} ELSE {})
    OBVIOUS
  <2>2. PICK result : result = [x \in called |-> EndTReward(x, from, to)]
    OBVIOUS
  <2>3. /\ reward_log' = [x \in RewardScopes |-> IF x \in called THEN result[x].log ELSE reward_log[x]]
        /\ paid' = [x \in RewardScopes |-> IF x \in called THEN result[x].paid ELSE paid[x]]
    BY <1>1, <2>1, <2>2 DEF EndTRewards
  <2>4. CASE s \in called
    BY <2>2, <2>3, <2>4
  <2>5. CASE s \notin called
    BY <1>2, <2>3, <2>5
  <2> QED
    BY <2>4, <2>5
<1>6. CASE reward_log'[s] = log /\ paid'[s] = got
  BY <1>2, <1>3, <1>4, <1>6
<1>7. CASE reward_log'[s] = EndTReward(s, from, to).log /\ paid'[s] = EndTReward(s, from, to).paid
  <2>1. CASE Returns(log, from, to)
    <3>1. EndTReward(s, from, to).log = log /\ EndTReward(s, from, to).paid = got
      BY <1>2, <2>1 DEF EndTReward
    <3> QED
      BY <1>2, <1>3, <1>4, <1>7, <3>1
  <2>2. CASE ~Returns(log, from, to)
    <3>1. PICK m, slice, share, new :
            /\ m = Min({to, Len(log.providers)}) /\ slice = (from + 1)..m
            /\ share = Shares(log, reward_balance[s], slice)
            /\ new = [v \in Validators |-> got[v] + Sum(Restrict(share, {i \in slice : log.providers[i] = v}))]
      OBVIOUS
    <3>2. EndTReward(s, from, to).log = [log EXCEPT !.assigned = m] /\ EndTReward(s, from, to).paid = new
      BY <1>2, <2>2, <3>1 DEF EndTReward
    <3>3. m \in Nat /\ m <= Len(log.providers) /\ from \in Nat
      <4>1. PICK N : N = num_provider_validators
        OBVIOUS
      <4>2. N \in Nat /\ from \in Nat /\ from + num_validators_per_distribution \in Nat
        BY <1>0, <4>1, RewardAssumption DEF RewardInv, RewardTypeOK
      <4>3. to = IF from + num_validators_per_distribution <= N THEN from + num_validators_per_distribution ELSE N
        BY <1>0, <4>1, <4>2, MinOfTwo
      <4>4. m = IF to <= Len(log.providers) THEN to ELSE Len(log.providers)
        BY <1>4, <3>1, <4>2, <4>3, MinOfTwo
      <4> QED
        BY <1>4, <4>2, <4>3, <4>4
    <3>4. ASSUME NEW v \in Validators \ Range(log.providers) PROVE new[v] = 0
      <4>1. {i \in slice : log.providers[i] = v} = {}
        BY <1>4, <3>1, <3>3, <3>4 DEF Range
      <4>2. PICK q : q = Restrict(share, {i \in slice : log.providers[i] = v})
        OBVIOUS
      <4>3. DOMAIN q = {}
        BY <4>1, <4>2 DEF Restrict
      <4>4. Sum(q) = 0
        BY <4>3, SumEmpty DEF Sum, SumFunction
      <4> QED
        BY <1>3, <3>1, <3>4, <4>2, <4>4
    <3> QED
      BY <1>2, <1>3, <1>7, <3>2, <3>3, <3>4
  <2> QED
    BY <2>1, <2>2
<1> QED
  BY <1>5, <1>6, <1>7

\* A provider of a list has the parts of its place, and nobody else has any.
LEMMA PartOfProvider ==
  ASSUME NEW log \in LogType, IsInjective(log.providers), NEW d, DOMAIN d \in SUBSET (1..Len(log.providers)),
         \A i \in DOMAIN d : d[i] \in Int
  PROVE  /\ \A i \in DOMAIN d : OfValidator(log, d, log.providers[i]) = d[i]
         /\ \A v : (\A i \in DOMAIN d : log.providers[i] # v) => OfValidator(log, d, v) = 0
<1>1. PICK p, n : p = log.providers /\ n = Len(p)
  OBVIOUS
<1>2. n \in Nat /\ DOMAIN p = 1..n /\ \A i, j \in 1..n : p[i] = p[j] => i = j
  BY <1>1 DEF LogType, IsInjective
<1>3. ASSUME NEW i \in DOMAIN d PROVE OfValidator(log, d, p[i]) = d[i]
  <2>1. PICK q : q = Restrict(d, {j \in DOMAIN d : p[j] = p[i]})
    OBVIOUS
  <2>2. {j \in DOMAIN d : p[j] = p[i]} = {i}
    BY <1>1, <1>2
  <2>3. DOMAIN q = {i} /\ q[i] = d[i] /\ q[i] \in Int
    BY <2>1, <2>2 DEF Restrict
  <2>4. Sum(q) = q[i]
    BY <2>3, SumSingle DEF Sum, SumFunction
  <2> QED
    BY <1>1, <2>1, <2>3, <2>4 DEF OfValidator
<1>4. ASSUME NEW v, \A i \in DOMAIN d : p[i] # v PROVE OfValidator(log, d, v) = 0
  <2>1. PICK q : q = Restrict(d, {j \in DOMAIN d : p[j] = v})
    OBVIOUS
  <2>2. DOMAIN q = {}
    BY <1>4, <2>1 DEF Restrict
  <2>3. Sum(q) = 0
    BY <2>2, SumEmpty DEF Sum, SumFunction
  <2> QED
    BY <1>1, <2>1, <2>3 DEF OfValidator
<1> QED
  BY <1>1, <1>3, <1>4

\* The last of a list has what the others leave: two divisions of one amount that
\* agree on the others agree on it.
LEMMA PaidAsDivided ==
  ASSUME NEW log \in LogType, log.providers # << >>, IsInjective(log.providers), NEW got, PaidOut(log, got),
         NEW d, DOMAIN d = 1..Len(log.providers), \A i \in DOMAIN d : d[i] \in Int,
         SumFunctionOnSet(d, DOMAIN d) = log.consensus + log.staking,
         \A i \in 1..(Len(log.providers) - 1) : d[i] = StakingShare(log, i) + ConsensusShare(log)
  PROVE  \A v \in Validators : OfValidator(log, d, v) = got[v]
<1>1. PICK p, n : p = log.providers /\ n = Len(p)
  OBVIOUS
<1>2. /\ n \in Nat \ {0} /\ DOMAIN p = 1..n /\ (\A i, j \in 1..n : p[i] = p[j] => i = j)
      /\ \A i \in 1..n : p[i] \in Validators
  BY <1>1, EndorsedPositive DEF IsInjective
<1>3. /\ got \in [Validators -> Nat] /\ Sum(got) = log.consensus + log.staking
      /\ \A i \in 1..(n - 1) : got[p[i]] = d[i]
      /\ \A v \in Validators \ Range(p) : got[v] = 0
  BY <1>1, <1>2 DEF PaidOut
<1>4. PICK e, none : e = [i \in 1..n |-> got[p[i]]] /\ none = [v \in Validators |-> 0]
  OBVIOUS
<1>5. e \in [1..n -> Nat] /\ none \in [Validators -> Nat] /\ \A v \in Validators : none[v] = 0
  BY <1>2, <1>3, <1>4
<1>6. SharesAdded(none, e, 1..n, p, PaidAfter(none, e, 1..n, p))
  <2>1. IsFiniteSet(1..n)
    BY <1>2, FS_Interval
  <2> QED
    BY <1>2, <1>5, <2>1, SharesReceived
<1>7. PICK new : new = PaidAfter(none, e, 1..n, p)
  OBVIOUS
<1>8. /\ new \in [Validators -> Nat] /\ Sum(new) = Sum(none) + Sum(e)
      /\ \A j \in 1..n : new[p[j]] = none[p[j]] + e[j]
      /\ \A v \in Validators : (\A i \in 1..n : p[i] # v) => new[v] = none[v]
  BY <1>2, <1>6, <1>7 DEF SharesAdded
<1>9. new = got
  <2>1. ASSUME NEW v \in Validators PROVE new[v] = got[v]
    <3>1. CASE \E i \in 1..n : p[i] = v
      BY <1>2, <1>4, <1>5, <1>8, <3>1
    <3>2. CASE \A i \in 1..n : p[i] # v
      <4>1. v \notin Range(p)
        BY <1>2, <3>2 DEF Range
      <4> QED
        BY <1>3, <1>5, <1>8, <3>2, <4>1
    <3> QED
      BY <3>1, <3>2
  <2> QED
    BY <1>3, <1>8, <2>1
<1>10. SumFunctionOnSet(e, 1..n) = SumFunctionOnSet(d, 1..n)
  <2>1. Sum(none) = 0
    BY <1>4, NothingReceived
  <2>2. Sum(e) = SumFunctionOnSet(e, 1..n) /\ SumFunctionOnSet(e, 1..n) \in Int
    <3>1. IsFiniteSet(1..n) /\ \A i \in 1..n : e[i] \in Int
      BY <1>2, <1>5, FS_Interval
    <3>2. DOMAIN e = 1..n
      BY <1>5
    <3> QED
      BY <3>1, <3>2, SumType DEF Sum, SumFunction
  <2> QED
    BY <1>1, <1>3, <1>8, <1>9, <2>1, <2>2
<1>11. e[n] = d[n]
  <2>1. PICK k : k = n - 1
    OBVIOUS
  <2>2. k \in Nat /\ n = k + 1 /\ 1..k \subseteq 1..n /\ n \in 1..n
    BY <1>2, <2>1
  <2>3. (\A i \in 1..(k + 1) : e[i] \in Int) /\ \A i \in 1..(k + 1) : d[i] \in Int
    BY <1>1, <1>5, <2>2
  <2>4. /\ SumFunctionOnSet(e, 1..(k + 1)) = SumFunctionOnSet(e, 1..k) + e[k + 1]
        /\ SumFunctionOnSet(e, 1..k) \in Int
        /\ SumFunctionOnSet(d, 1..(k + 1)) = SumFunctionOnSet(d, 1..k) + d[k + 1]
    BY <2>2, <2>3, SumUpTo
  <2>5. SumFunctionOnSet(e, 1..k) = SumFunctionOnSet(d, 1..k)
    <3>1. IsFiniteSet(1..k)
      BY <2>2, FS_Interval
    <3>2. \A i \in 1..k : d[i] \in Int /\ e[i] = d[i]
      BY <1>3, <1>4, <2>1, <2>2, <2>3
    <3> QED
      BY <3>1, <3>2, SumEqual
  <2> QED
    BY <1>10, <2>2, <2>3, <2>4, <2>5
<1>12. \A i \in 1..n : got[p[i]] = d[i]
  BY <1>2, <1>3, <1>4, <1>11
<1>13. /\ \A i \in 1..n : OfValidator(log, d, p[i]) = d[i]
       /\ \A v : (\A i \in 1..n : p[i] # v) => OfValidator(log, d, v) = 0
  BY <1>1, PartOfProvider
<1> QED
  <2> SUFFICES ASSUME NEW v \in Validators PROVE OfValidator(log, d, v) = got[v]
    OBVIOUS
  <2>1. CASE \E i \in 1..n : p[i] = v
    BY <1>12, <1>13, <2>1
  <2>2. CASE \A i \in 1..n : p[i] # v
    <3>1. v \notin Range(p)
      BY <1>2, <2>2 DEF Range
    <3> QED
      BY <1>3, <1>13, <2>2, <3>1
  <2> QED
    BY <2>1, <2>2

\* Without a consensus part, the BTC validators were paid what the fund computes.
LEMMA BtcPaidAsDivided ==
  ASSUME NEW log \in LogType, log.providers # << >>, IsInjective(log.providers), NEW got, PaidOut(log, got),
         log.consensus = 0
  PROVE  \A v \in Validators : OfValidator(log, BtcRewards(log), v) = got[v]
<1>1. PICK d, n : d = BtcRewards(log) /\ n = Len(log.providers)
  OBVIOUS
<1>2. /\ DOMAIN d \in SUBSET (1..n) /\ (\A i \in DOMAIN d : d[i] \in Nat)
      /\ SumFunctionOnSet(d, DOMAIN d) = IF log.staking = 0 THEN 0 ELSE BtcReward(log)
      /\ log.staking # 0 => DOMAIN d = 1..n /\ \A i \in 1..(n - 1) : d[i] = BtcPart(log, i)
  BY <1>1, BtcDivided
<1>3. n \in Nat \ {0} /\ log.staking \in Nat /\ DOMAIN log.providers = 1..n
  BY <1>1, EndorsedPositive DEF LogType
<1>4. CASE log.staking = 0
  <2>1. d = << >>
    BY <1>1, <1>4 DEF BtcRewards
  <2>2. DOMAIN d = {}
    BY <2>1
  <2>3. \A v : OfValidator(log, d, v) = 0
    BY <1>1, <1>2, <2>2, PartOfProvider
  <2>4. ASSUME NEW v \in Validators PROVE got[v] = 0
    <3>1. got \in [Validators -> Nat] /\ Sum(got) = 0
      BY <1>4 DEF PaidOut
    <3>2. DOMAIN got = Validators /\ \A x \in Validators : got[x] \in Nat
      BY <3>1
    <3>3. got[v] <= SumFunctionOnSet(got, Validators)
      BY <3>2, RewardAssumption, SumBound
    <3>4. SumFunctionOnSet(got, Validators) = 0
      BY <3>1, <3>2 DEF Sum, SumFunction
    <3> QED
      BY <3>2, <3>3, <3>4
  <2> QED
    BY <1>1, <2>3, <2>4
<1>5. CASE log.staking # 0
  <2>1. BtcReward(log) = log.staking /\ ConsensusShare(log) = 0
    <3>1. 0 \div n = 0 /\ log.staking + 0 = log.staking
      BY <1>3
    <3> QED
      BY <1>1, <3>1 DEF BtcReward, ConsensusShare
  <2>2. \A i \in 1..(n - 1) : d[i] = StakingShare(log, i) + ConsensusShare(log)
    <3> SUFFICES ASSUME NEW i \in 1..(n - 1) PROVE d[i] = StakingShare(log, i) + ConsensusShare(log)
      OBVIOUS
    <3>1. i \in DOMAIN d
      BY <1>2, <1>3, <1>5
    <3>2. d[i] = StakingShare(log, i) /\ d[i] \in Nat
      BY <1>2, <1>5, <2>1, <3>1 DEF BtcPart, StakingShare
    <3> QED
      BY <2>1, <3>2
  <2>3. DOMAIN d = 1..n /\ \A i \in DOMAIN d : d[i] \in Int
    BY <1>2, <1>5
  <2>4. SumFunctionOnSet(d, DOMAIN d) = log.consensus + log.staking
    BY <1>2, <1>3, <1>5, <2>1
  <2> QED
    BY <1>1, <2>2, <2>3, <2>4, PaidAsDivided
<1> QED
  BY <1>4, <1>5

\* The XSAT validators always.
LEMMA XsatPaidAsDivided ==
  ASSUME NEW log \in LogType, log.providers = << >> => log.consensus = 0, log.staking = 0,
         IsInjective(log.providers), NEW got, PaidOut(log, got)
  PROVE  \A v \in Validators : OfValidator(log, XsatRewards(log), v) = got[v]
<1>1. PICK d, n : d = XsatRewards(log) /\ n = Len(log.providers)
  OBVIOUS
<1>2. /\ n \in Nat /\ DOMAIN d = 1..n /\ (\A i \in DOMAIN d : d[i] \in Nat)
      /\ SumFunctionOnSet(d, DOMAIN d) = log.consensus
      /\ \A i \in 1..(n - 1) : d[i] = ConsensusShare(log)
  BY <1>1, XsatDivided
<1>3. CASE log.providers = << >>
  <2>1. DOMAIN d = {} /\ Range(log.providers) = {}
    BY <1>1, <1>2, <1>3 DEF Range
  <2>2. \A v : OfValidator(log, d, v) = 0
    BY <1>1, <1>2, <2>1, PartOfProvider
  <2> QED
    BY <1>1, <2>1, <2>2 DEF PaidOut
<1>4. CASE log.providers # << >>
  <2>1. \A i \in 1..(n - 1) : d[i] = StakingShare(log, i) + ConsensusShare(log)
    <3> SUFFICES ASSUME NEW i \in 1..(n - 1) PROVE d[i] = StakingShare(log, i) + ConsensusShare(log)
      OBVIOUS
    <3>1. EndorsedStaking(log) \in Nat \ {0} /\ Staking[log.providers[i]] \in Nat
      BY <1>1, <1>2, <1>4, EndorsedPositive
    <3>2. StakingShare(log, i) = 0
      BY <3>1 DEF StakingShare
    <3>3. d[i] \in Nat
      BY <1>2
    <3> QED
      BY <1>2, <3>2, <3>3
  <2>2. SumFunctionOnSet(d, DOMAIN d) = log.consensus + log.staking /\ \A i \in DOMAIN d : d[i] \in Int
    BY <1>2 DEF LogType
  <2> QED
    BY <1>1, <1>2, <1>4, <2>1, <2>2, PaidAsDivided
<1> QED
  BY <1>3, <1>4

\* When the last batch is done, both logs were paid in full.
PaidInFull ==
  \A s \in RewardScopes :
    /\ PaidOut(reward_log[s], paid[s]) /\ IsInjective(reward_log[s].providers)
    /\ reward_log[s].providers = << >> => reward_log[s].consensus = 0

\* After the last batch both logs are paid as they are divided.
LEMMA LogsPaidOut == RewardInv /\ PaidToProviders /\ ~distributing => PaidInFull
<1> SUFFICES ASSUME RewardInv, PaidToProviders, ~distributing, NEW s \in RewardScopes
             PROVE  /\ PaidOut(reward_log[s], paid[s]) /\ IsInjective(reward_log[s].providers)
                    /\ reward_log[s].providers = << >> => reward_log[s].consensus = 0
  BY DEF PaidInFull
<1>1. PICK log, got : log = reward_log[s] /\ got = paid[s]
  OBVIOUS
<1>2. /\ log \in LogType /\ got \in [Validators -> Nat]
      /\ \A v \in Validators \ Range(log.providers) : got[v] = 0
  BY <1>1 DEF RewardInv, RewardTypeOK, PaidToProviders
<1>3. CASE LogExists(s)
  <2>1. /\ log.providers # << >> /\ IsInjective(log.providers)
        /\ LogInv(log, reward_balance[s], got, num_validators_assigned) /\ num_validators_assigned \in Nat
        /\ Len(log.providers) <= num_validators_assigned
    BY <1>1, <1>3 DEF RewardInv, LogsOfHeight, LogExists, RewardTypeOK
  <2>2. PICK balance, n, last : balance = reward_balance[s] /\ n = num_validators_assigned /\ last = Len(log.providers)
    OBVIOUS
  <2>3. /\ log.assigned = IF n <= last THEN n ELSE last
        /\ log.assigned = last => balance = NoBalance
        /\ Sum(got) + balance.consensus + balance.staking = log.consensus + log.staking
        /\ \A i \in 1..(last - 1) : got[log.providers[i]] =
             IF i <= log.assigned THEN StakingShare(log, i) + ConsensusShare(log) ELSE 0
    <3>1. LogInv(log, balance, got, n) /\ n \in Nat
      BY <2>1, <2>2
    <3> QED
      BY ONLY <1>2, <2>1, <2>2, <3>1, LogInvOf, SMTT(30)
  <2>4. last \in Nat \ {0} /\ log.assigned = last
    BY <1>2, <2>1, <2>2, <2>3, EndorsedPositive
  <2>5. balance.consensus = 0 /\ balance.staking = 0
    BY <2>3, <2>4 DEF NoBalance
  <2>6. Sum(got) \in Int
    <3>1. DOMAIN got = Validators /\ \A v \in Validators : got[v] \in Int
      BY <1>2
    <3> QED
      BY <3>1, RewardAssumption, SumType DEF Sum, SumFunction
  <2>7. Sum(got) = log.consensus + log.staking
    BY <2>3, <2>5, <2>6
  <2>8. \A i \in 1..(last - 1) : got[log.providers[i]] = StakingShare(log, i) + ConsensusShare(log)
    BY <2>3, <2>4
  <2> QED
    BY <1>1, <1>2, <2>1, <2>2, <2>7, <2>8 DEF PaidOut
<1>4. CASE ~LogExists(s)
  <2>1. log = NoLog
    BY <1>1, <1>4 DEF RewardInv, LogsOfHeight
  <2>2. log.providers = << >> /\ log.consensus = 0 /\ log.staking = 0 /\ Range(log.providers) = {}
        /\ IsInjective(log.providers) /\ Len(log.providers) = 0
    BY <2>1 DEF NoLog, Range, IsInjective
  <2>3. got = [v \in Validators |-> 0]
    BY <1>2, <2>2
  <2>4. Sum(got) = 0
    BY <2>3, NothingReceived
  <2> QED
    BY <1>1, <1>2, <2>2, <2>4 DEF PaidOut
<1> QED
  BY <1>3, <1>4

\* The same of the state after a step.
LEMMA LogsPaidOutAfter == RewardInv' /\ PaidToProviders' /\ ~distributing' => PaidInFull'
BY LogsPaidOut, PTL

-----------------------------------------------------------------------------
(* The history of what was received. *)

\* What the fund computes from a pair of logs.
Rewarded(logs, v) ==
  OfValidator(logs.btc, BtcRewards(logs.btc), v) + OfValidator(logs.xsat, XsatRewards(logs.xsat), v)

\* It does not depend on how far the logs are paid.
LEMMA DivisionsStay ==
  ASSUME NEW log \in LogType, NEW m \in Nat, NEW new, new = [log EXCEPT !.assigned = m], NEW v
  PROVE  /\ OfValidator(new, BtcRewards(new), v) = OfValidator(log, BtcRewards(log), v)
         /\ OfValidator(new, XsatRewards(new), v) = OfValidator(log, XsatRewards(log), v)
<1>1. /\ new.providers = log.providers /\ new.consensus = log.consensus /\ new.staking = log.staking
      /\ EndorsedStaking(new) = EndorsedStaking(log)
  BY SharesStay
<1>2. BtcReward(new) = BtcReward(log)
  BY <1>1 DEF BtcReward
<1>3. \A i : BtcPart(new, i) = BtcPart(log, i)
  BY <1>1, <1>2 DEF BtcPart
<1>4. [i \in 1..Len(new.providers) |-> BtcPart(new, i)] = [i \in 1..Len(log.providers) |-> BtcPart(log, i)]
  BY <1>1, <1>3
<1>5. BtcRewards(new) = BtcRewards(log)
  BY <1>1, <1>2, <1>4 DEF BtcRewards
<1>6. XsatRewards(new) = XsatRewards(log)
  BY <1>1 DEF XsatRewards
<1> QED
  BY <1>1, <1>5, <1>6 DEF OfValidator

\* The batch that completes a height leaves the validators what the fund will compute.
LEMMA HeightPaid ==
  ASSUME RewardInv, PaidToProviders, RewardInv', PaidToProviders', Batch, ~distributing',
         NEW logs, logs.btc = reward_log["btc"], logs.xsat = reward_log["xsat"], logs.btc.consensus = 0,
         NEW v \in Validators
  PROVE  Rewarded(logs, v) = paid'["btc"][v] + paid'["xsat"][v]
<1>1. PICK b, x, nb, nx, pb, px :
        /\ b = reward_log["btc"] /\ x = reward_log["xsat"] /\ nb = reward_log'["btc"] /\ nx = reward_log'["xsat"]
        /\ pb = paid'["btc"] /\ px = paid'["xsat"]
  OBVIOUS
<1>2. /\ PaidOut(nb, pb) /\ IsInjective(nb.providers)
      /\ PaidOut(nx, px) /\ IsInjective(nx.providers) /\ (nx.providers = << >> => nx.consensus = 0)
  <2>1. PaidInFull'
    BY LogsPaidOutAfter
  <2> QED
    BY <1>1, <2>1, RewardAssumption DEF PaidInFull
<1>3. /\ b \in LogType /\ (\E m \in Nat : nb = [b EXCEPT !.assigned = m])
      /\ x \in LogType /\ (\E m \in Nat : nx = [x EXCEPT !.assigned = m])
  BY <1>1, BatchKeepsLog, RewardAssumption
<1>4. /\ nb \in LogType /\ nb.consensus = 0 /\ nb.providers # << >>
      /\ OfValidator(nb, BtcRewards(nb), v) = OfValidator(b, BtcRewards(b), v)
  <2>1. PICK m \in Nat : nb = [b EXCEPT !.assigned = m]
    BY <1>3
  <2>2. b.providers # << >>
    BY <1>1 DEF Batch, RewardInv, LogsOfHeight, LogExists
  <2>3. nb \in LogType /\ nb.consensus = b.consensus /\ nb.providers = b.providers
    BY <1>3, <2>1, SharesStay
  <2>4. OfValidator(nb, BtcRewards(nb), v) = OfValidator(b, BtcRewards(b), v)
    BY <1>3, <2>1, DivisionsStay
  <2> QED
    BY <1>1, <2>2, <2>3, <2>4
<1>5. /\ nx \in LogType /\ nx.staking = 0
      /\ OfValidator(nx, XsatRewards(nx), v) = OfValidator(x, XsatRewards(x), v)
  <2>1. PICK m \in Nat : nx = [x EXCEPT !.assigned = m]
    BY <1>3
  <2>2. x.staking = 0
    BY <1>1 DEF RewardInv, LogsOfHeight
  <2>3. nx \in LogType /\ nx.staking = x.staking
    BY <1>3, <2>1, SharesStay
  <2>4. OfValidator(nx, XsatRewards(nx), v) = OfValidator(x, XsatRewards(x), v)
    BY <1>3, <2>1, DivisionsStay
  <2> QED
    BY <2>2, <2>3, <2>4
<1>6. OfValidator(nb, BtcRewards(nb), v) = pb[v]
  BY <1>2, <1>4, BtcPaidAsDivided
<1>7. OfValidator(nx, XsatRewards(nx), v) = px[v]
  BY <1>2, <1>5, XsatPaidAsDivided
<1> QED
  BY <1>1, <1>4, <1>5, <1>6, <1>7 DEF Rewarded

\* Whatever the step, only providers of the log at hand have been paid.
LEMMA PaidStep ==
  ASSUME RewardInv, PaidToProviders, [FeesStep(ProviderLists, 1..MaxHeight, Deposits)]_feesVars
  PROVE  PaidToProviders'
<1>1. CASE StartBlock(ProviderLists)
  <2>1. paid' = [s \in RewardScopes |-> [v \in Validators |-> 0]]
    BY <1>1 DEF StartBlock, StartRewardOf, Distribute
  <2> QED
    BY <2>1 DEF PaidToProviders
<1>2. CASE RewardBatch
  <2> SUFFICES ASSUME NEW s \in RewardScopes, NEW v \in Validators \ Range(reward_log'[s].providers)
               PROVE  paid'[s][v] = 0
    BY DEF PaidToProviders
  <2>1. /\ reward_log[s] \in LogType
        /\ \E m \in Nat : reward_log'[s] = [reward_log[s] EXCEPT !.assigned = m]
        /\ \A x \in Validators \ Range(reward_log[s].providers) : paid'[s][x] = 0
    BY <1>2, BatchKeepsLog DEF RewardBatch
  <2>2. reward_log'[s].providers = reward_log[s].providers
    BY <2>1, SharesStay
  <2> QED
    BY <2>1, <2>2
<1>3. CASE UNCHANGED allRewardVars
  BY <1>3 DEF allRewardVars, rewardVars, PaidToProviders
<1>4. CASE UNCHANGED feesVars
  BY <1>3, <1>4 DEF feesVars
<1> QED
  BY <1>1, <1>2, <1>3, <1>4 DEF FeesStep

\* As long as the logs of a height are there, it is known what the validators
\* received; without a BTC consensus part it is what the logs say.
ReceivedHeld ==
  \A h \in DOMAIN reward_logs :
    /\ h \in DOMAIN received /\ received[h] \in [Validators -> Nat]
    /\ reward_logs[h].btc.consensus = 0 => \A v \in Validators : Rewarded(reward_logs[h], v) = received[h][v]

\* Logs and history come together, with the last batch of a height.
LEMMA ReceivedChange ==
  ASSUME [FeesStep(ProviderLists, 1..MaxHeight, Deposits)]_feesVars
  PROVE  \/ UNCHANGED received /\ (UNCHANGED reward_logs \/ \E K : reward_logs' = Drop(reward_logs, K))
         \/ /\ Batch /\ ~distributing'
            /\ reward_logs' = Put(reward_logs, NextHeight,
                                  [btc |-> reward_log["btc"], xsat |-> reward_log["xsat"],
                                   synchronizer |-> migrating.synchronizer])
            /\ received' = Put(received, NextHeight, [v \in Validators |-> paid'["btc"][v] + paid'["xsat"][v]])
<1>1. CASE StartBlock(ProviderLists)
  BY <1>1 DEF StartBlock
<1>2. CASE RewardBatch
  BY <1>2 DEF RewardBatch
<1>3. CASE GasNext(Deposits) /\ UNCHANGED received
  <2>1. CASE \E a, b \in DOMAIN reward_logs : delrewardlog(a, b)
    BY <1>3, <2>1 DEF delrewardlog
  <2>2. CASE ~\E a, b \in DOMAIN reward_logs : delrewardlog(a, b)
    BY <1>3, <2>2 DEF GasNext, distribute, enfclaim, ramsclaim, handle_evm_fees_transfer, receiver_claim,
       SaveConfig, deldistribut
  <2> QED
    BY <2>1, <2>2
<1>4. CASE UNCHANGED <<received, reward_logs>>
  BY <1>4
<1>5. CASE UNCHANGED feesVars
  BY <1>5 DEF feesVars
<1> QED
  BY <1>1, <1>2, <1>3, <1>4, <1>5 DEF FeesStep

\* Every step keeps the history and the logs in accord.
LEMMA ReceivedStep ==
  ASSUME RewardInv, PaidToProviders, RewardInv', PaidToProviders', ReceivedHeld,
         [FeesStep(ProviderLists, 1..MaxHeight, Deposits)]_feesVars
  PROVE  ReceivedHeld'
<1>1. CASE UNCHANGED received /\ UNCHANGED reward_logs
  BY <1>1 DEF ReceivedHeld, Rewarded
<1>2. CASE UNCHANGED received /\ \E K : reward_logs' = Drop(reward_logs, K)
  <2>1. PICK K : reward_logs' = [h \in DOMAIN reward_logs \ K |-> reward_logs[h]]
    BY <1>2 DEF Drop, Restrict
  <2> SUFFICES ASSUME NEW h \in DOMAIN reward_logs'
               PROVE  /\ h \in DOMAIN received' /\ received'[h] \in [Validators -> Nat]
                      /\ reward_logs'[h].btc.consensus = 0 =>
                           \A v \in Validators : Rewarded(reward_logs'[h], v) = received'[h][v]
    BY DEF ReceivedHeld, Rewarded
  <2>2. h \in DOMAIN reward_logs /\ reward_logs'[h] = reward_logs[h] /\ received' = received
    BY <1>2, <2>1
  <2> QED
    BY <2>2 DEF ReceivedHeld
<1>3. CASE /\ Batch /\ ~distributing'
           /\ reward_logs' = Put(reward_logs, NextHeight,
                                 [btc |-> reward_log["btc"], xsat |-> reward_log["xsat"],
                                  synchronizer |-> migrating.synchronizer])
           /\ received' = Put(received, NextHeight, [v \in Validators |-> paid'["btc"][v] + paid'["xsat"][v]])
  <2>1. PICK logs, n, got :
          /\ logs = [btc |-> reward_log["btc"], xsat |-> reward_log["xsat"], synchronizer |-> migrating.synchronizer]
          /\ n = NextHeight /\ got = [v \in Validators |-> paid'["btc"][v] + paid'["xsat"][v]]
    OBVIOUS
  <2>2. /\ reward_logs' = [h \in DOMAIN reward_logs \cup {n} |-> IF h = n THEN logs ELSE reward_logs[h]]
        /\ received' = [h \in DOMAIN received \cup {n} |-> IF h = n THEN got ELSE received[h]]
    BY <1>3, <2>1 DEF Put
  <2>3. got \in [Validators -> Nat]
    BY <2>1, RewardAssumption DEF RewardInv, RewardTypeOK
  <2>4. ASSUME logs.btc.consensus = 0, NEW v \in Validators PROVE Rewarded(logs, v) = got[v]
    <3>1. logs.btc = reward_log["btc"] /\ logs.xsat = reward_log["xsat"]
      BY <2>1
    <3>2. Rewarded(logs, v) = paid'["btc"][v] + paid'["xsat"][v]
      BY <1>3, <2>4, <3>1, HeightPaid
    <3> QED
      BY <2>1, <3>2
  <2> SUFFICES ASSUME NEW h \in DOMAIN reward_logs'
               PROVE  /\ h \in DOMAIN received' /\ received'[h] \in [Validators -> Nat]
                      /\ reward_logs'[h].btc.consensus = 0 =>
                           \A v \in Validators : Rewarded(reward_logs'[h], v) = received'[h][v]
    BY DEF ReceivedHeld, Rewarded
  <2>5. CASE h = n
    <3>1. reward_logs'[h] = logs /\ received'[h] = got /\ h \in DOMAIN received'
      BY <2>2, <2>5
    <3> QED
      BY <2>3, <2>4, <3>1
  <2>6. CASE h # n
    <3>1. h \in DOMAIN reward_logs
      BY <2>2, <2>6
    <3>2. h \in DOMAIN received
      BY <3>1 DEF ReceivedHeld
    <3>3. reward_logs'[h] = reward_logs[h] /\ received'[h] = received[h] /\ h \in DOMAIN received'
      BY <2>2, <2>6, <3>1, <3>2
    <3> QED
      BY <3>1, <3>3 DEF ReceivedHeld
  <2> QED
    BY <2>5, <2>6
<1> QED
  BY <1>1, <1>2, <1>3, ReceivedChange

\* Only a distribution with a reward moves the window.
LEMMA WindowMoves ==
  ASSUME FundInv, [FeesStep(ProviderLists, 1..MaxHeight, Deposits)]_feesVars,
         fees_stat'.last_height # fees_stat.last_height
  PROVE  distribute /\ TotalIn(Window) # 0
<1>1. fees_stat \in [last_height : Nat, last_evm_height : Nat,
                     enf_unclaimed : Nat, rams_unclaimed : Nat, consensus_unclaimed : Nat]
      /\ gas_config \in GasConfigs
  BY DEF FundInv, GasInv, FundTypeOK
<1>2. ASSUME UNCHANGED gasVars PROVE FALSE
  BY <1>2 DEF gasVars
<1>3. GasNext(Deposits)
  BY <1>2 DEF FeesStep, StartBlock, RewardBatch, feesVars, fundVars
<1>4. ASSUME NEW n, fees_stat' = [fees_stat EXCEPT !.consensus_unclaimed = n] PROVE FALSE
  BY <1>1, <1>4
<1>5. ASSUME NEW r \in Receivers, receiver_claim(r) PROVE FALSE
  BY <1>4, <1>5 DEF receiver_claim
<1>6. ASSUME enfclaim PROVE FALSE
  BY <1>1, <1>6 DEF enfclaim
<1>7. ASSUME ramsclaim PROVE FALSE
  BY <1>1, <1>7 DEF ramsclaim
<1>8. ASSUME NEW q \in Deposits, handle_evm_fees_transfer(q) PROVE FALSE
  <2>1. q \in Nat
    BY ResourceAssumption
  <2>2. PICK e, a, c : e = EnfPart(q) /\ a = RamsPart(q) /\ c = ConsensusPart(q)
    OBVIOUS
  <2>3. e \in Nat /\ a \in Nat /\ c \in Nat
    BY <1>1, <2>1, <2>2, FeeDivided
  <2>4. fees_stat' = [Collected(fees_stat, e, a, c) EXCEPT !.last_evm_height = fees_stat.last_height]
    BY <1>8, <2>2 DEF handle_evm_fees_transfer
  <2>5. Collected(fees_stat, e, a, c)
          = [last_height |-> fees_stat.last_height, last_evm_height |-> fees_stat.last_evm_height,
             enf_unclaimed |-> fees_stat.enf_unclaimed + e, rams_unclaimed |-> fees_stat.rams_unclaimed + a,
             consensus_unclaimed |-> fees_stat.consensus_unclaimed + c]
    BY <1>1, <2>3, CollectedSums
  <2> QED
    BY <2>4, <2>5
<1>9. ASSUME UNCHANGED fees_stat PROVE FALSE
  BY <1>9
<1>10. distribute
  <2>1. ASSUME NEW c \in GasConfigs, SaveConfig(c) PROVE FALSE
    BY <1>9, <2>1 DEF SaveConfig
  <2>2. ASSUME NEW h \in DOMAIN distributes, deldistribut(h) PROVE FALSE
    BY <1>9, <2>2 DEF deldistribut
  <2>3. ASSUME NEW a \in DOMAIN reward_logs, NEW b \in DOMAIN reward_logs, delrewardlog(a, b) PROVE FALSE
    BY <1>9, <2>3 DEF delrewardlog, fundVars, gasVars
  <2> QED
    BY <1>3, <1>5, <1>6, <1>7, <1>8, <2>1, <2>2, <2>3, Zenon DEF GasNext
<1>11. TotalIn(Window) # 0
  <2>1. PICK total : total = TotalIn(Window)
    OBVIOUS
  <2>2. total = 0 => UNCHANGED <<details, consensus_fees, fees_stat, btc>>
    BY <1>10, <2>1, Zenon DEF distribute, TotalIn
  <2> QED
    BY <1>9, <2>1, <2>2
<1> QED
  BY <1>10, <1>11

\* What the fund computes for some heights is what was received for them.
LEMMA ReceivedAsLogged ==
  ASSUME ReceivedHeld, NEW H, SinceXsat(H), NEW v \in Validators
  PROVE  RewardsIn(H)[Validator(v)] = ReceivedIn(H, v)
<1>1. PICK r : r = Validator(v) /\ r \in Receivers
  BY ReceiverKinds DEF ValidatorReceivers
<1>2. \A h \in H : RewardOf(h, r) = received[h][v]
  <2> SUFFICES ASSUME NEW h \in H PROVE RewardOf(h, r) = received[h][v]
    OBVIOUS
  <2>1. h \in DOMAIN reward_logs /\ reward_logs[h].btc.consensus = 0
    BY DEF SinceXsat
  <2>2. Rewarded(reward_logs[h], v) = received[h][v]
    BY <2>1 DEF ReceivedHeld
  <2>3. r[1] = "validator" /\ r[2] = v
    BY <1>1 DEF Validator
  <2> QED
    BY <2>2, <2>3 DEF RewardOf, Rewarded
<1>3. [h \in H |-> RewardOf(h, r)] = [h \in H |-> received[h][v]]
  BY <1>2
<1> QED
  BY <1>1, <1>3 DEF RewardsIn, ReceivedIn

\* And so is what the synchronizers were rewarded.
LEMMA RewardedAsLogged ==
  ASSUME LogsHeld, ReceivedHeld, NEW H, IsFiniteSet(H), SinceXsat(H)
  PROVE  RewardedIn(H) = RewardsIn(H)
<1>1. ASSUME NEW r \in ValidatorReceivers PROVE RewardedIn(H)[r] = RewardsIn(H)[r]
  <2>1. r \in Receivers /\ r[1] = "validator" /\ r[2] \in Validators /\ r = Validator(r[2])
    BY ReceiverKinds
  <2>2. RewardedIn(H)[r] = ReceivedIn(H, r[2])
    BY <2>1 DEF RewardedIn
  <2> QED
    BY <2>1, <2>2, ReceivedAsLogged
<1>2. ASSUME NEW r \in SynchronizerReceivers PROVE RewardedIn(H)[r] = RewardsIn(H)[r]
  <2>1. r \in Receivers /\ r[1] = "synchronizer"
    BY ReceiverKinds
  <2>2. PICK T, f, g : /\ T = {h \in H : reward_logs[h].synchronizer = r[2]}
                       /\ f = [h \in H |-> RewardOf(h, r)] /\ g = [h \in T |-> reward_logs[h].btc.synchronizer]
    OBVIOUS
  <2>3. /\ RewardedIn(H)[r] = SumFunctionOnSet(g, T) /\ RewardsIn(H)[r] = SumFunctionOnSet(f, H)
    <3>1. RewardedIn(H)[r] = Sum(g)
      BY <2>1, <2>2 DEF RewardedIn, SynchronizedIn
    <3>2. RewardsIn(H)[r] = Sum(f)
      BY <2>1, <2>2 DEF RewardsIn
    <3> QED
      BY <2>2, <3>1, <3>2 DEF Sum, SumFunction
  <2>4. T \in SUBSET H /\ IsFiniteSet(T)
    BY <2>2, FS_Subset
  <2>5. ASSUME NEW h \in H PROVE f[h] \in Int /\ (h \in T => g[h] = f[h]) /\ (h \notin T => f[h] = 0)
    <3>1. h \in DOMAIN reward_logs
      BY DEF SinceXsat
    <3>2. reward_logs[h].btc.synchronizer \in Nat
      BY <3>1 DEF LogsHeld, LogsOK, RewardLogs, LogType
    <3>3. f[h] = IF r[2] = reward_logs[h].synchronizer THEN reward_logs[h].btc.synchronizer ELSE 0
      BY <2>1, <2>2 DEF RewardOf
    <3> QED
      BY <2>2, <3>2, <3>3
  <2>6. SumFunctionOnSet(f, H) = SumFunctionOnSet(f, T)
    <3>1. (\A h \in H : f[h] \in Int) /\ \A h \in H \ T : f[h] = 0
      BY <2>5
    <3> QED
      BY <2>4, <3>1, SumZeros
  <2>7. SumFunctionOnSet(g, T) = SumFunctionOnSet(f, T)
    BY <2>4, <2>5, SumEqual
  <2> QED
    BY <2>3, <2>6, <2>7
<1>3. \A r \in Receivers : RewardedIn(H)[r] = RewardsIn(H)[r]
  BY <1>1, <1>2, ReceiverKinds
<1>4. PICK f, g : f = RewardedIn(H) /\ g = RewardsIn(H)
  OBVIOUS
<1>5. f = [r \in Receivers |-> f[r]] /\ g = [r \in Receivers |-> g[r]]
  BY <1>4 DEF RewardedIn, RewardsIn
<1>6. [r \in Receivers |-> f[r]] = [r \in Receivers |-> g[r]]
  BY <1>3, <1>4
<1> QED
  BY <1>4, <1>5, <1>6

\* A synchronizer gets its part without a remainder, and no id is of two validators.
LEMMA RemaindersById ==
  ASSUME NEW C \in Nat, NEW reward \in [Receivers -> Nat], NEW total \in Nat \ {0},
         SumFunctionOnSet(reward, SynchronizerReceivers) <= total, SumFunctionOnSet(reward, Receivers) = total,
         NEW id \in ReceiverIds
  PROVE  ById(ConsensusShares(C, reward, total), id) - Sum([r \in Sharing(id) |-> Proportion(C, reward, total, r)])
           \in 0..Cardinality(Receivers)
<1>1. PICK share, q, d, T, R, V, n :
        /\ share = ConsensusShares(C, reward, total) /\ q = [r \in Sharing(id) |-> Proportion(C, reward, total, r)]
        /\ d = [r \in Sharing(id) |-> share[r] - q[r]] /\ T = Sharing(id) /\ R = Receivers /\ V = ValidatorReceivers
        /\ n = Cardinality(Receivers)
  OBVIOUS
<1>2. IsFiniteSet(T) /\ T \in SUBSET R /\ n \in Nat
  BY <1>1, IdsOfReceivers, ReceiverKinds, FS_CardinalityType
<1>3. share \in [R -> Int] /\ \A r \in V : share[r] - Proportion(C, reward, total, r) \in 0..n
  BY <1>1, SharesOfWindow DEF SharesOfFees
<1>4. \A r \in R \ V : share[r] = Proportion(C, reward, total, r)
  <2>1. \A r \in R \ V : r \in Receivers /\ r[1] = "synchronizer"
    BY <1>1, ReceiverKinds
  <2> QED
    BY <1>1, <2>1 DEF ConsensusShares
<1>5. ASSUME NEW r \in T PROVE share[r] \in Int /\ q[r] \in Int /\ d[r] \in Int /\ share[r] = q[r] + d[r]
                              /\ (r \in V => d[r] \in 0..n) /\ (r \notin V => d[r] = 0)
  <2>1. PICK p : p = C * reward[r]
    OBVIOUS
  <2>2. r \in R /\ share[r] \in Int /\ reward[r] \in Nat /\ q[r] = Proportion(C, reward, total, r) /\ d[r] = share[r] - q[r]
    BY <1>1, <1>2, <1>3
  <2>3. p \in Nat /\ q[r] = p \div total
    BY <2>1, <2>2 DEF Proportion, safe_pct
  <2>4. q[r] \in Nat
    BY <2>3, DivNear
  <2> QED
    BY <1>3, <1>4, <2>2, <2>4
<1>6. SumFunctionOnSet(share, T) = SumFunctionOnSet(q, T) + SumFunctionOnSet(d, T)
      /\ SumFunctionOnSet(q, T) \in Int /\ SumFunctionOnSet(d, T) \in Int
  BY <1>2, <1>5, SumAdd, SumType
<1>7. SumFunctionOnSet(d, T) \in 0..n
  <2>1. CASE T \cap V = {}
    <3>1. (\A r \in T : d[r] \in Int) /\ (\A r \in T \ {} : d[r] = 0) /\ {} \in SUBSET T
      BY <1>5, <2>1
    <3>2. SumFunctionOnSet(d, T) = SumFunctionOnSet(d, {})
      BY <1>2, <3>1, SumZeros
    <3> QED
      BY <1>2, <3>2, SumEmpty
  <2>2. CASE T \cap V # {}
    <3>1. PICK v : v \in T /\ v \in V
      BY <2>2
    <3>2. \A r \in T \ {v} : r \notin V
      <4>1. \A r \in T : receiver_id(r) = id
        BY <1>1, IdsOfReceivers
      <4>2. \A r \in V : receiver_id(r) = r[2] /\ r = Validator(r[2])
        BY <1>1, ReceiverKinds DEF receiver_id
      <4> QED
        BY <3>1, <4>1, <4>2
    <3>3. (\A r \in T : d[r] \in Int) /\ (\A r \in T \ {v} : d[r] = 0) /\ {v} \in SUBSET T
      BY <1>5, <3>1, <3>2
    <3>4. SumFunctionOnSet(d, T) = SumFunctionOnSet(d, {v})
      BY <1>2, <3>3, SumZeros
    <3>5. d[v] \in Int /\ d[v] \in 0..n
      BY <1>5, <3>1
    <3> QED
      BY <3>4, <3>5, SumSingle
  <2> QED
    BY <2>1, <2>2
<1>8. ById(share, id) = SumFunctionOnSet(share, T)
  <2>1. PICK b : b = [x \in ReceiverIds |-> ById(share, x)]
    OBVIOUS
  <2>2. b[id] = SumFunctionOnSet(share, Sharing(id))
    BY <1>1, <1>3, <2>1, AmountsById
  <2> QED
    BY <1>1, <2>1, <2>2
<1>9. Sum(q) = SumFunctionOnSet(q, T)
  BY <1>1 DEF Sum, SumFunction
<1>10. PICK x, y, z : x = ById(share, id) /\ y = Sum(q) /\ z = SumFunctionOnSet(d, T)
  OBVIOUS
<1>11. x = y + z /\ y \in Int /\ z \in 0..n
  BY <1>6, <1>7, <1>8, <1>9, <1>10
<1>12. x - y \in 0..n
  BY ONLY <1>2, <1>11
<1> QED
  BY <1>1, <1>10, <1>12

\* What the distribution credits is what the fund computes, and that is what was
\* received.
LEMMA WindowFollows ==
  ASSUME LogsHeld, FundInv, ReceivedHeld, distribute, TotalIn(Window) # 0,
         NEW H, H = (WindowStart + 1)..fees_stat'.last_height,
         NEW total, total = Sum([h \in H |-> TotalReward(h)]),
         NEW C, C = Sum([h \in H |-> ConsensusPart(feestat[h])]),
         SinceXsat(H), NEW id \in ReceiverIds
  PROVE  Row(consensus_fees', id, 0) - Row(consensus_fees, id, 0)
           - Sum([r \in Sharing(id) |-> Proportion(C, RewardedIn(H), total, r)])
         \in 0..Cardinality(Receivers)
<1>0. /\ fees_stat \in [last_height : Nat, last_evm_height : Nat,
                        enf_unclaimed : Nat, rams_unclaimed : Nat, consensus_unclaimed : Nat]
      /\ consensus_fees \in [DOMAIN consensus_fees -> Int] /\ DOMAIN consensus_fees \subseteq ReceiverIds
      /\ gas_config \in GasConfigs /\ FundTypeOK /\ irreversible_height \in Nat /\ ResourceTypeOK
  BY DEF FundInv, GasInv, FundTypeOK, LogsHeld
<1>1. PICK W, E, A, c, reward, top, share :
        /\ W = Window /\ reward = RewardsIn(W) /\ top = Max(W)
        /\ E = Sum([h \in W |-> EnfPart(feestat[h])]) /\ A = Sum([h \in W |-> RamsPart(feestat[h])])
        /\ c = Sum([h \in W |-> ConsensusPart(feestat[h])]) /\ share = ConsensusShares(c, reward, TotalIn(W))
  OBVIOUS
<1>2. /\ W \subseteq DOMAIN feestat \cap DOMAIN reward_logs
      /\ consensus_fees' = Credited(consensus_fees, share)
      /\ fees_stat' = [Collected(fees_stat, E, A, c) EXCEPT !.last_height = top]
  <2>1. PICK t : t = TotalIn(W) /\ t # 0
    BY <1>1
  <2>2. /\ W \subseteq DOMAIN feestat \cap DOMAIN reward_logs
        /\ t # 0 => /\ consensus_fees' = Credited(consensus_fees, ConsensusShares(c, reward, t))
                    /\ fees_stat' = [Collected(fees_stat, E, A, c) EXCEPT !.last_height = top]
    BY <1>1, <2>1, Zenon DEF distribute, TotalIn, RewardsIn
  <2> QED
    BY <1>1, <2>1, <2>2
<1>3. /\ W \in SUBSET DOMAIN feestat /\ W \in SUBSET DOMAIN reward_logs /\ IsFiniteSet(W)
      /\ W # {} => top \in W /\ W = (WindowStart + 1)..top
  BY <1>0, <1>1, <1>2, WindowOf
<1>4. E \in Nat /\ A \in Nat /\ c \in Nat
  BY <1>0, <1>1, <1>3, FeesDivided
<1>5. fees_stat'.last_height = top
  <2>1. Collected(fees_stat, E, A, c)
          = [last_height |-> fees_stat.last_height, last_evm_height |-> fees_stat.last_evm_height,
             enf_unclaimed |-> fees_stat.enf_unclaimed + E, rams_unclaimed |-> fees_stat.rams_unclaimed + A,
             consensus_unclaimed |-> fees_stat.consensus_unclaimed + c]
    BY <1>0, <1>4, CollectedSums
  <2> QED
    BY <1>2, <2>1
<1>6. W # {}
  <2>1. ASSUME W = {} PROVE TotalIn(W) = 0
    <3>1. PICK f : f = [h \in W |-> TotalReward(h)]
      OBVIOUS
    <3>2. DOMAIN f = {} /\ TotalIn(W) = Sum(f)
      BY <2>1, <3>1 DEF TotalIn
    <3> QED
      BY <3>2, SumEmpty DEF Sum, SumFunction
  <2> QED
    BY <1>1, <2>1
<1>7. H = W
  BY <1>3, <1>5, <1>6
<1>8. total = TotalIn(H) /\ c = C /\ share = ConsensusShares(C, reward, total) /\ reward = RewardsIn(H) /\ total # 0
  BY <1>1, <1>7 DEF TotalIn
<1>9. WindowRewarded(H, reward, total)
  <2>1. \A h \in H : LogsOK(reward_logs[h])
    BY <1>3, <1>7 DEF LogsHeld
  <2> QED
    BY <1>3, <1>7, <1>8, <2>1, RewardsOfWindow
<1>10. /\ reward \in [Receivers -> Nat] /\ total \in Nat \ {0}
       /\ SumFunctionOnSet(reward, SynchronizerReceivers) <= total /\ SumFunctionOnSet(reward, Receivers) = total
  <2>1. \A h \in H : reward_logs[h].btc.consensus = 0
    BY DEF SinceXsat
  <2> QED
    BY <1>8, <1>9, <2>1 DEF WindowRewarded
<1>11. ById(share, id) - Sum([r \in Sharing(id) |-> Proportion(C, reward, total, r)]) \in 0..Cardinality(Receivers)
  <2>1. C \in Nat /\ share = ConsensusShares(C, reward, total)
    BY <1>4, <1>8
  <2> QED
    BY <1>10, <2>1, RemaindersById
<1>12. reward = RewardedIn(H)
  BY <1>3, <1>7, <1>8, RewardedAsLogged
<1>13. share \in [Receivers -> Int]
  <2>1. SharesOfFees(C, reward, total, share)
    BY <1>4, <1>8, <1>10, SharesOfWindow
  <2> QED
    BY <2>1 DEF SharesOfFees
<1>14. Row(consensus_fees', id, 0) = Row(consensus_fees, id, 0) + ById(share, id)
  BY <1>0, <1>2, <1>13, RowsCredited
<1>15. Row(consensus_fees, id, 0) \in Int /\ ById(share, id) \in Int
  <2>1. PICK b : b = [x \in ReceiverIds |-> ById(share, x)]
    OBVIOUS
  <2>2. b[id] \in Int
    BY <1>13, <2>1, AmountsById
  <2> QED
    BY <1>0, <2>1, <2>2 DEF Row
<1>16. PICK a, x, y, n : /\ a = Row(consensus_fees, id, 0) /\ x = ById(share, id) /\ n = Row(consensus_fees', id, 0)
                         /\ y = Sum([r \in Sharing(id) |-> Proportion(C, reward, total, r)])
  OBVIOUS
<1>17. (n - a) - y = x - y
  <2>1. n - a = x
    BY <1>14, <1>15, <1>16
  <2> QED
    BY <2>1
<1> QED
  BY <1>11, <1>12, <1>16, <1>17

\* The validators paid and the history at the start: nobody has anything.
LEMMA ReceivedInit == FeesInit => PaidToProviders /\ ReceivedHeld
<1> SUFFICES ASSUME FeesInit PROVE PaidToProviders /\ ReceivedHeld
  OBVIOUS
<1>1. paid = [s \in RewardScopes |-> [v \in Validators |-> 0]] /\ DOMAIN reward_logs = {}
  BY DEF FeesInit, RewardInit, GasInit
<1> QED
  BY <1>1 DEF PaidToProviders, ReceivedHeld

\* They are in accord in every state of the composition.
LEMMA PaidAndReceived == FeesSpec => [](PaidToProviders /\ ReceivedHeld)
<1>1. FeesInit => PaidToProviders /\ ReceivedHeld
  BY ReceivedInit
<1>2. RewardInv /\ RewardInv' /\ PaidToProviders /\ ReceivedHeld
        /\ [FeesStep(ProviderLists, 1..MaxHeight, Deposits)]_feesVars
        => PaidToProviders' /\ ReceivedHeld'
  BY PaidStep, ReceivedStep
<1>3. FeesSpec => []RewardInv
  BY FeesImplementRewards, RewardInvHolds, PTL
<1> QED
  BY <1>1, <1>2, <1>3, PTL DEF FeesSpec

\* A distribution of the fees credits each row in proportion to what the receivers
\* that share it were paid for the heights of the window, up to the remainders, for
\* all logs, batches and ids: the division of the logged rewards in gasfund.xsat is
\* that of rwddist.xsat, and ids that coincide lose no part of a share.
THEOREM FeesFollowRewardsHolds == FeesSpec => FeesFollowRewards
<1> DEFINE heights == (WindowStart + 1)..fees_stat'.last_height
           total == Sum([h \in heights |-> TotalReward(h)])
           C == Sum([h \in heights |-> ConsensusPart(feestat[h])])
           Follows ==
             fees_stat'.last_height # fees_stat.last_height /\ SinceXsat(heights) =>
               \A id \in ReceiverIds :
                 Row(consensus_fees', id, 0) - Row(consensus_fees, id, 0)
                   - Sum([r \in Sharing(id) |-> Proportion(C, RewardedIn(heights), total, r)])
                 \in 0..Cardinality(Receivers)
<1>1. LogsHeld /\ FundInv /\ ReceivedHeld /\ [FeesStep(ProviderLists, 1..MaxHeight, Deposits)]_feesVars => Follows
  <2> SUFFICES ASSUME LogsHeld, FundInv, ReceivedHeld, [FeesStep(ProviderLists, 1..MaxHeight, Deposits)]_feesVars,
                      fees_stat'.last_height # fees_stat.last_height, SinceXsat(heights), NEW id \in ReceiverIds
               PROVE  Row(consensus_fees', id, 0) - Row(consensus_fees, id, 0)
                        - Sum([r \in Sharing(id) |-> Proportion(C, RewardedIn(heights), total, r)])
                      \in 0..Cardinality(Receivers)
    OBVIOUS
  <2>1. distribute /\ TotalIn(Window) # 0
    BY WindowMoves
  <2> QED
    BY <2>1, WindowFollows
<1>2. LogsHeld /\ FundInv /\ ReceivedHeld /\ [FeesStep(ProviderLists, 1..MaxHeight, Deposits)]_feesVars => [Follows]_feesVars
  BY <1>1
<1>3. FeesFollowRewards <=> [][Follows]_feesVars
  BY DEF FeesFollowRewards
<1> HIDE DEF Follows
<1> QED
  BY <1>2, <1>3, FeesInvHolds, PaidAndReceived, PTL DEF FeesSpec, FeesInv

-----------------------------------------------------------------------------
(* Fees and records that wait to be shared. *)

\* Fees are shared from a height whose logs there are: config asks for more than
\* 840000, and the first block rewarded is the one after 839999.
StartsLater == \A c \in GasConfigs : InitialHeight <= c.start

\* Between the first distribution and the first EVM transfer nobody moves the start.
StartKept == fees_stat.last_height > 0 /\ fees_stat.last_evm_height = 0 => gas_config'.start = gas_config.start

\* Every irreversible height above the window was charged and logged, and the next
\* one is charged before it is rewarded.
HeightsHeld ==
  /\ distributing => NextHeight \in DOMAIN feestat
  /\ fees_stat.last_height <= irreversible_height
  /\ fees_stat.last_height > 0 => InitialHeight <= fees_stat.last_height
  /\ \A h \in (InitialHeight + 1)..irreversible_height :
       h > fees_stat.last_height => h \in DOMAIN feestat /\ h \in DOMAIN reward_logs

\* What a step does to the window and its records, other than a distribution with a
\* reward or an EVM transfer.
WindowKept ==
  /\ fees_stat'.last_height = fees_stat.last_height /\ fees_stat'.last_evm_height = fees_stat.last_evm_height
  /\ DOMAIN details' \subseteq DOMAIN details
  /\ \A k \in Nat : k >= fees_stat.last_evm_height =>
       /\ k \in DOMAIN distributes => k \in DOMAIN distributes'
       /\ k \in DOMAIN details => k \in DOMAIN details' /\ details'[k] = details[k]

\* All other calls to the fund keep them.
LEMMA RecordsAreKept ==
  ASSUME FundInv, GasNext(Deposits), ~(distribute /\ TotalIn(Window) # 0), ~\E q \in Deposits : handle_evm_fees_transfer(q)
  PROVE  WindowKept
<1>1. /\ fees_stat \in [last_height : Nat, last_evm_height : Nat,
                        enf_unclaimed : Nat, rams_unclaimed : Nat, consensus_unclaimed : Nat]
      /\ DOMAIN details \subseteq Nat /\ fees_stat.last_evm_height \in Nat
  BY DEF FundInv, GasInv, FundTypeOK
<1>2. ASSUME UNCHANGED <<fees_stat, distributes, details>> PROVE WindowKept
  BY <1>2 DEF WindowKept
<1>3. ASSUME NEW s, fees_stat' = s, s.last_height = fees_stat.last_height, s.last_evm_height = fees_stat.last_evm_height,
             UNCHANGED <<distributes, details>>
      PROVE  WindowKept
  BY <1>3 DEF WindowKept
<1>4. ASSUME enfclaim PROVE WindowKept
  BY <1>1, <1>3, <1>4 DEF enfclaim
<1>5. ASSUME ramsclaim PROVE WindowKept
  BY <1>1, <1>3, <1>5 DEF ramsclaim
<1>6. ASSUME NEW r \in Receivers, receiver_claim(r) PROVE WindowKept
  <2>1. PICK n : fees_stat' = [fees_stat EXCEPT !.consensus_unclaimed = n] /\ UNCHANGED <<distributes, details>>
    BY <1>6 DEF receiver_claim
  <2> QED
    BY <1>1, <1>3, <2>1
<1>7. ASSUME NEW c \in GasConfigs, SaveConfig(c) PROVE WindowKept
  BY <1>2, <1>7 DEF SaveConfig
<1>8. ASSUME NEW h \in DOMAIN distributes, deldistribut(h) PROVE WindowKept
  <2>1. /\ h < fees_stat.last_evm_height /\ distributes' = Drop(distributes, {h}) /\ fees_stat' = fees_stat
    BY <1>8 DEF deldistribut
  <2>2. \/ details' = Drop(details, {h})
        \/ \E left : details' = [details EXCEPT ![h] = left]
    BY <1>8 DEF deldistribut
  <2>3. \A k \in Nat : k >= fees_stat.last_evm_height => k # h
    BY <1>1, <2>1
  <2>4. \A k \in DOMAIN distributes : k # h => k \in DOMAIN distributes'
    BY <2>1 DEF Drop, Restrict
  <2>5. DOMAIN details' \subseteq DOMAIN details /\ \A k \in DOMAIN details : k # h => k \in DOMAIN details' /\ details'[k] = details[k]
    <3>1. CASE details' = Drop(details, {h})
      BY <3>1 DEF Drop, Restrict
    <3>2. CASE \E left : details' = [details EXCEPT ![h] = left]
      BY <3>2
    <3> QED
      BY <2>2, <3>1, <3>2
  <2> QED
    BY <2>1, <2>3, <2>4, <2>5 DEF WindowKept
<1>9. ASSUME NEW a \in DOMAIN reward_logs, NEW b \in DOMAIN reward_logs, delrewardlog(a, b) PROVE WindowKept
  BY <1>2, <1>9 DEF delrewardlog, fundVars, gasVars
<1>10. ASSUME distribute PROVE WindowKept
  <2>1. PICK total, key, record : /\ total = TotalIn(Window) /\ key = EvmStart
                                  /\ record = [Row(distributes, key, [total_rewards |-> 0, end_height |-> 0])
                                                 EXCEPT !.total_rewards = @ + total]
    OBVIOUS
  <2>2. /\ distributes' = Put(distributes, key, record)
        /\ total = 0 => UNCHANGED <<details, consensus_fees, fees_stat, btc>>
    BY <1>10, <2>1, Zenon DEF distribute, TotalIn, RecordKey
  <2>3. total = 0
    BY <1>10, <2>1
  <2> QED
    BY <2>2, <2>3 DEF WindowKept, Put
<1> QED
  BY <1>4, <1>5, <1>6, <1>7, <1>8, <1>9, <1>10, Zenon DEF GasNext

\* The three kinds of steps.
LEMMA WindowSteps ==
  ASSUME FundInv, [FeesStep(ProviderLists, 1..MaxHeight, Deposits)]_feesVars
  PROVE  \/ distribute /\ TotalIn(Window) # 0 /\ UNCHANGED <<allRewardVars, irreversible_height, received>>
         \/ (\E q \in Deposits : handle_evm_fees_transfer(q)) /\ UNCHANGED <<allRewardVars, irreversible_height, received>>
         \/ WindowKept
<1>1. ASSUME UNCHANGED gasVars PROVE WindowKept
  BY <1>1 DEF WindowKept, gasVars
<1>2. CASE GasNext(Deposits) /\ UNCHANGED <<allRewardVars, irreversible_height, received>>
  <2>1. CASE distribute /\ TotalIn(Window) # 0
    BY <1>2, <2>1
  <2>2. CASE \E q \in Deposits : handle_evm_fees_transfer(q)
    BY <1>2, <2>2
  <2>3. CASE ~(distribute /\ TotalIn(Window) # 0) /\ ~\E q \in Deposits : handle_evm_fees_transfer(q)
    BY <1>2, <2>3, RecordsAreKept
  <2> QED
    BY <2>1, <2>2, <2>3
<1> QED
  BY <1>1, <1>2 DEF FeesStep, StartBlock, RewardBatch, feesVars, fundVars

\* The heights of a distribution with a reward, and of a record.
LEMMA WindowShared ==
  ASSUME StartsLater, LogsHeld, FundInv, HeightsHeld, distribute, TotalIn(Window) # 0
  PROVE  LET top == fees_stat'.last_height IN
         /\ top \in Nat /\ WindowStart \in Nat /\ fees_stat.last_height <= WindowStart /\ InitialHeight <= WindowStart
         /\ WindowStart < top /\ top <= irreversible_height /\ Window = (WindowStart + 1)..top
         /\ fees_stat'.last_evm_height = fees_stat.last_evm_height
<1>0. /\ fees_stat \in [last_height : Nat, last_evm_height : Nat,
                        enf_unclaimed : Nat, rams_unclaimed : Nat, consensus_unclaimed : Nat]
      /\ gas_config \in GasConfigs /\ FundTypeOK /\ irreversible_height \in Nat /\ ResourceTypeOK
  BY DEF FundInv, GasInv, FundTypeOK, LogsHeld
<1>1. PICK W, E, A, c, top :
        /\ W = Window /\ top = Max(W)
        /\ E = Sum([h \in W |-> EnfPart(feestat[h])]) /\ A = Sum([h \in W |-> RamsPart(feestat[h])])
        /\ c = Sum([h \in W |-> ConsensusPart(feestat[h])])
  OBVIOUS
<1>2. /\ W \subseteq DOMAIN feestat \cap DOMAIN reward_logs
      /\ fees_stat' = [Collected(fees_stat, E, A, c) EXCEPT !.last_height = top]
  <2>1. PICK t : t = TotalIn(W) /\ t # 0
    BY <1>1
  <2>2. /\ W \subseteq DOMAIN feestat \cap DOMAIN reward_logs
        /\ t # 0 => fees_stat' = [Collected(fees_stat, E, A, c) EXCEPT !.last_height = top]
    BY <1>1, <2>1, Zenon DEF distribute, TotalIn
  <2> QED
    BY <2>1, <2>2
<1>3. /\ W \in SUBSET DOMAIN feestat /\ WindowStart \in Nat /\ fees_stat.last_height <= WindowStart
      /\ W # {} => top \in W /\ W = (WindowStart + 1)..top /\ top <= irreversible_height
  BY <1>0, <1>1, <1>2, WindowOf
<1>4. E \in Nat /\ A \in Nat /\ c \in Nat
  BY <1>0, <1>1, <1>3, FeesDivided
<1>5. fees_stat'.last_height = top /\ fees_stat'.last_evm_height = fees_stat.last_evm_height
  <2>1. Collected(fees_stat, E, A, c)
          = [last_height |-> fees_stat.last_height, last_evm_height |-> fees_stat.last_evm_height,
             enf_unclaimed |-> fees_stat.enf_unclaimed + E, rams_unclaimed |-> fees_stat.rams_unclaimed + A,
             consensus_unclaimed |-> fees_stat.consensus_unclaimed + c]
    BY <1>0, <1>4, CollectedSums
  <2> QED
    BY <1>2, <2>1
<1>6. W # {}
  <2>1. ASSUME W = {} PROVE TotalIn(W) = 0
    <3>1. PICK f : f = [h \in W |-> TotalReward(h)]
      OBVIOUS
    <3>2. DOMAIN f = {} /\ TotalIn(W) = Sum(f)
      BY <2>1, <3>1 DEF TotalIn
    <3> QED
      BY <3>2, SumEmpty DEF Sum, SumFunction
  <2> QED
    BY <1>1, <2>1
<1>7. InitialHeight <= WindowStart
  <2>1. CASE fees_stat.last_height > 0
    BY <2>1 DEF HeightsHeld, WindowStart
  <2>2. CASE ~(fees_stat.last_height > 0)
    <3>1. InitialHeight <= gas_config.start
      BY <1>0 DEF StartsLater
    <3> QED
      BY <2>2, <3>1 DEF WindowStart
  <2> QED
    BY <2>1, <2>2
<1>8. top \in Nat /\ WindowStart < top
  <2>1. PICK w : w = WindowStart
    OBVIOUS
  <2>2. w \in Nat /\ top \in (w + 1)..top
    BY <1>3, <1>6, <2>1
  <2>3. top \in Nat /\ w < top
    BY ONLY <2>2
  <2> QED
    BY <2>1, <2>3
<1> QED
  BY <1>1, <1>3, <1>5, <1>6, <1>7, <1>8

\* What a transfer of the EVM leaves: all windows are shared.
LEMMA TransferShared ==
  ASSUME FundInv, NEW q \in Deposits, handle_evm_fees_transfer(q)
  PROVE  /\ fees_stat'.last_height = fees_stat.last_height /\ fees_stat'.last_evm_height = fees_stat.last_height
         /\ fees_stat.last_evm_height < fees_stat.last_height
         /\ UNCHANGED <<gas_config, details, reward_logs, feestat>>
<1>1. fees_stat \in [last_height : Nat, last_evm_height : Nat,
                     enf_unclaimed : Nat, rams_unclaimed : Nat, consensus_unclaimed : Nat]
      /\ gas_config \in GasConfigs /\ q \in Nat
  BY ResourceAssumption DEF FundInv, GasInv, FundTypeOK
<1>2. PICK e, a, c : e = EnfPart(q) /\ a = RamsPart(q) /\ c = ConsensusPart(q)
  OBVIOUS
<1>3. e \in Nat /\ a \in Nat /\ c \in Nat
  BY <1>1, <1>2, FeeDivided
<1>4. fees_stat' = [Collected(fees_stat, e, a, c) EXCEPT !.last_evm_height = fees_stat.last_height]
  BY <1>2 DEF handle_evm_fees_transfer
<1>5. Collected(fees_stat, e, a, c)
        = [last_height |-> fees_stat.last_height, last_evm_height |-> fees_stat.last_evm_height,
           enf_unclaimed |-> fees_stat.enf_unclaimed + e, rams_unclaimed |-> fees_stat.rams_unclaimed + a,
           consensus_unclaimed |-> fees_stat.consensus_unclaimed + c]
  BY <1>1, <1>3, CollectedSums
<1> QED
  BY <1>1, <1>4, <1>5 DEF handle_evm_fees_transfer

\* Fees of a height are never taken from the table.
LEMMA FeesStay ==
  ASSUME FundInv, [FeesStep(ProviderLists, 1..MaxHeight, Deposits)]_feesVars
  PROVE  DOMAIN feestat \subseteq DOMAIN feestat'
<1>0. ResourceTypeOK /\ PrepaidHeld /\ fees_stat.last_height \in Nat /\ 1..MaxHeight \in SUBSET Nat
  BY FeesAssumption DEF FundInv, GasInv, FundTypeOK
<1>1. ASSUME UNCHANGED feestat PROVE DOMAIN feestat \subseteq DOMAIN feestat'
  BY <1>1
<1>2. CASE ResourceNext(1..MaxHeight)
  BY <1>0, <1>2, ResourceStep DEF ResourceKept
<1>3. CASE \E s, t \in Pools : buyslot(s, t, 1)
  BY <1>3 DEF buyslot, pay, Put
<1>4. CASE GasNext(Deposits)
  <2>1. UNCHANGED feestat
    BY <1>4 DEF GasNext, distribute, enfclaim, ramsclaim, handle_evm_fees_transfer, receiver_claim,
       SaveConfig, deldistribut, delrewardlog, fundVars, resourceVars
  <2> QED
    BY <2>1
<1> QED
  BY <1>1, <1>2, <1>3, <1>4 DEF FeesStep, StartBlock, RewardBatch, feesVars, fundVars, resourceVars

\* No height is skipped.
LEMMA HeightsStep ==
  ASSUME StartsLater, LogsHeld, FundInv, HeightsHeld, [FeesStep(ProviderLists, 1..MaxHeight, Deposits)]_feesVars
  PROVE  HeightsHeld'
<1>0. /\ irreversible_height \in Nat /\ InitialHeight \in Nat /\ fees_stat.last_height \in Nat
      /\ distributing => NextHeight \in DOMAIN feestat
      /\ fees_stat.last_height <= irreversible_height
      /\ fees_stat.last_height > 0 => InitialHeight <= fees_stat.last_height
      /\ \A h \in (InitialHeight + 1)..irreversible_height :
           h > fees_stat.last_height => h \in DOMAIN feestat /\ h \in DOMAIN reward_logs
  BY FeesAssumption DEF LogsHeld, HeightsHeld, FundInv, GasInv, FundTypeOK
<1>1. DOMAIN feestat \subseteq DOMAIN feestat'
  BY FeesStay
<1>2. CASE distribute /\ TotalIn(Window) # 0 /\ UNCHANGED <<allRewardVars, irreversible_height, received>>
  <2>1. /\ fees_stat'.last_height \in Nat /\ WindowStart \in Nat
        /\ fees_stat.last_height <= WindowStart /\ InitialHeight <= WindowStart
        /\ WindowStart < fees_stat'.last_height /\ fees_stat'.last_height <= irreversible_height
    BY <1>2, WindowShared
  <2>2. UNCHANGED <<feestat, reward_logs, distributing, irreversible_height>>
    BY <1>2 DEF distribute, allRewardVars, callerVars
  <2>3. PICK x, y, w : x = fees_stat.last_height /\ y = fees_stat'.last_height /\ w = WindowStart
    OBVIOUS
  <2>4. \A h \in (InitialHeight + 1)..irreversible_height : h > y => h > x
    BY <1>0, <2>1, <2>3
  <2>5. y <= irreversible_height /\ InitialHeight <= y
    BY <1>0, <2>1, <2>3
  <2>6. distributing' => NextHeight' \in DOMAIN feestat'
    BY <1>0, <2>2 DEF NextHeight
  <2> QED
    BY <1>0, <2>2, <2>3, <2>4, <2>5, <2>6 DEF HeightsHeld
<1>3. CASE fees_stat'.last_height = fees_stat.last_height
  <2>1. CASE StartBlock(ProviderLists)
    <3>1. NextHeight \in DOMAIN feestat /\ UNCHANGED <<feestat, reward_logs, irreversible_height>>
      BY <2>1 DEF StartBlock, fundVars, resourceVars
    <3> QED
      BY <1>0, <1>3, <3>1 DEF HeightsHeld, NextHeight
  <2>2. CASE RewardBatch /\ ~distributing'
    <3>1. PICK logs : /\ distributing /\ irreversible_height' = NextHeight
                      /\ reward_logs' = Put(reward_logs, NextHeight, logs)
      BY <2>2 DEF RewardBatch, Batch
    <3>2. /\ irreversible_height' = irreversible_height + 1 /\ NextHeight = irreversible_height + 1
          /\ DOMAIN reward_logs' = DOMAIN reward_logs \cup {NextHeight}
      BY <3>1 DEF NextHeight, Put
    <3>3. ASSUME NEW h \in (InitialHeight + 1)..irreversible_height', h > fees_stat'.last_height
          PROVE  h \in DOMAIN feestat' /\ h \in DOMAIN reward_logs'
      <4>1. CASE h = NextHeight
        BY <1>0, <1>1, <3>1, <3>2, <4>1
      <4>2. CASE h # NextHeight
        <5>1. h \in (InitialHeight + 1)..irreversible_height /\ h > fees_stat.last_height
          BY <1>0, <1>3, <3>2, <3>3, <4>2
        <5> QED
          BY <1>0, <1>1, <3>2, <5>1
      <4> QED
        BY <4>1, <4>2
    <3>4. fees_stat'.last_height <= irreversible_height'
      BY <1>0, <1>3, <3>2
    <3> QED
      BY <1>0, <1>3, <2>2, <3>3, <3>4 DEF HeightsHeld
  <2>3. CASE /\ UNCHANGED <<distributing, irreversible_height>>
             /\ UNCHANGED reward_logs \/ \E a, b \in DOMAIN reward_logs : delrewardlog(a, b)
    <3>1. ASSUME NEW h \in DOMAIN reward_logs, h > fees_stat.last_height PROVE h \in DOMAIN reward_logs'
      <4>1. CASE UNCHANGED reward_logs
        BY <3>1, <4>1
      <4>2. CASE \E a, b \in DOMAIN reward_logs : delrewardlog(a, b)
        <5>1. PICK a \in DOMAIN reward_logs, b \in DOMAIN reward_logs :
                b <= fees_stat.last_height /\ reward_logs' = Drop(reward_logs, a..b)
          BY <4>2 DEF delrewardlog, MayDeleteLogs
        <5>2. h \in Nat /\ a \in Nat /\ b \in Nat
          BY <1>0, <3>1 DEF LogsHeld
        <5>3. h \notin a..b
          BY <1>0, <3>1, <5>1, <5>2
        <5> QED
          BY <3>1, <5>1, <5>3 DEF Drop, Restrict
      <4> QED
        BY <2>3, <4>1, <4>2
    <3>2. distributing' => NextHeight' \in DOMAIN feestat'
      BY <1>0, <1>1, <2>3 DEF NextHeight
    <3> QED
      BY <1>0, <1>1, <1>3, <2>3, <3>1, <3>2 DEF HeightsHeld
  <2>4. CASE RewardBatch /\ distributing'
    BY <2>3, <2>4 DEF RewardBatch, Batch
  <2>5. CASE UNCHANGED <<allRewardVars, irreversible_height>> /\ GasNext(Deposits)
    <3>1. CASE \E a, b \in DOMAIN reward_logs : delrewardlog(a, b)
      BY <2>3, <2>5, <3>1 DEF allRewardVars, callerVars
    <3>2. CASE ~\E a, b \in DOMAIN reward_logs : delrewardlog(a, b)
      <4>1. UNCHANGED reward_logs
        BY <2>5, <3>2 DEF GasNext, distribute, enfclaim, ramsclaim, handle_evm_fees_transfer, receiver_claim,
           SaveConfig, deldistribut
      <4> QED
        BY <2>3, <2>5, <4>1 DEF allRewardVars, callerVars
    <3> QED
      BY <3>1, <3>2
  <2>6. CASE UNCHANGED <<allRewardVars, irreversible_height, reward_logs>>
    BY <2>3, <2>6 DEF allRewardVars, callerVars
  <2>7. CASE UNCHANGED feesVars
    BY <2>6, <2>7 DEF feesVars
  <2> QED
    BY <2>1, <2>2, <2>4, <2>5, <2>6, <2>7 DEF FeesStep
<1>4. ASSUME NEW q \in Deposits, handle_evm_fees_transfer(q) PROVE HeightsHeld'
  <2>1. fees_stat'.last_height = fees_stat.last_height
    BY ONLY FundInv, <1>4, TransferShared
  <2> QED
    BY <1>3, <2>1
<1>5. ASSUME WindowKept PROVE HeightsHeld'
  <2>1. fees_stat'.last_height = fees_stat.last_height
    BY ONLY <1>5 DEF WindowKept
  <2> QED
    BY <1>3, <2>1
<1> QED
  BY <1>2, <1>4, <1>5, WindowSteps

\* What some heights brought to an id, a part of them and the rest brought.
LEMMA RewardedSplit ==
  ASSUME LogsHeld, ReceivedHeld, NEW k \in Nat, NEW m \in Nat, NEW n \in Nat, k <= m, m <= n, SinceXsat((k + 1)..n),
         NEW id \in ReceiverIds
  PROVE  ById(RewardedIn((k + 1)..n), id) = ById(RewardedIn((k + 1)..m), id) + ById(RewardedIn((m + 1)..n), id)
<1>1. PICK S, R : S = (k + 1)..m /\ R = (m + 1)..n
  OBVIOUS
<1>2. R \cup S = (k + 1)..n /\ R \cap S = {} /\ IsFiniteSet(S) /\ IsFiniteSet(R) /\ IsFiniteSet(R \cup S)
  <2>1. R \cup S = (k + 1)..n /\ R \cap S = {}
    BY <1>1
  <2>2. k + 1 \in Int /\ m + 1 \in Int /\ m \in Int /\ n \in Int
    OBVIOUS
  <2>3. IsFiniteSet(S) /\ IsFiniteSet(R)
    BY <1>1, <2>2, FS_Interval
  <2> QED
    BY <2>1, <2>3, FS_Union
<1>3. SinceXsat(R \cup S) /\ SinceXsat(R) /\ SinceXsat(S)
  BY <1>2 DEF SinceXsat
<1>4. ASSUME NEW T \in SUBSET (R \cup S), IsFiniteSet(T), SinceXsat(T)
      PROVE  RewardedIn(T) = RewardsIn(T) /\ RewardsIn(T) \in [Receivers -> Nat]
  <2>1. RewardedIn(T) = RewardsIn(T)
    BY <1>4, RewardedAsLogged
  <2>2. \A h \in T : LogsOK(reward_logs[h])
    BY <1>4 DEF SinceXsat, LogsHeld
  <2> QED
    BY <1>4, <2>1, <2>2, RewardsOfWindow DEF WindowRewarded
<1>5. PICK x, y, z : x = RewardsIn(R) /\ y = RewardsIn(S) /\ z = RewardsIn(R \cup S)
  OBVIOUS
<1>6. /\ x = RewardedIn(R) /\ y = RewardedIn(S) /\ z = RewardedIn(R \cup S)
      /\ x \in [Receivers -> Nat] /\ y \in [Receivers -> Nat] /\ z \in [Receivers -> Nat]
  <2>1. R \in SUBSET (R \cup S) /\ S \in SUBSET (R \cup S) /\ R \cup S \in SUBSET (R \cup S)
    OBVIOUS
  <2> QED
    BY <1>2, <1>3, <1>4, <1>5, <2>1
<1>7. ASSUME NEW r \in Receivers PROVE z[r] = y[r] + x[r]
  <2>1. PICK f : f = [h \in R \cup S |-> RewardOf(h, r)]
    OBVIOUS
  <2>2. ASSUME NEW h \in R \cup S PROVE f[h] = RewardOf(h, r) /\ f[h] \in Int
    <3>1. LogsOK(reward_logs[h])
      BY <1>3 DEF SinceXsat, LogsHeld
    <3>2. PICK g : g = [q \in Receivers |-> RewardOf(h, q)]
      OBVIOUS
    <3>3. \A q \in Receivers : g[q] \in Nat
      BY <3>1, <3>2, RewardsOfHeight
    <3> QED
      BY <2>1, <3>2, <3>3
  <2>3. ASSUME NEW T \in SUBSET (R \cup S), IsFiniteSet(T) PROVE RewardsIn(T)[r] = SumFunctionOnSet(f, T)
    <3>1. PICK g : g = [h \in T |-> RewardOf(h, r)]
      OBVIOUS
    <3>2. \A h \in T : f[h] \in Int /\ g[h] = f[h]
      BY <2>2, <3>1
    <3>3. SumFunctionOnSet(g, T) = SumFunctionOnSet(f, T)
      BY <2>3, <3>2, SumEqual
    <3>4. DOMAIN g = T
      BY <3>1
    <3> QED
      BY <3>1, <3>3, <3>4 DEF RewardsIn, Sum, SumFunction
  <2>4. SumFunctionOnSet(f, R \cup S) = SumFunctionOnSet(f, R) + SumFunctionOnSet(f, S)
    BY <1>2, <2>2, SumUnion
  <2>5. x[r] = SumFunctionOnSet(f, R) /\ y[r] = SumFunctionOnSet(f, S) /\ z[r] = SumFunctionOnSet(f, R \cup S)
    BY <1>2, <1>5, <2>3
  <2>6. x[r] \in Int /\ y[r] \in Int
    BY <1>6
  <2>7. z[r] = x[r] + y[r]
    BY <2>4, <2>5
  <2> QED
    BY <2>6, <2>7
<1>8. PICK F, u, v, w : /\ F = Sharing(id) /\ u = [r \in F |-> x[r]] /\ v = [r \in F |-> y[r]] /\ w = [r \in F |-> z[r]]
  OBVIOUS
<1>9. ById(x, id) = SumFunctionOnSet(u, F) /\ ById(y, id) = SumFunctionOnSet(v, F) /\ ById(z, id) = SumFunctionOnSet(w, F)
  BY <1>8, SumById
<1>10. IsFiniteSet(F) /\ F \in SUBSET Receivers
  BY <1>8, IdsOfReceivers
<1>11. \A r \in F : v[r] \in Int /\ u[r] \in Int /\ w[r] = v[r] + u[r]
  <2> SUFFICES ASSUME NEW r \in F PROVE v[r] \in Int /\ u[r] \in Int /\ w[r] = v[r] + u[r]
    OBVIOUS
  <2>1. r \in Receivers /\ u[r] = x[r] /\ v[r] = y[r] /\ w[r] = z[r]
    BY <1>8, <1>10
  <2>2. x[r] \in Nat /\ y[r] \in Nat /\ z[r] = y[r] + x[r]
    BY <1>6, <1>7, <2>1
  <2> QED
    BY <2>1, <2>2
<1>12. SumFunctionOnSet(w, F) = SumFunctionOnSet(v, F) + SumFunctionOnSet(u, F)
  BY <1>10, <1>11, SumAdd
<1>13. ById(z, id) = ById(y, id) + ById(x, id)
  BY <1>9, <1>12
<1> QED
  BY <1>1, <1>2, <1>6, <1>13, Zenon

\* The history of an irreversible height does not change any more, and a log that is
\* there was there before.
LEMMA HistoryStays ==
  ASSUME LogsHeld, ReceivedHeld, [FeesStep(ProviderLists, 1..MaxHeight, Deposits)]_feesVars,
         NEW H \in SUBSET (0..irreversible_height), \A h \in H : h \in DOMAIN reward_logs' /\ reward_logs'[h].btc.consensus = 0
  PROVE  SinceXsat(H) /\ RewardedIn(H)' = RewardedIn(H)
<1> SUFFICES SinceXsat(H) /\ \A h \in H : received'[h] = received[h] /\ reward_logs'[h] = reward_logs[h]
  <2> SUFFICES ASSUME \A h \in H : received'[h] = received[h] /\ reward_logs'[h] = reward_logs[h]
               PROVE  RewardedIn(H)' = RewardedIn(H)
    OBVIOUS
  <2>1. \A v : ReceivedIn(H, v)' = ReceivedIn(H, v)
    <3> TAKE v
    <3>1. [h \in H |-> received'[h][v]] = [h \in H |-> received[h][v]]
      OBVIOUS
    <3> QED
      BY <3>1 DEF ReceivedIn
  <2>2. \A p : SynchronizedIn(H, p)' = SynchronizedIn(H, p)
    <3> TAKE p
    <3>1. PICK T, f : T = {h \in H : reward_logs[h].synchronizer = p} /\ f = [h \in T |-> reward_logs[h].btc.synchronizer]
      OBVIOUS
    <3>2. {h \in H : reward_logs'[h].synchronizer = p} = T
      BY <3>1
    <3>3. f = [h \in T |-> reward_logs'[h].btc.synchronizer]
      BY <3>1
    <3> QED
      BY <3>1, <3>2, <3>3 DEF SynchronizedIn
  <2> QED
    BY <2>1, <2>2, Zenon DEF RewardedIn
<1>0. irreversible_height \in Nat
  BY DEF LogsHeld
<1>1. CASE UNCHANGED received /\ UNCHANGED reward_logs
  BY <1>1 DEF SinceXsat
<1>2. CASE UNCHANGED received /\ \E K : reward_logs' = Drop(reward_logs, K)
  BY <1>2 DEF SinceXsat, Drop, Restrict
<1>3. CASE /\ \E logs : reward_logs' = Put(reward_logs, NextHeight, logs)
           /\ \E got : received' = Put(received, NextHeight, got)
  <2>1. \A h \in H : h # NextHeight
    BY <1>0 DEF NextHeight
  <2>2. \A h \in H : h \in DOMAIN reward_logs /\ reward_logs'[h] = reward_logs[h]
    BY <1>3, <2>1 DEF Put
  <2>3. \A h \in H : received'[h] = received[h]
    BY <1>3, <2>1, <2>2 DEF Put, ReceivedHeld
  <2>4. SinceXsat(H)
    BY <2>2 DEF SinceXsat
  <2> QED
    BY <2>2, <2>3, <2>4
<1> QED
  BY <1>1, <1>2, <1>3, ReceivedChange

\* While fees of the EVM may come in, the record of the window is there, with what
\* was received since the transfer before, by id; no record is of a height above the
\* window.
RecordHeld ==
  LET evm == (EvmStart + 1)..fees_stat.last_height IN
  /\ \A k \in DOMAIN details : k < fees_stat.last_height
  /\ fees_stat.last_height > 0 /\ fees_stat.last_evm_height = 0 => gas_config.start < fees_stat.last_height
  /\ fees_stat.last_height > fees_stat.last_evm_height =>
       /\ EvmStart \in DOMAIN distributes /\ EvmStart \in DOMAIN details
       /\ SinceXsat(evm) => \A id \in ReceiverIds : ById(RewardedIn(evm), id) = Recorded(details[EvmStart], id)

\* The record begins where the window of the EVM does, not above the window.
LEMMA RecordBegins ==
  ASSUME FundInv, RecordHeld
  PROVE  /\ EvmStart \in Nat /\ WindowStart \in Nat /\ EvmStart <= WindowStart /\ fees_stat.last_evm_height <= EvmStart
         /\ fees_stat.last_height > fees_stat.last_evm_height => WindowStart = fees_stat.last_height
         /\ fees_stat.last_height = fees_stat.last_evm_height => EvmStart = WindowStart /\ EvmStart \notin DOMAIN details
<1>1. PICK l, e, s : l = fees_stat.last_height /\ e = fees_stat.last_evm_height /\ s = gas_config.start
  OBVIOUS
<1>2. l \in Nat /\ e \in Nat /\ s \in Nat /\ e <= l /\ DOMAIN details \subseteq Nat
  BY <1>1, GasFundAssumption DEF FundInv, GasInv, FundTypeOK
<1>3. EvmStart = (IF e > 0 THEN e ELSE s) /\ WindowStart = (IF l > 0 THEN l ELSE s)
  BY <1>1 DEF EvmStart, WindowStart
<1>4. (l > 0 /\ e = 0 => s < l) /\ \A k \in DOMAIN details : k < l
  BY <1>1 DEF RecordHeld
<1> QED
  <2>1. EvmStart \in Nat /\ WindowStart \in Nat /\ EvmStart <= WindowStart /\ e <= EvmStart /\ (l > e => WindowStart = l)
    BY ONLY <1>2, <1>3, <1>4
  <2>2. ASSUME l = e PROVE EvmStart = WindowStart /\ EvmStart \notin DOMAIN details
    BY ONLY <1>2, <1>3, <1>4, <2>2
  <2> QED
    BY <1>1, <2>1, <2>2

\* A distribution adds to the record what was received for its heights.
LEMMA RecordGrows ==
  ASSUME StartsLater, LogsHeld, FundInv, ReceivedHeld, HeightsHeld, RecordHeld, distribute, TotalIn(Window) # 0,
         UNCHANGED received
  PROVE  RecordHeld'
<1>0. /\ DOMAIN details \subseteq Nat /\ details \in [DOMAIN details -> Seq(Detail) \ {<< >>}] /\ RecordsOK
      /\ (\A k \in DOMAIN details : k < fees_stat.last_height) /\ FundTypeOK /\ irreversible_height \in Nat
      /\ fees_stat.last_height \in Nat /\ fees_stat.last_evm_height \in Nat /\ fees_stat.last_evm_height <= fees_stat.last_height
  BY DEF FundInv, GasInv, FundTypeOK, RecordHeld, LogsHeld
<1>1. PICK W, key, rows, reward, total, record, top :
        /\ W = Window /\ key = EvmStart /\ rows = Row(details, key, << >>) /\ reward = RewardsIn(W)
        /\ total = TotalIn(W) /\ top = fees_stat'.last_height
        /\ record = [Row(distributes, key, [total_rewards |-> 0, end_height |-> 0]) EXCEPT !.total_rewards = @ + total]
  OBVIOUS
<1>16. total # 0
  BY <1>1
<1>2. /\ W \subseteq DOMAIN feestat \cap DOMAIN reward_logs
      /\ distributes' = Put(distributes, key, record) /\ details' = Put(details, key, Accumulated(rows, reward))
      /\ UNCHANGED <<gas_config, reward_logs>>
  BY <1>1, <1>16, Zenon DEF distribute, TotalIn, RewardsIn, RecordKey
<1>3. PICK w, l, e : w = WindowStart /\ l = fees_stat.last_height /\ e = fees_stat.last_evm_height
  OBVIOUS
<1>4. /\ top \in Nat /\ w \in Nat /\ l <= w /\ w < top /\ W = (w + 1)..top
      /\ fees_stat'.last_evm_height = e
  BY <1>1, <1>3, WindowShared
<1>5. /\ key \in Nat /\ key <= w /\ e <= key
      /\ l > e => w = l
      /\ l = e => key = w /\ key \notin DOMAIN details
  BY <1>1, <1>3, RecordBegins
<1>6. EvmStart' = key
  BY <1>1, <1>2, <1>3, <1>4 DEF EvmStart
<1>7. /\ DOMAIN details' = DOMAIN details \cup {key} /\ details'[key] = Accumulated(rows, reward)
      /\ key \in DOMAIN distributes'
  BY <1>2 DEF Put
<1>8. \A k \in DOMAIN details' : k < top
  <2> SUFFICES ASSUME NEW k \in DOMAIN details' PROVE k < top
    OBVIOUS
  <2>1. CASE k = key
    BY <1>4, <1>5, <2>1
  <2>2. CASE k \in DOMAIN details
    BY <1>0, <1>3, <1>4, <2>2
  <2> QED
    BY <1>7, <2>1, <2>2
<1>9. e = 0 => gas_config'.start < top
  <2> SUFFICES ASSUME e = 0 PROVE gas_config'.start < top
    OBVIOUS
  <2>1. key = gas_config.start
    BY <1>1, <1>3 DEF EvmStart
  <2> QED
    BY <1>2, <1>4, <1>5, <2>1
<1>10. rows \in Seq(Detail) /\ OneRowEach(rows)
  <2>1. CASE key \in DOMAIN details
    BY <1>0, <1>1, <1>3, <1>5, <2>1 DEF RecordsOK, Row
  <2>2. CASE key \notin DOMAIN details
    <3>1. rows = << >>
      BY <1>1, <2>2 DEF Row
    <3>2. DOMAIN rows = {} /\ rows \in Seq(Detail)
      BY <3>1
    <3> QED
      BY <3>2 DEF OneRowEach
  <2> QED
    BY <2>1, <2>2
<1>11. reward \in [Receivers -> Nat]
  <2>1. \A h \in W : LogsOK(reward_logs[h])
    BY <1>2 DEF LogsHeld
  <2>2. IsFiniteSet(W)
    BY <1>0, <1>1, <1>2, WindowOf
  <2> QED
    BY <1>1, <2>1, <2>2, RewardsOfWindow DEF WindowRewarded
<1>12. ASSUME NEW id \in ReceiverIds, SinceXsat((key + 1)..top)
       PROVE  ById(RewardedIn((key + 1)..top), id) = Recorded(Accumulated(rows, reward), id)
  <2>1. Recorded(Accumulated(rows, reward), id) = Recorded(rows, id) + ById(reward, id)
    BY <1>10, <1>11, AccumulatedRows
  <2>2. /\ ById(RewardedIn((key + 1)..top), id)
             = ById(RewardedIn((key + 1)..w), id) + ById(RewardedIn((w + 1)..top), id)
        /\ SinceXsat((w + 1)..top) /\ SinceXsat((key + 1)..w)
    <3>1. (key + 1)..w \subseteq (key + 1)..top /\ (w + 1)..top \subseteq (key + 1)..top /\ w <= top
      BY <1>4, <1>5
    <3>2. SinceXsat((w + 1)..top) /\ SinceXsat((key + 1)..w)
      BY <1>12, <3>1 DEF SinceXsat
    <3> QED
      BY <1>4, <1>5, <1>12, <3>1, <3>2, RewardedSplit
  <2>3. reward = RewardedIn((w + 1)..top)
    <3>1. IsFiniteSet(W)
      BY <1>0, <1>1, <1>2, WindowOf
    <3>2. SinceXsat(W)
      BY <1>4, <2>2
    <3> QED
      BY <1>1, <1>4, <3>1, <3>2, RewardedAsLogged
  <2>4. Recorded(rows, id) = ById(RewardedIn((key + 1)..w), id)
    <3>1. CASE l > e
      <4>1. /\ key \in DOMAIN details
            /\ SinceXsat((key + 1)..l) => ById(RewardedIn((key + 1)..l), id) = Recorded(details[key], id)
        BY <1>1, <1>3, <3>1 DEF RecordHeld
      <4>2. rows = details[key]
        BY <1>1, <4>1 DEF Row
      <4> QED
        BY <1>5, <2>2, <3>1, <4>1, <4>2
    <3>2. CASE l = e
      <4>1. rows = << >> /\ key = w
        BY <1>1, <1>5, <3>2 DEF Row
      <4>2. DetailRow(rows, id) = {}
        BY <4>1 DEF DetailRow
      <4>3. Recorded(rows, id) = 0
        BY <4>2, RecordedInOne
      <4>4. (key + 1)..w = {} /\ IsFiniteSet({}) /\ SinceXsat({})
        BY <1>4, <4>1, FS_EmptySet DEF SinceXsat
      <4>5. PICK g : g = RewardsIn({})
        OBVIOUS
      <4>6. RewardedIn((key + 1)..w) = g
        BY <4>4, <4>5, RewardedAsLogged
      <4>7. \A r \in Receivers : g[r] = 0
        <5> SUFFICES ASSUME NEW r \in Receivers PROVE g[r] = 0
          OBVIOUS
        <5>1. PICK f : f = [h \in {} |-> RewardOf(h, r)]
          OBVIOUS
        <5>2. DOMAIN f = {} /\ g[r] = Sum(f)
          BY <4>5, <5>1 DEF RewardsIn
        <5> QED
          BY <5>2, SumEmpty DEF Sum, SumFunction
      <4>8. g \in [Receivers -> Int]
        BY <4>5, <4>7 DEF RewardsIn
      <4>9. PICK b : b = [x \in ReceiverIds |-> ById(g, x)]
        OBVIOUS
      <4>10. b[id] = 0
        BY <4>7, <4>8, <4>9, AmountsById, IdsOfReceivers
      <4> QED
        BY <4>3, <4>6, <4>9, <4>10
    <3> QED
      BY <1>0, <1>3, <3>1, <3>2
  <2> QED
    BY <2>1, <2>2, <2>3, <2>4
<1>13. SinceXsat((key + 1)..top)' => SinceXsat((key + 1)..top)
  BY <1>2 DEF SinceXsat
<1>14. RewardedIn((key + 1)..top)' = RewardedIn((key + 1)..top)
  BY <1>2 DEF RewardedIn, ReceivedIn, SynchronizedIn
<1>19. \A id \in ReceiverIds : ById(RewardedIn((key + 1)..top), id)' = ById(RewardedIn((key + 1)..top)', id)
  BY DEF ById
<1>15. SinceXsat((key + 1)..top)' => \A id \in ReceiverIds :
         ById(RewardedIn((key + 1)..top), id)' = Recorded(details'[key], id)
  BY <1>7, <1>12, <1>13, <1>14, <1>19
<1>17. fees_stat'.last_height = top
  BY <1>1
<1>18. gas_config'.start < top \/ ~(fees_stat'.last_height > 0 /\ fees_stat'.last_evm_height = 0)
  BY <1>4, <1>9
<1> QED
  BY ONLY <1>4, <1>6, <1>7, <1>8, <1>15, <1>17, <1>18 DEF RecordHeld, SinceXsat

\* The record of the window is kept by every step.
LEMMA RecordStep ==
  ASSUME StartsLater, LogsHeld, FundInv, ReceivedHeld, HeightsHeld, RecordHeld, StartKept,
         [FeesStep(ProviderLists, 1..MaxHeight, Deposits)]_feesVars
  PROVE  RecordHeld'
<1>0. /\ DOMAIN details \subseteq Nat /\ fees_stat.last_height \in Nat /\ fees_stat.last_evm_height \in Nat
      /\ fees_stat.last_evm_height <= fees_stat.last_height /\ irreversible_height \in Nat
      /\ fees_stat.last_height <= irreversible_height
      /\ \A k \in DOMAIN details : k < fees_stat.last_height
  BY DEF FundInv, GasInv, FundTypeOK, LogsHeld, HeightsHeld, RecordHeld
<1>1. ASSUME distribute, TotalIn(Window) # 0, UNCHANGED <<allRewardVars, irreversible_height, received>>
      PROVE  RecordHeld'
  <2>1. UNCHANGED received
    BY <1>1
  <2> QED
    BY <1>1, <2>1, RecordGrows
<1>2. ASSUME NEW q \in Deposits, handle_evm_fees_transfer(q) PROVE RecordHeld'
  <2>1. /\ fees_stat'.last_height = fees_stat.last_height /\ fees_stat'.last_evm_height = fees_stat.last_height
        /\ fees_stat.last_evm_height < fees_stat.last_height /\ UNCHANGED details
    BY <1>2, TransferShared
  <2>2. ~(fees_stat'.last_height > 0 /\ fees_stat'.last_evm_height = 0)
        /\ ~(fees_stat'.last_height > fees_stat'.last_evm_height)
    BY <1>0, <2>1
  <2>3. \A k \in DOMAIN details' : k < fees_stat'.last_height
    BY <1>0, <2>1
  <2> QED
    BY ONLY <2>2, <2>3 DEF RecordHeld
<1>3. ASSUME WindowKept PROVE RecordHeld'
  <2>1. PICK l, e, K : l = fees_stat.last_height /\ e = fees_stat.last_evm_height /\ K = EvmStart
    OBVIOUS
  <2>2. fees_stat'.last_height = l /\ fees_stat'.last_evm_height = e /\ DOMAIN details' \subseteq DOMAIN details
    BY <1>3, <2>1 DEF WindowKept
  <2>3. \A k \in DOMAIN details' : k < fees_stat'.last_height
    BY <1>0, <2>1, <2>2
  <2>4. fees_stat'.last_height > 0 /\ fees_stat'.last_evm_height = 0 => gas_config'.start < fees_stat'.last_height
    BY <2>1, <2>2 DEF RecordHeld, StartKept
  <2>5. ASSUME l > e
        PROVE  /\ EvmStart' = K /\ K \in DOMAIN distributes' /\ K \in DOMAIN details'
               /\ SinceXsat((K + 1)..l)' =>
                    \A id \in ReceiverIds : ById(RewardedIn((K + 1)..l), id)' = Recorded(details'[K], id)
    <3>1. /\ K \in DOMAIN distributes /\ K \in DOMAIN details /\ K \in Nat /\ e <= K
          /\ SinceXsat((K + 1)..l) => \A id \in ReceiverIds : ById(RewardedIn((K + 1)..l), id) = Recorded(details[K], id)
      BY <2>1, <2>5, RecordBegins DEF RecordHeld
    <3>2. K \in DOMAIN distributes' /\ K \in DOMAIN details' /\ details'[K] = details[K]
      BY <1>3, <2>1, <3>1 DEF WindowKept
    <3>3. EvmStart' = K
      <4>1. CASE e > 0
        BY <2>1, <2>2, <4>1 DEF EvmStart
      <4>2. CASE ~(e > 0)
        <5>1. e = 0 /\ l > 0
          BY <1>0, <2>1, <2>5, <4>2
        <5>2. gas_config'.start = gas_config.start
          BY <2>1, <5>1 DEF StartKept
        <5> QED
          BY <2>1, <2>2, <5>1, <5>2 DEF EvmStart
      <4> QED
        BY <4>1, <4>2
    <3>4. ASSUME SinceXsat((K + 1)..l)', NEW id \in ReceiverIds
          PROVE  ById(RewardedIn((K + 1)..l), id)' = Recorded(details'[K], id)
      <4>1. PICK H : H = (K + 1)..l
        OBVIOUS
      <4>2. H \in SUBSET (0..irreversible_height)
        BY <1>0, <2>1, <3>1, <4>1
      <4>3. \A h \in H : h \in DOMAIN reward_logs' /\ reward_logs'[h].btc.consensus = 0
        BY <3>4, <4>1 DEF SinceXsat
      <4>4. SinceXsat(H) /\ RewardedIn(H)' = RewardedIn(H)
        BY <4>2, <4>3, HistoryStays
      <4>5. ById(RewardedIn(H), id)' = ById(RewardedIn(H), id)
        BY <4>4 DEF ById
      <4> QED
        BY <3>1, <3>2, <4>1, <4>4, <4>5
    <3> QED
      BY <3>2, <3>3, <3>4
  <2>6. fees_stat'.last_height = l /\ fees_stat'.last_evm_height = e
    BY <2>2
  <2> QED
    BY ONLY <2>3, <2>4, <2>5, <2>6 DEF RecordHeld, SinceXsat
<1> QED
  BY <1>1, <1>2, <1>3, WindowSteps

\* At first nothing was shared.
LEMMA HeightsAndRecordAtFirst ==
  ASSUME FeesInit
  PROVE  HeightsHeld /\ RecordHeld
<1>1. /\ fees_stat.last_height = 0 /\ fees_stat.last_evm_height = 0 /\ ~distributing
      /\ irreversible_height = InitialHeight /\ DOMAIN details = {} /\ InitialHeight \in Nat
  BY FeesAssumption DEF FeesInit, GasInit, RewardInit
<1>2. HeightsHeld
  <2>1. (InitialHeight + 1)..irreversible_height = {}
    BY <1>1
  <2> QED
    BY <1>1, <2>1 DEF HeightsHeld
<1>3. RecordHeld
  BY <1>1 DEF RecordHeld
<1> QED
  BY <1>2, <1>3

\* With every height charged and logged and the record kept, what waits can be shared.
LEMMA SharedFromRecords ==
  ASSUME StartsLater, LogsHeld, FundInv, HeightsHeld, RecordHeld
  PROVE  FeesCanBeShared
<1>0. /\ fees_stat.last_height \in Nat /\ gas_config \in GasConfigs /\ irreversible_height \in Int
      /\ gas_config.start \in Nat /\ InitialHeight \in Nat
      /\ details \in [DOMAIN details -> Seq(Detail) \ {<< >>}]
  BY GasFundAssumption, FeesAssumption DEF FundInv, GasInv, FundTypeOK, LogsHeld
<1>1. WindowStart \in Nat /\ WindowStart >= InitialHeight /\ WindowStart >= fees_stat.last_height
  BY <1>0 DEF WindowStart, HeightsHeld, StartsLater
<1>2. (WindowStart + 1)..irreversible_height \subseteq DOMAIN feestat \cap DOMAIN reward_logs
  BY <1>0, <1>1 DEF HeightsHeld
<1>3. ASSUME fees_stat.last_height > fees_stat.last_evm_height
      PROVE  LET evm == (EvmStart + 1)..fees_stat.last_height
                 rows == Row(details, EvmStart, << >>) IN
             /\ EvmStart \in DOMAIN distributes /\ rows # << >>
             /\ SinceXsat(evm) => \A id \in ReceiverIds :
                  ById(RewardedIn(evm), id) = Sum([i \in DetailRow(rows, id) |-> rows[i].reward])
  <2>1. /\ EvmStart \in DOMAIN distributes /\ EvmStart \in DOMAIN details
        /\ SinceXsat((EvmStart + 1)..fees_stat.last_height) => \A id \in ReceiverIds :
             ById(RewardedIn((EvmStart + 1)..fees_stat.last_height), id) = Recorded(details[EvmStart], id)
    BY <1>3 DEF RecordHeld
  <2>2. Row(details, EvmStart, << >>) = details[EvmStart] /\ details[EvmStart] # << >>
    BY <1>0, <2>1 DEF Row
  <2> QED
    BY <2>1, <2>2 DEF Recorded
<1> QED
  BY <1>2, <1>3 DEF FeesCanBeShared

\* No share waits for what is gone: with logs, records and configurations changed in
\* any order, every irreversible height above the window has its fees and its logs,
\* and the next EVM transfer its record, with the rewards of all receivers that share
\* a row, whichever ids coincide; if fees are shared from a height of which
\* there are logs, and the start stays between the first distribution and the first
\* EVM transfer (distribute and handle_evm_fees_transfer of gasfund.xsat).
THEOREM FeesCanBeSharedHolds == StartsLater /\ FeesSpec /\ [][StartKept]_feesVars => []FeesCanBeShared
<1>1. FeesInit => HeightsHeld /\ RecordHeld
  BY HeightsAndRecordAtFirst
<1>2. StartsLater /\ LogsHeld /\ FundInv /\ ReceivedHeld /\ HeightsHeld /\ RecordHeld
        /\ [FeesStep(ProviderLists, 1..MaxHeight, Deposits)]_feesVars /\ [StartKept]_feesVars
      => HeightsHeld' /\ RecordHeld'
  BY HeightsStep, RecordStep DEF StartKept, feesVars, fundVars, gasVars
<1>3. StartsLater /\ LogsHeld /\ FundInv /\ HeightsHeld /\ RecordHeld => FeesCanBeShared
  BY SharedFromRecords
<1> QED
  <2>1. StartsLater => []StartsLater
    <3>1. StartsLater => StartsLater'
      BY DEF StartsLater
    <3> QED
      BY <3>1, PTL
  <2>2. FeesSpec => [](LogsHeld /\ FundInv)
    <3>1. FeesInv => LogsHeld /\ FundInv
      BY DEF FeesInv
    <3> QED
      BY <3>1, FeesInvHolds, PTL
  <2>3. FeesSpec => []ReceivedHeld
    BY PaidAndReceived, PTL
  <2> QED
    BY <1>1, <1>2, <1>3, <2>1, <2>2, <2>3, PTL DEF FeesSpec
=============================================================================
