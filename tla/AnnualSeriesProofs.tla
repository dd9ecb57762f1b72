------------------------- MODULE AnnualSeriesProofs -------------------------
(***************************************************************************)
(* Theorems about AnnualSeries for every value of its constants: type      *)
(* correctness, exact custody and exact claim supply, the cumulative-floor *)
(* accounting of redemptions, the refinement of AnnualClaims, the order of *)
(* the journal, the seal, the split every redeemer is paid from, and that  *)
(* holders can always leave.                                               *)
(*                                                                         *)
(* The last sections are about GuardedQuotes: a quote fills exactly or not *)
(* at all, a quote to leave is honoured, the SDK quotes what the program   *)
(* accepts, and clients that hold old guards can do nothing to the series  *)
(* that AnnualSeries does not already allow.                               *)
(***************************************************************************)
EXTENDS GuardedQuotes, FiniteSetTheorems, WellFoundedInduction, TLAPS

-----------------------------------------------------------------------------
(* Arithmetic.                                                             *)

\* Euclidean division, in the form the lemmas below need.
LEMMA DivisionBounds ==
  ASSUME NEW a \in Nat, NEW b \in Nat, b > 0
  PROVE  /\ a \div b \in Nat
         /\ b * (a \div b) <= a
         /\ a < b * (a \div b) + b
  BY SMT

\* A quotient is at most q when the dividend is less than (q + 1) divisors.
LEMMA DivisionUpper ==
  ASSUME NEW a \in Nat, NEW b \in Nat, b > 0, NEW q \in Nat, a <= q * b
  PROVE  a \div b <= q
  <1>1. a \div b \in Nat /\ b * (a \div b) <= a
    BY DivisionBounds
  <1>2. SUFFICES ASSUME a \div b >= q + 1 PROVE FALSE
    BY <1>1
  <1>3. b * (a \div b) >= b * (q + 1)
    BY <1>1, <1>2, SMT
  <1> QED
    BY <1>1, <1>3, SMT

\* Division by a positive number is monotone.
LEMMA DivisionMonotone ==
  ASSUME NEW a \in Nat, NEW c \in Nat, NEW b \in Nat, b > 0, a <= c
  PROVE  a \div b <= c \div b
  <1>1. c \div b \in Nat /\ c < b * (c \div b) + b
    BY DivisionBounds
  <1>2. a \div b \in Nat /\ b * (a \div b) <= a
    BY DivisionBounds
  <1>3. SUFFICES ASSUME a \div b >= c \div b + 1 PROVE FALSE
    BY <1>1, <1>2
  <1>4. b * (a \div b) >= b * (c \div b + 1)
    BY <1>1, <1>2, <1>3, SMT
  <1> QED
    BY <1>1, <1>2, <1>4, SMT

\* redemption_payout: what a side has been paid is a natural number, never more
\* than its pool, and grows with the claims handed in.
LEMMA CumulativeFloorBounds ==
  ASSUME NEW r \in Nat, NEW q \in Nat, NEW p \in Nat, NEW S \in Nat, S > 0,
         r <= q, q <= S
  PROVE  /\ CumulativeFloor(r, p, S) \in Nat
         /\ CumulativeFloor(r, p, S) <= CumulativeFloor(q, p, S)
         /\ CumulativeFloor(q, p, S) <= p
  <1>1. r * p \in Nat /\ q * p \in Nat /\ r * p <= q * p /\ q * p <= p * S
    BY SMT
  <1> QED
    BY <1>1, DivisionBounds, DivisionMonotone, DivisionUpper DEF CumulativeFloor

\* split_pools: both pools are natural numbers and together they are the backing.
LEMMA SplitPoolsSum ==
  ASSUME NEW Q \in Nat, NEW n \in Nat, NEW d \in Nat, SplitsPools(Q, n, d)
  PROVE  /\ SplitPools(Q, n, d) \in [Sides -> Nat]
         /\ SplitPools(Q, n, d)["dr"] \in 0..Q
         /\ SplitPools(Q, n, d)["pt"] = Q - SplitPools(Q, n, d)["dr"]
  <1>1. d > 0 /\ d - n \in Nat /\ d - n <= d
    BY DEF SplitsPools
  <1>2. Q * (d - n) \in Nat /\ Q * (d - n) <= Q * d
    BY <1>1, SMT
  <1>3. (Q * (d - n)) \div d \in Nat /\ (Q * (d - n)) \div d <= Q
    BY <1>1, <1>2, DivisionBounds, DivisionUpper
  <1> QED
    BY <1>3 DEF SplitPools, Sides

-----------------------------------------------------------------------------
(* Products.  A recursive function is what its definition says once some   *)
(* function satisfies the definition; that one does is shown by induction, *)
(* which here is about the set of the numbers with a property.             *)

\* A set of natural numbers has a least one.
LEMMA NatMin ==
  ASSUME NEW T, T \subseteq Nat, T # {}
  PROVE  \E x \in T : \A y \in T : x <= y
<1>1. \E x \in T : \A y \in T : ~ (<<y, x>> \in OpToRel(<, Nat))
  BY NatLessThanWellFounded, WFMin
<1>2. ASSUME NEW x \in T, NEW y \in T, ~ (<<y, x>> \in OpToRel(<, Nat)) PROVE x <= y
  BY <1>2 DEF OpToRel
<1>. QED
  BY <1>1, <1>2

\* Induction, for a set of numbers.
LEMMA SetInduction ==
  ASSUME NEW S, 0 \in S, \A n \in Nat : n \in S => n + 1 \in S
  PROVE  Nat \subseteq S
<1>. SUFFICES ASSUME Nat \ S # {} PROVE FALSE
  OBVIOUS
<1>1. PICK x \in Nat \ S : \A y \in Nat \ S : x <= y
  BY NatMin
<1>2. x # 0 /\ x - 1 \in Nat
  BY <1>1
<1>3. x - 1 \in S
  BY <1>1, <1>2
<1>. QED
  BY <1>1, <1>2, <1>3

\* p begins the sequence of products of g, up to m factors.
Begins(p, g, m) == /\ p \in [0..m -> Nat] /\ p[0] = 1
                   /\ \A n \in 0..m : n # 0 => p[n] = p[n - 1] * g[n - 1]

\* There is one of every length.
LEMMA BeginsExists ==
  ASSUME NEW g \in [Nat -> Nat]
  PROVE  \A m \in Nat : \E p : Begins(p, g, m)
<1>. DEFINE S == {m \in Nat : \E p : Begins(p, g, m)}
<1>1. 0 \in S
  <2>1. Begins([i \in 0..0 |-> 1], g, 0)
    BY DEF Begins
  <2>. QED BY <2>1
<1>2. ASSUME NEW n \in Nat, n \in S PROVE n + 1 \in S
  <2>1. PICK p : Begins(p, g, n)
    BY <1>2
  <2>. DEFINE q == [i \in 0..(n+1) |-> IF i = n + 1 THEN p[n] * g[n] ELSE p[i]]
  <2>2. p[n] \in Nat /\ g[n] \in Nat
    BY <2>1 DEF Begins
  <2>3. p[n] * g[n] \in Nat
    BY <2>2
  <2>4. q \in [0..(n+1) -> Nat]
    <3>1. ASSUME NEW i \in 0..(n+1), i # n + 1 PROVE p[i] \in Nat
      <4>1. i \in 0..n
        BY <3>1
      <4>. QED BY <2>1, <4>1 DEF Begins
    <3>. QED BY <2>3, <3>1
  <2>5. q[0] = 1
    BY <2>1 DEF Begins
  <2>6. ASSUME NEW i \in 0..(n+1), i # 0 PROVE q[i] = q[i-1] * g[i-1]
    <3>1. CASE i = n + 1
      BY <3>1
    <3>2. CASE i # n + 1
      <4>1. i \in 0..n /\ i - 1 \in 0..n /\ i - 1 # n + 1
        BY <2>6, <3>2
      <4>2. q[i] = p[i] /\ q[i-1] = p[i-1]
        BY <4>1, <3>2
      <4>. QED BY <2>1, <2>6, <4>1, <4>2 DEF Begins
    <3>. QED BY <3>1, <3>2
  <2>7. Begins(q, g, n + 1)
    BY <2>4, <2>5, <2>6 DEF Begins
  <2>. HIDE DEF q
  <2>. QED BY <2>7
<1>. HIDE DEF S
<1>3. Nat \subseteq S
  BY <1>1, <1>2, SetInduction
<1>. QED BY <1>3 DEF S

\* Two such beginnings agree where both are defined.
LEMMA BeginsUnique ==
  ASSUME NEW g \in [Nat -> Nat], NEW m \in Nat, NEW k \in Nat, NEW p, Begins(p, g, m), NEW q, Begins(q, g, k)
  PROVE  \A n \in Nat : n <= m /\ n <= k => p[n] = q[n]
<1>. DEFINE S == {n \in Nat : n <= m /\ n <= k => p[n] = q[n]}
<1>1. 0 \in S
  BY DEF Begins
<1>2. ASSUME NEW n \in Nat, n \in S PROVE n + 1 \in S
  <2>. SUFFICES ASSUME n + 1 <= m, n + 1 <= k PROVE p[n + 1] = q[n + 1]
    OBVIOUS
  <2>1. n + 1 \in 0..m /\ n + 1 \in 0..k /\ n + 1 # 0 /\ (n + 1) - 1 = n
    OBVIOUS
  <2>2. p[n+1] = p[(n+1) - 1] * g[(n+1) - 1] /\ q[n+1] = q[(n+1) - 1] * g[(n+1) - 1]
    BY <2>1 DEF Begins
  <2>3. p[n] = q[n]
    BY <1>2
  <2>. QED BY <2>1, <2>2, <2>3
<1>. HIDE DEF S
<1>3. Nat \subseteq S
  BY <1>1, <1>2, SetInduction
<1>. QED BY <1>3 DEF S

\* So there is a function that satisfies the recursion, and Product(g) is one.
LEMMA ProductRecursion ==
  ASSUME NEW g \in [Nat -> Nat]
  PROVE  Product(g) = [n \in Nat |-> IF n = 0 THEN 1 ELSE Product(g)[n - 1] * g[n - 1]]
<1>. DEFINE h == [m \in Nat |-> CHOOSE p : Begins(p, g, m)]
            f == [n \in Nat |-> h[n][n]]
<1>1. \A m \in Nat : Begins(h[m], g, m)
  BY BeginsExists
<1>. HIDE DEF h
<1>2. f = [n \in Nat |-> IF n = 0 THEN 1 ELSE f[n - 1] * g[n - 1]]
  <2>. SUFFICES ASSUME NEW n \in Nat PROVE f[n] = IF n = 0 THEN 1 ELSE f[n - 1] * g[n - 1]
    OBVIOUS
  <2>1. CASE n = 0
    BY <1>1, <2>1 DEF Begins
  <2>2. CASE n # 0
    <3>1. n - 1 \in Nat /\ n - 1 <= n
      BY <2>2
    <3>2. h[n][n] = h[n][n - 1] * g[n - 1]
      <4>1. Begins(h[n], g, n) /\ n \in 0..n
        BY <1>1
      <4>. QED BY <2>2, <4>1 DEF Begins
    <3>3. h[n][n - 1] = h[n - 1][n - 1]
      BY <1>1, <3>1, BeginsUnique
    <3>. QED BY <2>2, <3>1, <3>2, <3>3
  <2>. QED BY <2>1, <2>2
<1>. HIDE DEF f
<1>. QED BY <1>2 DEF Product

\* The product of positive numbers is positive, and grows by one factor.
LEMMA ProductValues ==
  ASSUME NEW g \in [Nat -> Nat \ {0}]
  PROVE  /\ Product(g)[0] = 1
         /\ \A n \in Nat : Product(g)[n + 1] = Product(g)[n] * g[n]
         /\ \A n \in Nat : Product(g)[n] \in Nat \ {0}
<1>. DEFINE f == Product(g)
            S == {n \in Nat : f[n] \in Nat \ {0}}
<1>1. f = [n \in Nat |-> IF n = 0 THEN 1 ELSE f[n - 1] * g[n - 1]]
  BY ProductRecursion
<1>. HIDE DEF f
<1>2. f[0] = 1
  BY <1>1
<1>3. ASSUME NEW n \in Nat PROVE f[n + 1] = f[n] * g[n]
  <2>1. n + 1 \in Nat /\ n + 1 # 0 /\ (n + 1) - 1 = n
    OBVIOUS
  <2>2. f[n + 1] = IF n + 1 = 0 THEN 1 ELSE f[(n + 1) - 1] * g[(n + 1) - 1]
    BY <1>1, <2>1
  <2>. QED BY <2>1, <2>2
<1>4. 0 \in S
  BY <1>2
<1>5. ASSUME NEW n \in Nat, n \in S PROVE n + 1 \in S
  <2>1. f[n] \in Nat /\ f[n] > 0 /\ g[n] \in Nat /\ g[n] > 0
    BY <1>5
  <2>2. f[n] * g[n] \in Nat /\ f[n] * g[n] > 0
    BY <2>1
  <2>. QED BY <1>3, <2>2
<1>. HIDE DEF S
<1>6. Nat \subseteq S
  BY <1>4, <1>5, SetInduction
<1>. QED BY <1>2, <1>3, <1>6 DEF S, f

\* The powers of two are products of twos.
LEMMA Pow2Values ==
  /\ Pow2[0] = 1
  /\ \A n \in Nat : Pow2[n + 1] = Pow2[n] * 2 /\ Pow2[n] \in Nat \ {0}
<1>. DEFINE g == [i \in Nat |-> 2]
            f == Product(g)
<1>1. g \in [Nat -> Nat] /\ g \in [Nat -> Nat \ {0}] /\ \A n \in Nat : g[n] = 2
  OBVIOUS
<1>. HIDE DEF g
<1>2. f = [n \in Nat |-> IF n = 0 THEN 1 ELSE f[n - 1] * g[n - 1]]
  BY <1>1, ProductRecursion
<1>. HIDE DEF f
<1>3. f = [n \in Nat |-> IF n = 0 THEN 1 ELSE f[n - 1] * 2]
  <2>1. \A n \in Nat : n # 0 => g[n - 1] = 2
    BY <1>1
  <2>. QED BY <1>2, <2>1
<1>4. Pow2 = [n \in Nat |-> IF n = 0 THEN 1 ELSE Pow2[n - 1] * 2]
  BY <1>3 DEF Pow2
<1>. DEFINE S == {n \in Nat : Pow2[n] \in Nat \ {0}}
<1>5. Pow2[0] = 1
  BY <1>4
<1>6. ASSUME NEW n \in Nat PROVE Pow2[n + 1] = Pow2[n] * 2
  <2>1. n + 1 \in Nat /\ n + 1 # 0 /\ (n + 1) - 1 = n
    OBVIOUS
  <2>2. Pow2[n + 1] = IF n + 1 = 0 THEN 1 ELSE Pow2[(n + 1) - 1] * 2
    BY <1>4, <2>1
  <2>. QED BY <2>1, <2>2
<1>7. 0 \in S /\ \A n \in Nat : n \in S => n + 1 \in S
  BY <1>5, <1>6
<1>. HIDE DEF S
<1>8. Nat \subseteq S
  BY <1>7, SetInduction
<1>. QED BY <1>5, <1>6, <1>8 DEF S

\* A shift by a + b is a shift by a and one by b.
LEMMA Pow2Adds ==
  ASSUME NEW a \in Nat, NEW b \in Nat
  PROVE  Pow2[a + b] = Pow2[a] * Pow2[b]
<1>. DEFINE S == {n \in Nat : Pow2[a + n] = Pow2[a] * Pow2[n]}
<1>1. 0 \in S
  BY Pow2Values
<1>2. ASSUME NEW n \in Nat, n \in S PROVE n + 1 \in S
  <2>1. a + n \in Nat /\ a + (n + 1) = (a + n) + 1
    OBVIOUS
  <2>2. /\ Pow2[a + n] = Pow2[a] * Pow2[n] /\ Pow2[a] \in Nat /\ Pow2[n] \in Nat
        /\ Pow2[(a + n) + 1] = Pow2[a + n] * 2 /\ Pow2[n + 1] = Pow2[n] * 2
    BY <1>2, <2>1, Pow2Values
  <2>3. Pow2[a + (n + 1)] = (Pow2[a] * Pow2[n]) * 2
    BY <2>1, <2>2
  <2>4. (Pow2[a] * Pow2[n]) * 2 = Pow2[a] * (Pow2[n] * 2)
    BY <2>2
  <2>. QED BY <2>2, <2>3, <2>4
<1>. HIDE DEF S
<1>3. Nat \subseteq S
  BY <1>1, <1>2, SetInduction
<1>. QED BY <1>3 DEF S

-----------------------------------------------------------------------------
(* The inductive invariant.  TypeOK alone is not inductive: that a payout  *)
(* is a natural number the vault can pay rests on the cumulative-floor     *)
(* accounting, and that in turn on the finalized pools adding up.          *)

\* The accounting facts every step preserves together.
LedgerInv == CustodyExact /\ SupplyExact /\ PoolsConsistent

Inv == TypeOK /\ LedgerInv

\* What LedgerInv reads.
ledgerVars == <<phase, nominal_backing, poolVars, vault, supply, historyVars>>

\* A step that touches none of it preserves the accounting.
LEMMA LedgerUnchanged == LedgerInv /\ UNCHANGED ledgerVars => LedgerInv'
  BY DEF LedgerInv, CustodyExact, Owed, SupplyExact, PoolsConsistent, ledgerVars, poolVars,
         historyVars

\* The initial state satisfies the invariant.
LEMMA InitInv == Init => Inv
  <1> SUFFICES ASSUME Init PROVE Inv
    OBVIOUS
  <1>1. PICK s \in Scales, c \in ControlSets :
          mint = [current |-> s.current, new |-> s.new, effective |-> s.effective,
                  controls |-> c, transferable |-> TRUE]
    BY DEF Init
  <1>2. mint \in [current: Nat, new: Nat, effective: Nat, controls: ControlSets,
                  transferable: BOOLEAN]
    BY <1>1, SeriesAssumption
  <1>3. TypeOK
    BY <1>2, SeriesAssumption DEF Init, TypeOK, Phases, ScaleTuples, NoScale, NoHead, Unsealed,
       FreshAccumulator, Sides
  <1>4. LedgerInv
    BY DEF Init, LedgerInv, CustodyExact, Owed, SupplyExact, PoolsConsistent, Sides
  <1> QED
    BY <1>3, <1>4 DEF Inv

\* The mint's scale tuple is one.
LEMMA ScaleTupleType == TypeOK => ScaleTuple(mint, now) \in ScaleTuples
  BY DEF TypeOK, ScaleTuple, ActiveBits, ScaleTuples

\* Administration writes the configuration and the policy only.
LEMMA AdministrationInv == Inv /\ Administration => Inv'
  <1> SUFFICES ASSUME Inv, Administration PROVE Inv'
    OBVIOUS
  <1> USE SeriesAssumption DEF Inv
  <1>1. ASSUME NEW signer \in Principals, InitializeConfig(signer) PROVE Inv'
    <2>1. TypeOK'
      BY <1>1 DEF InitializeConfig, TypeOK, mintVars, journalVars, sealVars, poolVars, tokenVars,
         historyVars
    <2>2. UNCHANGED ledgerVars
      BY <1>1 DEF InitializeConfig, ledgerVars, poolVars, tokenVars, historyVars
    <2> QED BY <2>1, <2>2, LedgerUnchanged
  <1>2. ASSUME NEW signer \in Principals, NEW attestor \in Principals,
               RegisterAsset(signer, attestor) PROVE Inv'
    <2>1. TypeOK'
      BY <1>2, ScaleTupleType DEF RegisterAsset, TypeOK, clockVars, mintVars, journalVars,
         sealVars, poolVars, tokenVars, historyVars
    <2>2. UNCHANGED ledgerVars
      BY <1>2 DEF RegisterAsset, ledgerVars, poolVars, tokenVars, historyVars
    <2> QED BY <2>1, <2>2, LedgerUnchanged
  <1>3. ASSUME NEW signer \in Principals, NEW enabled \in BOOLEAN,
               SetAssetAdmission(signer, enabled) PROVE Inv'
    <2>1. TypeOK'
      BY <1>3 DEF SetAssetAdmission, TypeOK, clockVars, mintVars, journalVars, sealVars, poolVars,
         tokenVars, historyVars
    <2>2. UNCHANGED ledgerVars
      BY <1>3 DEF SetAssetAdmission, ledgerVars, poolVars, tokenVars, historyVars
    <2> QED BY <2>1, <2>2, LedgerUnchanged
  <1>4. ASSUME NEW signer \in Principals, NEW valid_until \in now..(now + Lifetime),
               RefreshObservation(signer, valid_until) PROVE Inv'
    <2>0. valid_until \in Nat
      BY DEF TypeOK
    <2>1. TypeOK'
      BY <1>4, <2>0, ScaleTupleType DEF RefreshObservation, TypeOK, clockVars, mintVars,
         journalVars, sealVars, poolVars, tokenVars, historyVars
    <2>2. UNCHANGED ledgerVars
      BY <1>4 DEF RefreshObservation, ledgerVars, poolVars, tokenVars, historyVars
    <2> QED BY <2>1, <2>2, LedgerUnchanged
  <1>5. ASSUME CreateSeries PROVE Inv'
    <2>1. TypeOK'
      BY <1>5 DEF CreateSeries, TypeOK, Phases, clockVars, mintVars, journalVars, sealVars,
         poolVars, historyVars
    <2>2. LedgerInv'
      BY <1>5 DEF CreateSeries, LedgerInv, CustodyExact, Owed, SupplyExact, PoolsConsistent,
         poolVars, historyVars
    <2> QED BY <2>1, <2>2
  <1> QED
    BY <1>1, <1>2, <1>3, <1>4, <1>5 DEF Administration

\* A redemption's payout is the difference of two cumulative floors, the first of
\* which is what the side was already paid and the second at most its pool.
LEMMA PayoutBounds ==
  ASSUME Inv, NEW h \in Holders, NEW amount \in Amounts, NEW side \in Sides,
         NEW allow_zero \in BOOLEAN, Redeem(h, side, amount, allow_zero, CurrentGuard)
  PROVE  LET payout == RedemptionPayout(redeemed[side], amount, pool[side], final_supply)
             after  == CumulativeFloor(redeemed[side] + amount, pool[side], final_supply)
         IN  /\ phase = "finalized" /\ final_supply > 0 /\ final_supply = nominal_backing
             /\ redeemed[side] + amount <= final_supply
             /\ after \in Nat /\ payout \in Nat /\ after <= pool[side]
             /\ paid[side] + payout = after
  <1> USE SeriesAssumption DEF Inv
  <1> DEFINE payout == RedemptionPayout(redeemed[side], amount, pool[side], final_supply)
             before == CumulativeFloor(redeemed[side], pool[side], final_supply)
             after  == CumulativeFloor(redeemed[side] + amount, pool[side], final_supply)
  <1>1. /\ phase = "finalized" /\ final_supply \in Nat /\ final_supply > 0
        /\ redeemed[side] \in Nat /\ pool[side] \in Nat /\ paid[side] \in Nat
        /\ redeemed[side] + amount \in Nat /\ redeemed[side] + amount <= final_supply
        /\ redeemed[side] <= redeemed[side] + amount
        /\ redeemed[side] + amount <= redeemed[side] + amount
    BY DEF Redeem, RedeemAccepted, RedemptionFits, TypeOK
  <1>2. before \in Nat /\ before <= after /\ after <= pool[side]
    BY <1>1, CumulativeFloorBounds, Zenon
  <1>3. after \in Nat
    BY <1>1, CumulativeFloorBounds, Zenon
  <1>4. paid[side] = before /\ payout = after - before /\ final_supply = nominal_backing
    BY <1>1 DEF LedgerInv, PoolsConsistent, RedemptionPayout
  <1>5. payout \in Nat /\ paid[side] + payout = after
    <2> HIDE DEF payout, before, after
    <2> QED BY <1>2, <1>3, <1>4
  <1> QED BY <1>1, <1>2, <1>3, <1>4, <1>5

\* Depositing and recombining move the vault, the backing and both supplies by
\* one amount; redeeming pays the difference of two cumulative floors.
LEMMA CustodyInv == Inv /\ Custody => Inv'
  <1> SUFFICES ASSUME Inv, NEW h \in Holders, NEW amount \in Amounts,
                      \/ Deposit(h, amount, CurrentGuard)
                      \/ Recombine(h, amount, CurrentGuard)
                      \/ \E side \in Sides, allow_zero \in BOOLEAN :
                           Redeem(h, side, amount, allow_zero, CurrentGuard)
               PROVE  Inv'
    BY DEF Custody
  <1> USE SeriesAssumption DEF Inv
  <1>0. amount \in Nat /\ amount > 0
    OBVIOUS
  <1>1. ASSUME Deposit(h, amount, CurrentGuard) PROVE Inv'
    <2>0. collateral[h] - amount \in Nat
      BY <1>0, <1>1 DEF Deposit, DepositAccepted, TypeOK
    <2>1. TypeOK'
      BY <1>0, <1>1, <2>0 DEF Deposit, DepositAccepted, MintPair, BumpStateVersion, TypeOK, clockVars, mintVars, journalVars,
         sealVars, poolVars, historyVars
    <2>2. LedgerInv'
      BY SMTT(60), <1>0, <1>1 DEF Deposit, DepositAccepted, MintPair, LedgerInv, CustodyExact, Owed, SupplyExact, PoolsConsistent,
         TypeOK, Sides, poolVars, historyVars
    <2> QED BY <2>1, <2>2
  <1>2. ASSUME Recombine(h, amount, CurrentGuard) PROVE Inv'
    <2>0. /\ vault - amount \in Nat /\ nominal_backing - amount \in Nat
          /\ \A s \in Sides : supply[s] - amount \in Nat /\ claims[s][h] - amount \in Nat
      BY <1>0, <1>2 DEF Recombine, RecombineAccepted, Burns, BurnPair, TransferFromVault, TypeOK
    <2>1. TypeOK'
      BY <1>0, <1>2, <2>0 DEF Recombine, RecombineAccepted, Burns, BurnPair, TransferFromVault, BumpStateVersion, TypeOK, clockVars, mintVars,
         journalVars, sealVars, poolVars, historyVars
    <2>2. LedgerInv'
      BY SMTT(60), <1>0, <1>2 DEF Recombine, RecombineAccepted, Burns, BurnPair, TransferFromVault, LedgerInv, CustodyExact, Owed, SupplyExact, PoolsConsistent,
         TypeOK, Sides, poolVars, historyVars
    <2> QED BY <2>1, <2>2
  <1>3. ASSUME NEW side \in Sides, NEW allow_zero \in BOOLEAN,
               Redeem(h, side, amount, allow_zero, CurrentGuard) PROVE Inv'
    <2> DEFINE payout == RedemptionPayout(redeemed[side], amount, pool[side], final_supply)
               after  == CumulativeFloor(redeemed[side] + amount, pool[side], final_supply)
    <2>1. /\ phase = "finalized" /\ final_supply > 0 /\ redeemed[side] + amount <= final_supply
          /\ final_supply \in Nat
      BY <1>3, PayoutBounds DEF TypeOK
    <2>2. after \in Nat /\ after <= pool[side]
      BY <1>3, PayoutBounds
    <2>3. payout \in Nat /\ paid[side] + payout = after
      BY <1>3, PayoutBounds
    <2>4. /\ pool["pt"] + pool["dr"] = final_supply /\ paid["pt"] <= pool["pt"]
          /\ paid["dr"] <= pool["dr"] /\ pool \in [Sides -> Nat] /\ paid \in [Sides -> Nat]
      BY <2>1 DEF LedgerInv, PoolsConsistent, TypeOK, Sides
    <2>5. vault >= RemainingObligations
      BY <1>3 DEF Redeem, RedeemAccepted
    <2>6. payout <= RemainingObligations
      BY <2>2, <2>3, <2>4 DEF RemainingObligations, Sides
    <2>7. vault - payout \in Nat
      BY <2>3, <2>4, <2>5, <2>6 DEF TypeOK, RemainingObligations, Sides
    <2>8. claims[side][h] - amount \in Nat /\ supply[side] - amount \in Nat
      BY <1>0, <1>3 DEF Redeem, RedeemAccepted, Burns, TypeOK
    <2>9. /\ claims' = [claims EXCEPT ![side][h] = @ - amount]
          /\ supply' = [supply EXCEPT ![side] = @ - amount]
          /\ vault' = vault - payout
          /\ collateral' = [collateral EXCEPT ![h] = @ + payout]
          /\ redeemed' = [redeemed EXCEPT ![side] = @ + amount]
          /\ paid' = [paid EXCEPT ![side] = @ + payout]
          /\ state_version' = state_version + 1
          /\ UNCHANGED <<clockVars, asset, mintVars, phase, nominal_backing, journalVars,
                         sealVars, final_supply, pool, mint_authority, historyVars>>
      BY <1>3 DEF Redeem, RedeemAccepted, TransferFromVault, BumpStateVersion
    <2> HIDE DEF payout, after
    <2>10. TypeOK'
      <3>1. /\ claims' \in [Sides -> [Holders -> Nat]] /\ supply' \in [Sides -> Nat]
            /\ vault' \in Nat /\ collateral' \in [Holders -> Nat]
            /\ redeemed' \in [Sides -> Nat] /\ paid' \in [Sides -> Nat] /\ state_version' \in Nat
        BY <1>0, <2>3, <2>7, <2>8, <2>9 DEF TypeOK
      <3> QED
        BY <2>9, <3>1 DEF TypeOK, clockVars, mintVars, journalVars, sealVars, historyVars
    <2>11. CustodyExact'
      BY SMTT(60), <2>1, <2>3, <2>4, <2>9 DEF LedgerInv, CustodyExact, Owed, TypeOK, Sides, historyVars
    <2>12. SupplyExact'
      BY <1>0, <2>8, <2>9 DEF LedgerInv, SupplyExact, TypeOK, historyVars
    <2>13. PoolsConsistent'
      <3>1. redeemed'[side] = redeemed[side] + amount /\ paid'[side] = after
        BY <2>2, <2>3, <2>9 DEF TypeOK
      <3>2. \A s \in Sides \ {side} : redeemed'[s] = redeemed[s] /\ paid'[s] = paid[s]
        BY <2>9 DEF TypeOK
      <3>3. paid'[side] = CumulativeFloor(redeemed'[side], pool[side], final_supply)
        BY <3>1 DEF after
      <3> QED
        BY <2>1, <2>2, <2>4, <2>9, <3>1, <3>2, <3>3 DEF LedgerInv, PoolsConsistent
    <2> QED BY <2>10, <2>11, <2>12, <2>13 DEF LedgerInv
  <1> QED
    BY <1>1, <1>2, <1>3

\* A counter from which a class can be subtracted stays a natural number.
LEMMA ReclassifiedType ==
  ASSUME NEW count \in Nat, NEW was, NEW is, CanReclassify(count, was)
  PROVE  Reclassified(count, was, is) \in Nat
  BY DEF CanReclassify, Reclassified

\* A journal write keeps the counters natural: a class is only subtracted when
\* the event was counted in it.
LEMMA AppendRevisionInv ==
  ASSUME Inv, NEW e \in Events, NEW r \in Nat, NEW p \in Payloads, AppendRevision(e, r, p)
  PROVE  Inv'
  <1> USE DEF Inv
  <1> DEFINE head == heads[e]
             wasOpen == head.live /\ ~head.latest_resolved
             wasIn == head.live /\ head.latest_in_year_qualified
  <1>1. /\ CanReclassify(journal.unresolved_count, wasOpen)
        /\ CanReclassify(journal.in_year_qualified_count, wasIn)
        /\ journal'.event_count = IF head.live THEN journal.event_count
                                               ELSE journal.event_count + 1
        /\ journal'.unresolved_count =
             Reclassified(journal.unresolved_count, wasOpen, ~Resolved(p))
        /\ journal'.in_year_qualified_count =
             Reclassified(journal.in_year_qualified_count, wasIn, InYearQualified(p))
        /\ journal'.version = journal.version + 1
    BY DEF AppendRevision
  <1>2. /\ journal.event_count \in Nat /\ journal.unresolved_count \in Nat
        /\ journal.in_year_qualified_count \in Nat /\ journal.version \in Nat
    BY DEF TypeOK
  <1>3. /\ journal'.event_count \in Nat /\ journal'.unresolved_count \in Nat
        /\ journal'.in_year_qualified_count \in Nat /\ journal'.version \in Nat
    <2>1. Reclassified(journal.unresolved_count, wasOpen, ~Resolved(p)) \in Nat
      BY <1>1, <1>2, ReclassifiedType, Zenon
    <2>2. Reclassified(journal.in_year_qualified_count, wasIn, InYearQualified(p)) \in Nat
      BY <1>1, <1>2, ReclassifiedType, Zenon
    <2>3. journal'.event_count \in Nat /\ journal'.version \in Nat
      BY <1>1, <1>2
    <2> QED BY <1>1, <2>1, <2>2, <2>3, Zenon
  <1>4. /\ DOMAIN heads' = Events
        /\ \A x \in Events : heads'[x].live \in BOOLEAN /\ heads'[x].latest_resolved \in BOOLEAN
                               /\ heads'[x].latest_in_year_qualified \in BOOLEAN
                               /\ heads'[x].index \in Nat /\ heads'[x].latest_revision \in Nat
    <2>1. Resolved(p) \in BOOLEAN /\ InYearQualified(p) \in BOOLEAN
      BY DEF Resolved, InYearQualified
    <2>2. PICK hash : heads' = [heads EXCEPT ![e] =
           [live |-> TRUE,
            index |-> EventIndex(head),
            latest_revision |-> r,
            latest_record_hash |-> hash,
            latest_resolved |-> Resolved(p),
            latest_in_year_qualified |-> InYearQualified(p)]]
      BY DEF AppendRevision
    <2>3. DOMAIN heads = Events
      BY DEF TypeOK
    <2>4. DOMAIN heads' = Events
      BY <2>2, <2>3
    <2>5. \A x \in Events \ {e} : heads'[x] = heads[x]
      BY <2>2, <2>3
    <2>6. heads'[e] = [live |-> TRUE,
                       index |-> EventIndex(head),
                       latest_revision |-> r,
                       latest_record_hash |-> hash,
                       latest_resolved |-> Resolved(p),
                       latest_in_year_qualified |-> InYearQualified(p)]
      BY <2>2, <2>3
    <2>7. /\ heads'[e].live \in BOOLEAN /\ heads'[e].latest_resolved \in BOOLEAN
          /\ heads'[e].latest_in_year_qualified \in BOOLEAN
          /\ heads'[e].index \in Nat /\ heads'[e].latest_revision \in Nat
      BY <2>1, <2>6 DEF EventIndex, TypeOK
    <2>8. \A x \in Events \ {e} :
            /\ heads'[x].live \in BOOLEAN /\ heads'[x].latest_resolved \in BOOLEAN
            /\ heads'[x].latest_in_year_qualified \in BOOLEAN
            /\ heads'[x].index \in Nat /\ heads'[x].latest_revision \in Nat
      BY <2>5 DEF TypeOK
    <2> QED BY <2>4, <2>7, <2>8
  <1>5. /\ state_version' = state_version + 1
        /\ UNCHANGED <<clockVars, asset, mintVars, phase, nominal_backing, sealVars, poolVars,
                       tokenVars, historyVars>>
    BY DEF AppendRevision, BumpStateVersion
  <1>6. TypeOK'
    BY <1>3, <1>4, <1>5 DEF TypeOK, clockVars, mintVars, sealVars, poolVars, tokenVars,
       historyVars
  <1>7. UNCHANGED ledgerVars
    BY <1>5 DEF ledgerVars, poolVars, tokenVars, historyVars
  <1> QED BY <1>6, <1>7, LedgerUnchanged

\* The attestor's instructions leave every balance alone.
LEMMA AttestationInv == Inv /\ Attestation => Inv'
  <1> SUFFICES ASSUME Inv, Attestation PROVE Inv'
    OBVIOUS
  <1> USE SeriesAssumption DEF Inv
  <1>1. ASSUME NEW signer \in Principals, NEW e \in Events, NEW r \in 1..MaxRevision,
               NEW p \in Payloads, UpsertEvent(signer, e, r, p)
        PROVE  Inv'
    <2>1. CASE ReplayRevision(e, r, p)
      <3>1. UNCHANGED vars
        BY <2>1 DEF ReplayRevision
      <3>2. TypeOK'
        BY <3>1 DEF vars, TypeOK, clockVars, mintVars, journalVars, sealVars, poolVars, tokenVars,
           historyVars
      <3>3. UNCHANGED ledgerVars
        BY <3>1 DEF vars, ledgerVars, poolVars, tokenVars, historyVars
      <3> QED BY <3>2, <3>3, LedgerUnchanged
    <2>2. CASE AppendRevision(e, r, p)
      BY <2>2, AppendRevisionInv
    <2> QED BY <1>1, <2>1, <2>2 DEF UpsertEvent
  <1>2. ASSUME NEW signer \in Principals,
               BeginFinalization(signer, journal.version, journal.hash)
        PROVE  Inv'
    <2>1. /\ phase = "open" /\ phase' = "sealing"
          /\ seal' = [journal_version |-> journal.version, journal_hash |-> journal.hash,
                      event_count |-> journal.event_count,
                      scale |-> ScaleTuple(mint, now), controls |-> mint.controls]
          /\ accumulator' = FreshAccumulator
          /\ state_version' = state_version + 1
          /\ UNCHANGED <<clockVars, asset, mintVars, nominal_backing, journalVars, poolVars,
                         tokenVars, historyVars>>
      BY <1>2 DEF BeginFinalization, BumpStateVersion
    <2>2. TypeOK'
      BY <2>1, ScaleTupleType DEF TypeOK, Phases, FreshAccumulator, clockVars, mintVars,
         journalVars, poolVars, tokenVars, historyVars
    <2>3. LedgerInv'
      BY <2>1 DEF LedgerInv, CustodyExact, Owed, SupplyExact, PoolsConsistent, poolVars,
         tokenVars, historyVars
    <2> QED BY <2>2, <2>3
  <1>3. ASSUME NEW signer \in Principals, AbortFinalization(signer) PROVE Inv'
    <2>1. TypeOK'
      BY <1>3 DEF AbortFinalization, BumpStateVersion, TypeOK, Phases, ScaleTuples, NoScale,
         Unsealed, FreshAccumulator, clockVars, mintVars, journalVars, poolVars, tokenVars,
         historyVars
    <2>2. LedgerInv'
      BY <1>3 DEF AbortFinalization, LedgerInv, CustodyExact, Owed, SupplyExact, PoolsConsistent,
         poolVars, tokenVars, historyVars
    <2> QED BY <2>1, <2>2
  <1> QED
    BY <1>1, <1>2, <1>3 DEF Attestation

\* Keepers fold events into the accumulator and split the backing once.
LEMMA KeepingInv == Inv /\ Keeping => Inv'
  <1> SUFFICES ASSUME Inv, Keeping PROVE Inv'
    OBVIOUS
  <1> USE SeriesAssumption DEF Inv
  <1>1. ASSUME NEW e \in Events, AccumulateEvent(e) PROVE Inv'
    <2>1. accumulator' \in [cursor: Nat, numerator: Nat, denominator: Nat]
      <3>1. PICK x \in RevisionAccount(e, heads[e].latest_revision) :
              LET n == accumulator.numerator
                  d == accumulator.denominator
                  product == MultiplyRatio(n, d, x.payload.m0_bits, x.payload.m1_bits)
              IN  IF heads[e].latest_in_year_qualified
                  THEN /\ MultipliesRatio(n, d, x.payload.m0_bits, x.payload.m1_bits)
                       /\ accumulator' = [cursor |-> accumulator.cursor + 1,
                                          numerator |-> product.numerator,
                                          denominator |-> product.denominator]
                  ELSE accumulator' = [accumulator EXCEPT !.cursor = @ + 1]
        BY <1>1 DEF AccumulateEvent
      <3> DEFINE product == MultiplyRatio(accumulator.numerator, accumulator.denominator,
                                          x.payload.m0_bits, x.payload.m1_bits)
      <3>2. CASE heads[e].latest_in_year_qualified
        <4>1. FitsBytes(product.numerator) /\ FitsBytes(product.denominator)
          BY <3>1, <3>2 DEF MultipliesRatio
        <4>2. product.numerator \in Nat /\ product.denominator \in Nat
          <5> HIDE DEF product
          <5> QED BY <4>1, MathAssumption DEF FitsBytes
        <4> QED BY <3>1, <3>2, <4>2 DEF TypeOK
      <3>3. CASE ~heads[e].latest_in_year_qualified
        BY <3>1, <3>3 DEF TypeOK
      <3> QED BY <3>2, <3>3
    <2>2. /\ state_version' = state_version + 1
          /\ UNCHANGED <<clockVars, asset, mintVars, phase, nominal_backing, journalVars, seal,
                         poolVars, tokenVars, historyVars>>
      BY <1>1 DEF AccumulateEvent, BumpStateVersion
    <2>3. TypeOK'
      BY <2>1, <2>2 DEF TypeOK, clockVars, mintVars, journalVars, poolVars, tokenVars, historyVars
    <2>4. UNCHANGED ledgerVars
      BY <2>2 DEF ledgerVars, poolVars, tokenVars, historyVars
    <2> QED BY <2>3, <2>4, LedgerUnchanged
  <1>2. ASSUME CompleteFinalization PROVE Inv'
    <2> DEFINE n == accumulator.numerator
               d == accumulator.denominator
    <2>1. /\ phase = "sealing" /\ phase' = "finalized"
          /\ SplitsPools(nominal_backing, n, d)
          /\ pool' = SplitPools(nominal_backing, n, d)
          /\ final_supply' = nominal_backing
          /\ mint_authority' = [s \in Sides |-> FALSE]
          /\ state_version' = state_version + 1
          /\ UNCHANGED <<clockVars, asset, mintVars, nominal_backing, journalVars, sealVars,
                         redeemed, paid, vault, collateral, claims, supply, historyVars>>
      BY <1>2 DEF CompleteFinalization, RevokeMintAuthority, BumpStateVersion
    <2>2. n \in Nat /\ d \in Nat /\ nominal_backing \in Nat
      BY DEF TypeOK
    <2>3. /\ pool' \in [Sides -> Nat] /\ pool'["dr"] \in 0..nominal_backing
          /\ pool'["pt"] = nominal_backing - pool'["dr"]
      BY <2>1, <2>2, SplitPoolsSum
    <2> HIDE DEF n, d
    <2>4. TypeOK'
      BY <2>1, <2>3 DEF TypeOK, Phases, clockVars, mintVars, journalVars, sealVars, historyVars
    <2>5. CustodyExact' /\ SupplyExact'
      BY <2>1 DEF LedgerInv, CustodyExact, Owed, SupplyExact, PoolsConsistent, TypeOK, Sides,
         historyVars
    <2>6. PoolsConsistent'
      <3>1. \A s \in Sides : redeemed'[s] = 0 /\ paid'[s] = 0 /\ pool'[s] \in Nat
        BY <2>1, <2>3 DEF LedgerInv, PoolsConsistent
      <3>2. final_supply' # 0 =>
              \A s \in Sides : CumulativeFloor(redeemed'[s], pool'[s], final_supply') = 0
        BY <2>1, <2>2, <3>1, SMT DEF CumulativeFloor
      <3> QED BY <2>1, <2>2, <2>3, <3>1, <3>2 DEF PoolsConsistent
    <2> QED BY <2>4, <2>5, <2>6 DEF LedgerInv
  <1> QED
    BY <1>1, <1>2 DEF Keeping

\* Time passes.
LEMMA AdvanceClockInv == Inv /\ AdvanceClock => Inv'
  <1> SUFFICES ASSUME Inv, AdvanceClock PROVE Inv'
    OBVIOUS
  <1>1. TypeOK'
    BY DEF Inv, AdvanceClock, TypeOK, mintVars, journalVars, sealVars, poolVars, tokenVars,
       historyVars
  <1>2. UNCHANGED ledgerVars
    BY DEF AdvanceClock, ledgerVars, poolVars, tokenVars, historyVars
  <1> QED BY <1>1, <1>2, LedgerUnchanged DEF Inv

\* The issuer rewrites its mint, freezes accounts, and takes from the vault,
\* which the history variable `seized` records.
LEMMA IssuerInv == Inv /\ Issuer => Inv'
  <1> SUFFICES ASSUME Inv, Issuer PROVE Inv'
    OBVIOUS
  <1> USE SeriesAssumption DEF Inv
  <1>1. ASSUME NEW s \in Scales, UpdateScale(s) PROVE Inv'
    <2>1. TypeOK'
      BY <1>1 DEF UpdateScale, TypeOK, clockVars, journalVars, sealVars, poolVars, tokenVars,
         historyVars
    <2>2. UNCHANGED ledgerVars
      BY <1>1 DEF UpdateScale, ledgerVars, poolVars, tokenVars, historyVars
    <2> QED BY <2>1, <2>2, LedgerUnchanged
  <1>2. ASSUME NEW c \in ControlSets, UpdateControls(c) PROVE Inv'
    <2>1. TypeOK'
      BY <1>2 DEF UpdateControls, TypeOK, clockVars, journalVars, sealVars, poolVars, tokenVars,
         historyVars
    <2>2. UNCHANGED ledgerVars
      BY <1>2 DEF UpdateControls, ledgerVars, poolVars, tokenVars, historyVars
    <2> QED BY <2>1, <2>2, LedgerUnchanged
  <1>3. ASSUME NEW b \in BOOLEAN, SetTransferable(b) PROVE Inv'
    <2>1. TypeOK'
      BY <1>3 DEF SetTransferable, TypeOK, clockVars, journalVars, sealVars, poolVars, tokenVars,
         historyVars
    <2>2. UNCHANGED ledgerVars
      BY <1>3 DEF SetTransferable, ledgerVars, poolVars, tokenVars, historyVars
    <2> QED BY <2>1, <2>2, LedgerUnchanged
  <1>4. ASSUME NEW accounts \in SUBSET (Holders \cup {Vault}), SetFrozen(accounts) PROVE Inv'
    <2>1. TypeOK'
      BY <1>4 DEF SetFrozen, TypeOK, clockVars, journalVars, sealVars, poolVars, tokenVars,
         historyVars
    <2>2. UNCHANGED ledgerVars
      BY <1>4 DEF SetFrozen, ledgerVars, poolVars, tokenVars, historyVars
    <2> QED BY <2>1, <2>2, LedgerUnchanged
  <1>5. ASSUME NEW amount \in Amounts, Seize(amount) PROVE Inv'
    <2>1. TypeOK'
      BY <1>5 DEF Seize, TypeOK, clockVars, mintVars, journalVars, sealVars, poolVars
    <2>2. LedgerInv'
      BY <1>5 DEF Seize, LedgerInv, CustodyExact, Owed, SupplyExact, PoolsConsistent, TypeOK,
         Sides, poolVars
    <2> QED BY <2>1, <2>2
  <1> QED
    BY <1>1, <1>2, <1>3, <1>4, <1>5 DEF Issuer

\* Holders use the token programs directly: donations and burns are recorded in
\* history variables, transfers move claims between holders.
LEMMA WalletsInv == Inv /\ Wallets => Inv'
  <1> SUFFICES ASSUME Inv, NEW h \in Holders, NEW amount \in Amounts,
                      \/ Donate(h, amount)
                      \/ \E side \in Sides :
                           \/ BurnClaim(h, side, amount)
                           \/ \E to \in Holders : TransferClaim(h, to, side, amount)
               PROVE  Inv'
    BY DEF Wallets
  <1> USE SeriesAssumption DEF Inv
  <1>1. ASSUME Donate(h, amount) PROVE Inv'
    <2>0. collateral[h] - amount \in Nat
      BY <1>1 DEF Donate, TypeOK
    <2>1. TypeOK'
      BY <1>1, <2>0 DEF Donate, TypeOK, clockVars, mintVars, journalVars, sealVars, poolVars
    <2>2. CustodyExact'
      <3>1. /\ vault' = vault + amount /\ donated' = donated + amount
            /\ UNCHANGED <<seized, phase, nominal_backing, final_supply, paid>>
        BY <1>1 DEF Donate, poolVars
      <3> QED BY <3>1 DEF LedgerInv, CustodyExact, Owed, TypeOK, Sides
    <2>3. SupplyExact' /\ PoolsConsistent'
      BY <1>1 DEF Donate, LedgerInv, SupplyExact, PoolsConsistent, poolVars
    <2> QED BY <2>1, <2>2, <2>3 DEF LedgerInv
  <1>2. ASSUME NEW side \in Sides, BurnClaim(h, side, amount) PROVE Inv'
    <2>0. claims[side][h] - amount \in Nat /\ supply[side] - amount \in Nat
      BY <1>2 DEF BurnClaim, TypeOK
    <2>1. TypeOK'
      BY <1>2, <2>0 DEF BurnClaim, TypeOK, clockVars, mintVars, journalVars, sealVars, poolVars
    <2>2. CustodyExact' /\ PoolsConsistent'
      BY <1>2 DEF BurnClaim, LedgerInv, CustodyExact, Owed, PoolsConsistent, poolVars
    <2>3. SupplyExact'
      BY <1>2 DEF BurnClaim, LedgerInv, SupplyExact, TypeOK, poolVars
    <2> QED BY <2>1, <2>2, <2>3 DEF LedgerInv
  <1>3. ASSUME NEW side \in Sides, NEW to \in Holders, TransferClaim(h, to, side, amount)
        PROVE  Inv'
    <2>0. claims[side][h] - amount \in Nat
      BY <1>3 DEF TransferClaim, TypeOK
    <2>1. claims' \in [Sides -> [Holders -> Nat]]
      <3> DEFINE moved == [claims[side] EXCEPT ![h] = @ - amount, ![to] = @ + amount]
      <3>1. claims' = [claims EXCEPT ![side] = moved]
        BY <1>3 DEF TransferClaim
      <3>2. moved \in [Holders -> Nat]
        <4>1. claims[side] \in [Holders -> Nat] /\ h # to /\ claims[side][to] + amount \in Nat
          BY <1>3 DEF TransferClaim, TypeOK
        <4>2. \A x \in Holders : moved[x] = IF x = to THEN claims[side][to] + amount
                                            ELSE IF x = h THEN claims[side][h] - amount
                                            ELSE claims[side][x]
          BY <4>1
        <4>3. \A x \in Holders : moved[x] \in Nat
          BY <2>0, <4>1, <4>2
        <4>4. moved = [x \in Holders |-> moved[x]]
          BY <4>1
        <4> HIDE DEF moved
        <4> QED BY <4>3, <4>4
      <3> HIDE DEF moved
      <3> QED BY <3>1, <3>2 DEF TypeOK
    <2>2. TypeOK'
      BY ZenonT(90), <1>3, <2>1 DEF TransferClaim, TypeOK, clockVars, mintVars, journalVars, sealVars,
         poolVars, historyVars
    <2>3. UNCHANGED ledgerVars
      BY <1>3 DEF TransferClaim, ledgerVars, poolVars, historyVars
    <2> QED BY <2>2, <2>3, LedgerUnchanged
  <1> QED
    BY <1>1, <1>2, <1>3

\* The invariant is inductive.
LEMMA NextInv == Inv /\ [Next]_vars => Inv'
  <1> SUFFICES ASSUME Inv, [Next]_vars PROVE Inv'
    OBVIOUS
  <1>1. CASE UNCHANGED vars
    <2>1. TypeOK'
      BY <1>1 DEF Inv, vars, TypeOK, clockVars, mintVars, journalVars, sealVars, poolVars,
         tokenVars, historyVars
    <2>2. UNCHANGED ledgerVars
      BY <1>1 DEF vars, ledgerVars, poolVars, tokenVars, historyVars
    <2> QED BY <2>1, <2>2, LedgerUnchanged DEF Inv
  <1> QED
    BY <1>1, AdministrationInv, CustodyInv, AttestationInv, KeepingInv, AdvanceClockInv,
       IssuerInv, WalletsInv DEF Next

-----------------------------------------------------------------------------
(* The theorems.                                                           *)

\* In every behaviour of the program, for any holders, journal and amounts, the
\* inductive invariant holds.
THEOREM Invariance == Spec => []Inv
  BY InitInv, NextInv, PTL DEF Spec

\* Amounts, counters and versions never leave the natural numbers: no checked_sub
\* the handlers perform after their guards can underflow.
THEOREM TypeCorrect == Spec => []TypeOK
  BY Invariance, PTL DEF Inv

\* The vault always holds what the series owes plus donations less seizures, for
\* any interleaving of the thirteen instructions with issuer and wallet actions.
THEOREM CustodyCorrect == Spec => []CustodyExact
  BY Invariance, PTL DEF Inv, LedgerInv

\* Claim supplies always equal the backing less redeemed and burned claims.
THEOREM SupplyCorrect == Spec => []SupplyExact
  BY Invariance, PTL DEF Inv, LedgerInv

\* After finalization the pools add up to the final supply, and what a side has
\* been paid is the cumulative floor of what it handed in.
THEOREM PoolsCorrect == Spec => []PoolsConsistent
  BY Invariance, PTL DEF Inv, LedgerInv

-----------------------------------------------------------------------------
(* What kinds of step there are.                                           *)

\* The accounts a series owns.
seriesVars == <<phase, nominal_backing, journalVars, sealVars, poolVars>>

\* Once the series exists, administration, time, the issuer and wallets change
\* none of its accounts and mint no claims.
LEMMA OutsideSteps ==
  ASSUME Inv, phase # "none", Administration \/ AdvanceClock \/ Issuer \/ Wallets
  PROVE  /\ UNCHANGED <<seriesVars, state_version, mint_authority>>
         /\ \A s \in Sides : supply'[s] <= supply[s]
  <1> USE DEF seriesVars, tokenVars
  <1>1. CASE Administration
    <2>1. UNCHANGED <<seriesVars, state_version, tokenVars>>
      BY <1>1 DEF Administration, InitializeConfig, RegisterAsset, SetAssetAdmission,
         RefreshObservation, CreateSeries
    <2> QED BY <2>1 DEF Inv, TypeOK
  <1>2. CASE AdvanceClock
    BY <1>2 DEF AdvanceClock, Inv, TypeOK
  <1>3. CASE Issuer
    <2>1. UNCHANGED <<seriesVars, state_version, mint_authority, supply>>
      BY <1>3 DEF Issuer, UpdateScale, UpdateControls, SetTransferable, SetFrozen, Seize
    <2> QED BY <2>1 DEF Inv, TypeOK
  <1>4. CASE Wallets
    <2>1. ASSUME NEW h \in Holders, NEW amount \in Amounts, Donate(h, amount)
          PROVE  UNCHANGED <<seriesVars, state_version, mint_authority, supply>>
      BY <2>1 DEF Donate
    <2>2. ASSUME NEW h \in Holders, NEW amount \in Amounts, NEW side \in Sides,
                 BurnClaim(h, side, amount)
          PROVE  /\ UNCHANGED <<seriesVars, state_version, mint_authority>>
                 /\ \A s \in Sides : supply'[s] <= supply[s]
      BY <2>2, SeriesAssumption DEF BurnClaim, Inv, TypeOK
    <2>3. ASSUME NEW h \in Holders, NEW amount \in Amounts, NEW side \in Sides,
                 NEW to \in Holders, TransferClaim(h, to, side, amount)
          PROVE  UNCHANGED <<seriesVars, state_version, mint_authority, supply>>
      BY <2>3 DEF TransferClaim
    <2> QED BY <1>4, <2>1, <2>2, <2>3 DEF Wallets, Inv, TypeOK
  <1> QED BY <1>1, <1>2, <1>3, <1>4

\* Which phases the groups of steps lead to.
LEMMA PhaseSteps ==
  /\ Administration => phase' \in {phase, "open"}
  /\ AdvanceClock \/ Issuer \/ Wallets => phase' = phase
  /\ Custody => phase' = phase
  /\ Attestation => phase' \in {phase, "open", "sealing"}
  <1>1. Administration => phase' \in {phase, "open"}
    BY DEF Administration, InitializeConfig, RegisterAsset, SetAssetAdmission,
       RefreshObservation, CreateSeries
  <1>2. AdvanceClock => phase' = phase
    BY DEF AdvanceClock
  <1>3. Issuer => phase' = phase
    BY DEF Issuer, UpdateScale, UpdateControls, SetTransferable, SetFrozen, Seize
  <1>4. Wallets => phase' = phase
    BY DEF Wallets, Donate, BurnClaim, TransferClaim
  <1>5. Custody => phase' = phase
    BY DEF Custody, Deposit, Recombine, Redeem
  <1>6. Attestation => phase' \in {phase, "open", "sealing"}
    BY DEF Attestation, UpsertEvent, ReplayRevision, AppendRevision, BeginFinalization,
       AbortFinalization, vars
  <1> QED BY <1>1, <1>2, <1>3, <1>4, <1>5, <1>6

\* Every instruction on the series bumps its version, or is a replay.
LEMMA SeriesSteps ==
  ASSUME Custody \/ Attestation \/ Keeping
  PROVE  state_version' = state_version + 1 \/ UNCHANGED vars
  <1>1. CASE Custody
    BY <1>1 DEF Custody, Deposit, Recombine, Redeem, BumpStateVersion
  <1>2. CASE Attestation
    BY <1>2 DEF Attestation, UpsertEvent, ReplayRevision, AppendRevision, BeginFinalization,
       AbortFinalization, BumpStateVersion
  <1>3. CASE Keeping
    BY <1>3 DEF Keeping, AccumulateEvent, CompleteFinalization, BumpStateVersion
  <1> QED BY <1>1, <1>2, <1>3

\* state_version guards quotes: while it stands still, no account of the series
\* has changed, whatever happened around it.
THEOREM VersionGuards == Spec => VersionCoversState
  <1> DEFINE A == phase # "none" /\ state_version' = state_version =>
                    UNCHANGED <<phase, nominal_backing, journalVars, sealVars, poolVars>>
  <1>1. Inv /\ [Next]_vars => [A]_vars
    <2> SUFFICES ASSUME Inv, Next, phase # "none", state_version' = state_version
                 PROVE  UNCHANGED <<phase, nominal_backing, journalVars, sealVars, poolVars>>
      OBVIOUS
    <2>1. CASE Custody \/ Attestation \/ Keeping
      BY <2>1, SeriesSteps DEF Inv, TypeOK, vars
    <2>2. CASE Administration \/ AdvanceClock \/ Issuer \/ Wallets
      BY <2>2, OutsideSteps DEF seriesVars
    <2> QED BY <2>1, <2>2 DEF Next
  <1> QED
    BY <1>1, Invariance, PTL DEF Spec, VersionCoversState

-----------------------------------------------------------------------------
(* The journal.  The recount needs two facts beside itself: that finitely  *)
(* many events are live, and that only live events have revisions, so that *)
(* a first revision is the highest of its event.                           *)

JournalInv ==
  /\ JournalExact
  /\ IsFiniteSet(LiveEvents)
  /\ \A x \in revisions : x.event \in LiveEvents /\ x.revision \in Nat

\* Only a revision writes the journal, of a valid input and before the seal.
LEMMA JournalSteps ==
  ASSUME [Next]_vars
  PROVE  \/ UNCHANGED journalVars
         \/ /\ phase = "open"
            /\ \E e \in Events, r \in 1..MaxRevision, p \in Payloads :
                 ValidEventInput(p, now) /\ AppendRevision(e, r, p)
  <1>1. CASE UNCHANGED vars
    BY <1>1 DEF vars
  <1>2. CASE Administration
    BY <1>2 DEF Administration, InitializeConfig, RegisterAsset, SetAssetAdmission,
       RefreshObservation, CreateSeries
  <1>3. CASE Custody
    BY <1>3 DEF Custody, Deposit, Recombine, Redeem
  <1>4. CASE Attestation
    <2>1. ASSUME NEW signer \in Principals, NEW e \in Events, NEW r \in 1..MaxRevision,
                 NEW p \in Payloads, UpsertEvent(signer, e, r, p)
          PROVE  \/ UNCHANGED journalVars
                 \/ phase = "open" /\ ValidEventInput(p, now) /\ AppendRevision(e, r, p)
      BY <2>1 DEF UpsertEvent, ReplayRevision, vars
    <2>2. ASSUME NEW signer \in Principals,
                 \/ BeginFinalization(signer, journal.version, journal.hash)
                 \/ AbortFinalization(signer)
          PROVE  UNCHANGED journalVars
      BY <2>2 DEF BeginFinalization, AbortFinalization
    <2> QED BY <1>4, <2>1, <2>2 DEF Attestation
  <1>5. CASE Keeping
    BY <1>5 DEF Keeping, AccumulateEvent, CompleteFinalization
  <1>6. CASE AdvanceClock
    BY <1>6 DEF AdvanceClock
  <1>7. CASE Issuer
    BY <1>7 DEF Issuer, UpdateScale, UpdateControls, SetTransferable, SetFrozen, Seize
  <1>8. CASE Wallets
    BY <1>8 DEF Wallets, Donate, BurnClaim, TransferClaim
  <1> QED BY <1>1, <1>2, <1>3, <1>4, <1>5, <1>6, <1>7, <1>8 DEF Next

\* A counter that is a recount of S is, reclassified, a recount of S with or
\* without e.
LEMMA Recounted ==
  ASSUME NEW S, IsFiniteSet(S), NEW T, NEW e, NEW is \in BOOLEAN,
         T = IF is THEN S \cup {e} ELSE S \ {e}
  PROVE  Cardinality(T) = Reclassified(Cardinality(S), e \in S, is)
  <1>1. Cardinality(S) \in Nat
    BY FS_CardinalityType
  <1>2. Cardinality(S \cup {e}) = IF e \in S THEN Cardinality(S) ELSE Cardinality(S) + 1
    BY FS_AddElement
  <1>3. Cardinality(S \ {e}) = IF e \in S THEN Cardinality(S) - 1 ELSE Cardinality(S)
    BY FS_RemoveElement
  <1>4. CASE is
    BY <1>1, <1>2, <1>4 DEF Reclassified
  <1>5. CASE ~is
    BY <1>1, <1>3, <1>5 DEF Reclassified
  <1> QED BY <1>4, <1>5

\* A revision moves the counters, the head and the hash chain together.
LEMMA JournalAppend ==
  ASSUME Inv, JournalInv, NEW e \in Events, NEW r \in 1..MaxRevision, NEW p \in Payloads,
         AppendRevision(e, r, p)
  PROVE  JournalInv'
  <1> DEFINE head == heads[e]
             record == RecordHash(e, r, p, IF head.live THEN head.latest_record_hash
                                           ELSE GenesisHash)
             Open == {x \in LiveEvents : ~heads[x].latest_resolved}
             In == {x \in LiveEvents : heads[x].latest_in_year_qualified}
             new == [event |-> e, revision |-> r, payload |-> p, record_hash |-> record]
  <1>1. /\ DOMAIN heads = Events /\ r \in Nat
        /\ \A x \in Events : /\ heads[x].live \in BOOLEAN /\ heads[x].latest_resolved \in BOOLEAN
                            /\ heads[x].latest_in_year_qualified \in BOOLEAN
                            /\ heads[x].latest_revision \in Nat /\ heads[x].index \in Nat
        /\ journal.event_count \in Nat
    BY DEF Inv, TypeOK
  <1>2. Resolved(p) \in BOOLEAN /\ InYearQualified(p) \in BOOLEAN
    BY DEF Resolved, InYearQualified
  <1>3. /\ IF head.live THEN r > head.latest_revision ELSE journal.event_count < MaxEvents
        /\ revisions' = revisions \cup {new}
    BY DEF AppendRevision
  <1>4. heads' = [heads EXCEPT ![e] =
           [live |-> TRUE, index |-> EventIndex(head), latest_revision |-> r,
            latest_record_hash |-> record, latest_resolved |-> Resolved(p),
            latest_in_year_qualified |-> InYearQualified(p)]]
    BY DEF AppendRevision
  <1>5. /\ journal'.event_count = IF head.live THEN journal.event_count
                                               ELSE journal.event_count + 1
        /\ journal'.unresolved_count =
             Reclassified(journal.unresolved_count, head.live /\ ~head.latest_resolved,
                          ~Resolved(p))
        /\ journal'.in_year_qualified_count =
             Reclassified(journal.in_year_qualified_count,
                          head.live /\ head.latest_in_year_qualified, InYearQualified(p))
    BY DEF AppendRevision
  <1> HIDE DEF record
  <1>6. /\ heads'[e].live /\ heads'[e].index = EventIndex(head)
        /\ heads'[e].latest_revision = r /\ heads'[e].latest_record_hash = record
        /\ heads'[e].latest_resolved = Resolved(p)
        /\ heads'[e].latest_in_year_qualified = InYearQualified(p)
    BY <1>1, <1>4
  <1>7. \A x \in Events \ {e} : heads'[x] = heads[x]
    BY <1>1, <1>4
  <1>8. LiveEvents' = LiveEvents \cup {e} /\ (e \in LiveEvents <=> head.live)
    BY <1>1, <1>6, <1>7 DEF LiveEvents
  <1>9. IsFiniteSet(LiveEvents) /\ IsFiniteSet(Open) /\ IsFiniteSet(In)
    <2>1. Open \in SUBSET LiveEvents /\ In \in SUBSET LiveEvents
      OBVIOUS
    <2> HIDE DEF Open, In
    <2> QED BY <2>1, FS_Subset DEF JournalInv
  <1>10. IsFiniteSet(LiveEvents')
    BY <1>8, <1>9, FS_AddElement
  <1>11. /\ LiveEvents \subseteq Events
         /\ \A x \in revisions : x.event \in LiveEvents /\ x.revision \in Nat
    BY DEF JournalInv, LiveEvents
  <1>12. \A x \in revisions' : x.event \in LiveEvents' /\ x.revision \in Nat
    BY <1>1, <1>3, <1>8, <1>11
  <1>13. CountersMatchHeads'
    <2>1. /\ journal.event_count = Cardinality(LiveEvents)
          /\ journal.unresolved_count = Cardinality(Open)
          /\ journal.in_year_qualified_count = Cardinality(In)
      BY DEF JournalInv, JournalExact, CountersMatchHeads
    <2>2. journal'.event_count = Cardinality(LiveEvents')
      <3>1. Cardinality(LiveEvents \cup {e}) = IF e \in LiveEvents THEN Cardinality(LiveEvents)
                                               ELSE Cardinality(LiveEvents) + 1
        BY <1>9, FS_AddElement
      <3>2. Cardinality(LiveEvents') = Cardinality(LiveEvents \cup {e})
        BY <1>8
      <3> QED BY <1>5, <1>8, <2>1, <3>1, <3>2
    <2> DEFINE Open1 == {x \in LiveEvents' : ~heads'[x].latest_resolved}
               In1 == {x \in LiveEvents' : heads'[x].latest_in_year_qualified}
    <2>3. Open1 = IF ~Resolved(p) THEN Open \cup {e} ELSE Open \ {e}
      BY <1>2, <1>6, <1>7, <1>8, <1>11
    <2>4. In1 = IF InYearQualified(p) THEN In \cup {e} ELSE In \ {e}
      BY <1>2, <1>6, <1>7, <1>8, <1>11
    <2>5. /\ (e \in Open) = (head.live /\ ~head.latest_resolved)
          /\ (e \in In) = (head.live /\ head.latest_in_year_qualified)
      BY <1>1, <1>8
    <2>6. journal'.unresolved_count = Cardinality(Open1)
      <3> DEFINE is == ~Resolved(p)
      <3>1. is \in BOOLEAN /\ Open1 = IF is THEN Open \cup {e} ELSE Open \ {e}
        BY <2>3
      <3> HIDE DEF Open, Open1, is
      <3>2. Cardinality(Open1) = Reclassified(Cardinality(Open), e \in Open, is)
        BY <1>9, <3>1, Recounted
      <3>3. journal'.unresolved_count = Reclassified(journal.unresolved_count, e \in Open, is)
        BY <1>5, <2>5 DEF is
      <3> QED BY <2>1, <3>2, <3>3
    <2>7. journal'.in_year_qualified_count = Cardinality(In1)
      <3> DEFINE is == InYearQualified(p)
      <3>1. is \in BOOLEAN /\ In1 = IF is THEN In \cup {e} ELSE In \ {e}
        BY <1>2, <2>4
      <3> HIDE DEF In, In1, is
      <3>2. Cardinality(In1) = Reclassified(Cardinality(In), e \in In, is)
        BY <1>9, <3>1, Recounted
      <3>3. journal'.in_year_qualified_count
              = Reclassified(journal.in_year_qualified_count, e \in In, is)
        BY <1>5, <2>5 DEF is
      <3> QED BY <2>1, <3>2, <3>3
    <2> QED BY <2>2, <2>6, <2>7 DEF CountersMatchHeads
  <1>14. HeadsMatchRevisions'
    <2>1. HeadsMatchRevisions
      BY DEF JournalInv, JournalExact
    <2>2. ASSUME NEW f \in LiveEvents', NEW x \in revisions', x.event = f
          PROVE  x.revision <= heads'[f].latest_revision
      <3>1. CASE f = e
        <4>1. CASE x \in revisions
          <5>1. head.live /\ x.revision <= head.latest_revision
            BY <1>8, <1>11, <2>1, <2>2, <3>1, <4>1 DEF HeadsMatchRevisions
          <5> QED BY <1>1, <1>3, <1>6, <1>11, <3>1, <4>1, <5>1
        <4>2. CASE x = new
          BY <1>1, <1>6, <3>1, <4>2
        <4> QED BY <1>3, <4>1, <4>2
      <3>2. CASE f # e
        <4>1. x \in revisions /\ f \in LiveEvents
          BY <1>3, <1>8, <2>2, <3>2
        <4> QED BY <1>7, <1>11, <2>1, <2>2, <3>2, <4>1 DEF HeadsMatchRevisions
      <3> QED BY <3>1, <3>2
    <2>3. ASSUME NEW f \in LiveEvents'
          PROVE  \E x \in revisions' :
                   /\ x.event = f /\ x.revision = heads'[f].latest_revision
                   /\ x.record_hash = heads'[f].latest_record_hash
                   /\ heads'[f].latest_resolved = Resolved(x.payload)
                   /\ heads'[f].latest_in_year_qualified = InYearQualified(x.payload)
      <3>1. CASE f = e
        <4>1. /\ new \in revisions' /\ new.event = e /\ new.revision = r
              /\ new.payload = p /\ new.record_hash = record
          BY <1>3
        <4> HIDE DEF new
        <4> QED BY <1>6, <3>1, <4>1
      <3>2. CASE f # e
        <4>1. f \in LiveEvents /\ heads'[f] = heads[f]
          BY <1>7, <1>8, <1>11, <2>3, <3>2
        <4>2. PICK x \in RevisionAccount(f, heads[f].latest_revision) :
                /\ x.record_hash = heads[f].latest_record_hash
                /\ heads[f].latest_resolved = Resolved(x.payload)
                /\ heads[f].latest_in_year_qualified = InYearQualified(x.payload)
          BY <2>1, <4>1 DEF HeadsMatchRevisions
        <4>3. x \in revisions' /\ x.event = f /\ x.revision = heads[f].latest_revision
          BY <1>3, <4>2 DEF RevisionAccount
        <4> QED BY <4>1, <4>2, <4>3
      <3> QED BY <3>1, <3>2
    <2>4. {heads'[f].index : f \in LiveEvents'} = 0..(journal'.event_count - 1)
      <3>1. {heads[f].index : f \in LiveEvents} = 0..(journal.event_count - 1)
        BY <2>1 DEF HeadsMatchRevisions
      <3>2. CASE head.live
        <4>1. \A f \in LiveEvents : heads'[f].index = heads[f].index
          BY <1>6, <1>7, <1>11, <3>2 DEF EventIndex
        <4>2. LiveEvents' = LiveEvents /\ journal'.event_count = journal.event_count
          BY <1>5, <1>8, <3>2
        <4> QED BY <3>1, <4>1, <4>2
      <3>3. CASE ~head.live
        <4>1. /\ \A f \in LiveEvents : heads'[f].index = heads[f].index
              /\ heads'[e].index = journal.event_count
              /\ journal'.event_count = journal.event_count + 1
          BY <1>5, <1>6, <1>7, <1>8, <1>11, <3>3 DEF EventIndex
        <4>2. {heads'[f].index : f \in LiveEvents'}
              = {heads[f].index : f \in LiveEvents} \cup {journal.event_count}
          BY <1>8, <4>1
        <4>3. (0..(journal.event_count - 1)) \cup {journal.event_count}
              = 0..(journal.event_count + 1 - 1)
          BY <1>1
        <4> QED BY <3>1, <4>1, <4>2, <4>3
      <3> QED BY <1>1, <3>2, <3>3
    <2> QED BY <2>2, <2>3, <2>4 DEF HeadsMatchRevisions, RevisionAccount
  <1> QED BY <1>10, <1>12, <1>13, <1>14 DEF JournalInv, JournalExact

LEMMA JournalInvariance == Spec => []JournalInv
  <1>1. Init => JournalInv
    <2> SUFFICES ASSUME Init PROVE JournalInv
      OBVIOUS
    <2>1. LiveEvents = {} /\ revisions = {} /\ journal.event_count = 0
          /\ journal.unresolved_count = 0 /\ journal.in_year_qualified_count = 0
      BY DEF Init, LiveEvents, NoHead
    <2>2. IsFiniteSet({}) /\ Cardinality({}) = 0
      BY FS_EmptySet
    <2>3. CountersMatchHeads
      <3>1. /\ {e \in LiveEvents : ~heads[e].latest_resolved} = {}
            /\ {e \in LiveEvents : heads[e].latest_in_year_qualified} = {}
        BY <2>1
      <3> QED BY <2>1, <2>2, <3>1 DEF CountersMatchHeads
    <2>4. HeadsMatchRevisions
      BY <2>1 DEF HeadsMatchRevisions
    <2> QED BY <2>1, <2>2, <2>3, <2>4 DEF JournalInv, JournalExact
  <1>2. Inv /\ JournalInv /\ [Next]_vars => JournalInv'
    <2> SUFFICES ASSUME Inv, JournalInv, [Next]_vars PROVE JournalInv'
      OBVIOUS
    <2>1. CASE UNCHANGED journalVars
      BY ZenonT(90), <2>1 DEF journalVars, JournalInv, JournalExact, CountersMatchHeads,
         HeadsMatchRevisions, LiveEvents, RevisionAccount
    <2> QED BY <2>1, JournalSteps, JournalAppend
  <1> QED BY <1>1, <1>2, Invariance, PTL DEF Spec

\* upsert_event keeps the counters that deposits and seals trust equal to a recount
\* of the newest revisions, through any sequence of classes and replays.
THEOREM JournalCorrect == Spec => []JournalExact
  <1>1. JournalInv => JournalExact
    BY DEF JournalInv
  <1> QED BY <1>1, JournalInvariance, PTL

-----------------------------------------------------------------------------
(* The seal.                                                               *)

\* One step keeps the seal on the journal it was put on.
LEMMA SealStep == Inv /\ SealPinsJournal /\ [Next]_vars => SealPinsJournal'
  <1> SUFFICES ASSUME Inv, SealPinsJournal, [Next]_vars PROVE SealPinsJournal'
    OBVIOUS
  <1> USE DEF SealPinsJournal
  <1>1. CASE UNCHANGED vars
    BY <1>1 DEF vars, journalVars, sealVars
  <1>2. CASE Custody
    <2>1. UNCHANGED <<phase, journal, seal>>
      BY <1>2 DEF Custody, Deposit, Recombine, Redeem, journalVars, sealVars
    <2> QED BY <2>1
  <1>3. CASE Attestation
    <2>1. ASSUME NEW signer \in Principals, NEW e \in Events, NEW r \in 1..MaxRevision,
                 NEW p \in Payloads, UpsertEvent(signer, e, r, p)
          PROVE  SealPinsJournal'
      <3>1. phase = "open" /\ phase' = "open"
        BY <2>1 DEF UpsertEvent, ReplayRevision, AppendRevision, vars
      <3> QED BY <3>1
    <2>2. ASSUME NEW signer \in Principals,
                 BeginFinalization(signer, journal.version, journal.hash)
          PROVE  SealPinsJournal'
      BY <2>2 DEF BeginFinalization, journalVars
    <2>3. ASSUME NEW signer \in Principals, AbortFinalization(signer)
          PROVE  SealPinsJournal'
      BY <2>3 DEF AbortFinalization
    <2> QED BY <1>3, <2>1, <2>2, <2>3 DEF Attestation
  <1>4. CASE Keeping
    <2>1. phase = "sealing" /\ UNCHANGED <<journal, seal>>
      BY <1>4 DEF Keeping, AccumulateEvent, CompleteFinalization, journalVars, sealVars
    <2> QED BY <2>1
  <1>5. CASE phase # "none" /\ (Administration \/ AdvanceClock \/ Issuer \/ Wallets)
    BY <1>5, OutsideSteps DEF seriesVars, journalVars, sealVars
  <1>6. CASE phase = "none" /\ (Administration \/ AdvanceClock \/ Issuer \/ Wallets)
    <2>1. ASSUME Administration PROVE phase' \in {phase, "open"}
      BY <2>1, PhaseSteps
    <2>2. ASSUME AdvanceClock \/ Issuer \/ Wallets PROVE phase' = phase
      BY <2>2, PhaseSteps
    <2> QED BY <1>6, <2>1, <2>2
  <1> QED
    BY <1>1, <1>2, <1>3, <1>4, <1>5, <1>6 DEF Next

\* begin_finalization fixes the journal: from then on no revision is written that
\* the accumulation could miss, until an abort reopens the series.
THEOREM SealCorrect == Spec => []SealPinsJournal
  <1>1. Init => SealPinsJournal
    BY DEF Init, SealPinsJournal
  <1> QED
    BY <1>1, SealStep, Invariance, PTL DEF Spec

-----------------------------------------------------------------------------
(* The split.  The accumulator is a product over the places of the journal *)
(* because each place is one event's, each event has one newest revision,  *)
(* and only inputs whose multipliers decode are written.                   *)

\* A decodable pattern stands for a positive number.
LEMMA FactorTypes ==
  ASSUME NEW bits \in Nat, DecodesMultiplier(bits)
  PROVE  /\ DecodeMultiplier(bits).significand \in Nat \ {0}
         /\ DecodeMultiplier(bits).exponent \in Int
         /\ DecodeMultiplier(bits).exponent + FractionBits + Span \in Nat
         /\ FactorValue(bits) \in Nat \ {0}
  <1> DEFINE U == FractionUnit
             q == bits \div U
             s == DecodeMultiplier(bits).significand
             k == DecodeMultiplier(bits).exponent + FractionBits + Span
  <1>1. U \in Nat /\ U > 0
    BY Pow2Values, MathAssumption DEF FractionUnit
  <1> HIDE DEF U
  <1>2. bits >= (Bias - Span) * U
    BY DEF DecodesMultiplier, MinNormalBits, U
  <1>3. q \in Nat /\ bits < U * q + U /\ bits % U \in Nat
    BY <1>1, DivisionBounds
  <1>4. DecodeMultiplier(bits) = [significand |-> U + (bits % U), exponent |-> q - Bias - FractionBits]
    BY DEF DecodeMultiplier, U
  <1> HIDE DEF q
  <1>5. q >= Bias - Span
    <2>1. U * q + U = U * (q + 1) /\ Bias - Span \in Nat
      BY <1>1, <1>3, MathAssumption
    <2>2. SUFFICES ASSUME q + 1 <= Bias - Span PROVE FALSE
      BY <1>3, <2>1
    <2>3. U * (q + 1) <= U * (Bias - Span)
      BY <1>1, <1>3, <2>1, <2>2
    <2>4. U * (Bias - Span) = (Bias - Span) * U
      BY <1>1, <2>1
    <2> QED BY <1>1, <1>2, <1>3, <2>1, <2>3, <2>4
  <1>6. s \in Nat /\ s > 0 /\ k \in Nat /\ DecodeMultiplier(bits).exponent \in Int
    BY <1>1, <1>3, <1>4, <1>5, MathAssumption
  <1>7. Pow2[k] \in Nat /\ Pow2[k] > 0
    BY <1>6, Pow2Values
  <1>8. FactorValue(bits) = s * Pow2[k]
    BY DEF FactorValue
  <1> HIDE DEF s, k
  <1>9. s * Pow2[k] \in Nat /\ s * Pow2[k] > 0
    BY <1>6, <1>7
  <1> QED BY <1>6, <1>8, <1>9 DEF s, k

\* Both sides of an equation of products, each with two more factors.
LEMMA CrossProducts ==
  ASSUME NEW n \in Nat, NEW d \in Nat, NEW a \in Nat, NEW b \in Nat, n * a = d * b,
         NEW s \in Nat, NEW t \in Nat, NEW x \in Nat, NEW y \in Nat
  PROVE  (n * s * x) * (a * (t * y)) = (d * t) * (b * (s * (x * y)))
  <1>1. (n * s * x) * (a * (t * y)) = (n * a) * (s * x * t * y)
    OBVIOUS
  <1>2. (d * t) * (b * (s * (x * y))) = (d * b) * (s * x * t * y)
    OBVIOUS
  <1> QED BY <1>1, <1>2

\* multiply_ratio multiplies by the two numbers, exactly.
LEMMA RatioStep ==
  ASSUME NEW n \in Nat, NEW d \in Nat, NEW a \in Nat, NEW b \in Nat, n * a = d * b,
         NEW m0 \in Nat, NEW m1 \in Nat, QualifiedFactor(m0, m1)
  PROVE  MultiplyRatio(n, d, m0, m1).numerator * (a * FactorValue(m1))
           = MultiplyRatio(n, d, m0, m1).denominator * (b * FactorValue(m0))
  <1> DEFINE s == DecodeMultiplier(m0).significand
             t == DecodeMultiplier(m1).significand
             i == DecodeMultiplier(m0).exponent + FractionBits + Span
             j == DecodeMultiplier(m1).exponent + FractionBits + Span
             shift == DecodeMultiplier(m0).exponent - DecodeMultiplier(m1).exponent
  <1>1. /\ s \in Nat /\ t \in Nat /\ i \in Nat /\ j \in Nat
        /\ DecodeMultiplier(m0).exponent \in Int /\ DecodeMultiplier(m1).exponent \in Int
    BY FactorTypes DEF QualifiedFactor
  <1>2. shift \in Int /\ shift = i - j
    BY <1>1, MathAssumption
  <1>3. /\ MultiplyRatio(n, d, m0, m1).numerator = n * s * (IF shift >= 0 THEN Pow2[shift] ELSE 1)
        /\ MultiplyRatio(n, d, m0, m1).denominator = d * t * (IF shift < 0 THEN Pow2[-shift] ELSE 1)
    BY DEF MultiplyRatio
  <1>4. FactorValue(m0) = s * Pow2[i] /\ FactorValue(m1) = t * Pow2[j]
    BY DEF FactorValue
  <1> HIDE DEF s, t, i, j, shift
  <1>5. Pow2[i] \in Nat /\ Pow2[j] \in Nat
    BY <1>1, Pow2Values
  <1>6. CASE shift >= 0
    <2>1. shift \in Nat /\ i = shift + j
      BY <1>1, <1>2, <1>6
    <2>2. Pow2[shift] \in Nat /\ Pow2[i] = Pow2[shift] * Pow2[j]
      BY <1>1, <2>1, Pow2Values, Pow2Adds
    <2>3. (n * s * Pow2[shift]) * (a * (t * Pow2[j])) = (d * t) * (b * (s * (Pow2[shift] * Pow2[j])))
      <3> DEFINE x == Pow2[shift]
                 y == Pow2[j]
      <3>1. x \in Nat /\ y \in Nat
        BY <1>5, <2>2
      <3> HIDE DEF x, y
      <3>2. (n * s * x) * (a * (t * y)) = (d * t) * (b * (s * (x * y)))
        BY <1>1, <3>1, CrossProducts
      <3> QED BY <3>2 DEF x, y
    <2>4. d * t * 1 = d * t
      BY <1>1
    <2>5. /\ MultiplyRatio(n, d, m0, m1).numerator = n * s * Pow2[shift]
          /\ MultiplyRatio(n, d, m0, m1).denominator = d * t
      BY <1>2, <1>3, <1>6, <2>4
    <2> QED BY <1>4, <2>2, <2>3, <2>5
  <1>7. CASE shift < 0
    <2>1. -shift \in Nat /\ j = (-shift) + i
      BY <1>1, <1>2, <1>7
    <2>2. Pow2[-shift] \in Nat /\ Pow2[j] = Pow2[-shift] * Pow2[i]
      BY <1>1, <2>1, Pow2Values, Pow2Adds
    <2>3. (d * t * Pow2[-shift]) * (b * (s * Pow2[i])) = (n * s) * (a * (t * (Pow2[-shift] * Pow2[i])))
      <3> DEFINE x == Pow2[-shift]
                 y == Pow2[i]
      <3>1. x \in Nat /\ y \in Nat /\ d * b = n * a
        BY <1>5, <2>2
      <3> HIDE DEF x, y
      <3>2. (d * t * x) * (b * (s * y)) = (n * s) * (a * (t * (x * y)))
        BY <1>1, <3>1, CrossProducts
      <3> QED BY <3>2 DEF x, y
    <2>4. n * s * 1 = n * s
      BY <1>1
    <2>5. /\ MultiplyRatio(n, d, m0, m1).numerator = n * s
          /\ MultiplyRatio(n, d, m0, m1).denominator = d * t * Pow2[-shift]
      BY <1>2, <1>3, <1>7, <2>4
    <2> QED BY <1>4, <2>2, <2>3, <2>5
  <1> QED BY <1>2, <1>6, <1>7

\* The quotient is the only number between the two bounds.
LEMMA DivisionUnique ==
  ASSUME NEW a \in Nat, NEW b \in Nat, b > 0, NEW q \in Nat, b * q <= a, a < b * q + b
  PROVE  a \div b = q
  <1> DEFINE r == a \div b
  <1>1. r \in Nat /\ b * r <= a /\ a < b * r + b
    BY DivisionBounds
  <1> HIDE DEF r
  <1>2. CASE r < q
    <2>1. b * (r + 1) <= b * q
      BY <1>1, <1>2
    <2> QED BY <1>1, <2>1
  <1>3. CASE r > q
    <2>1. b * (q + 1) <= b * r
      BY <1>1, <1>3
    <2> QED BY <1>1, <2>1
  <1> QED BY <1>1, <1>2, <1>3 DEF r

\* A common factor can be taken out of an inequality.
LEMMA Cancel ==
  ASSUME NEW d \in Nat, d > 0, NEW a \in Int, NEW b \in Int
  PROVE  /\ d * a <= d * b => a <= b
         /\ d * a < d * b => a < b
  <1>1. ASSUME a > b PROVE d * a > d * b
    BY <1>1
  <1>2. ASSUME a >= b PROVE d * a >= d * b
    BY <1>2
  <1> QED BY <1>1, <1>2

\* The split depends on the ratio alone, not on the fraction that stands for it.
LEMMA EqualFloors ==
  ASSUME NEW Q \in Nat, NEW n \in Nat, NEW d \in Nat, d > 0, n <= d,
         NEW a \in Nat, a > 0, NEW b \in Nat, n * a = d * b
  PROVE  (Q * (d - n)) \div d = (Q * (a - b)) \div a
  <1> DEFINE q == (Q * (d - n)) \div d
             x == Q * (d - n)
             y == Q * (a - b)
  <1>1. d - n \in Nat /\ a - b \in Nat
    <2>1. d * b <= d * a
      <3>1. n * a <= d * a
        OBVIOUS
      <3> QED BY <3>1
    <2>2. b <= a
      BY <2>1, Cancel
    <2> QED BY <2>2
  <1>2. x \in Nat /\ y \in Nat
    BY <1>1
  <1>3. a * x = d * y
    <2>1. a * (Q * (d - n)) = Q * (d * a - n * a)
      OBVIOUS
    <2>2. d * (Q * (a - b)) = Q * (d * a - d * b)
      OBVIOUS
    <2> QED BY <2>1, <2>2
  <1> HIDE DEF x, y
  <1>4. q \in Nat /\ d * q <= x /\ x < d * q + d
    BY <1>2, DivisionBounds DEF x
  <1> HIDE DEF q
  <1>5. a * q <= y
    <2>1. a * (d * q) <= a * x
      BY <1>2, <1>4
    <2>2. a * (d * q) = d * (a * q)
      BY <1>4
    <2> QED BY <1>2, <1>3, <1>4, <2>1, <2>2, Cancel
  <1>6. y < a * q + a
    <2>1. a * x < a * (d * q + d)
      BY <1>2, <1>4
    <2>2. a * (d * q + d) = d * (a * q + a)
      BY <1>4
    <2> QED BY <1>2, <1>3, <1>4, <2>1, <2>2, Cancel
  <1>7. y \div a = q
    BY <1>2, <1>4, <1>5, <1>6, DivisionUnique
  <1> QED BY <1>7 DEF q, x, y

\* Places and revisions are nobody else's, and what was written can be decoded.
JournalOrder ==
  /\ \A e, f \in LiveEvents : heads[e].index = heads[f].index => e = f
  /\ \A x, y \in revisions : x.event = y.event /\ x.revision = y.revision => x = y
  /\ \A x \in revisions :
       /\ x.payload.m0_bits \in Nat /\ x.payload.m1_bits \in Nat
       /\ x.payload.status = "qualified" => QualifiedFactor(x.payload.m0_bits, x.payload.m1_bits)

\* One step keeps the order: a new event takes the first free place, and a
\* revision is written where none was.
LEMMA JournalOrderStep == Inv /\ JournalInv /\ JournalOrder /\ [Next]_vars => JournalOrder'
  <1> SUFFICES ASSUME Inv, JournalInv, JournalOrder, [Next]_vars PROVE JournalOrder'
    OBVIOUS
  <1>1. CASE UNCHANGED journalVars
    BY <1>1 DEF journalVars, JournalOrder, LiveEvents
  <1>2. ASSUME NEW e \in Events, NEW r \in 1..MaxRevision, NEW p \in Payloads,
               ValidEventInput(p, now), AppendRevision(e, r, p)
        PROVE  JournalOrder'
    <2> DEFINE record == RecordHash(e, r, p, IF heads[e].live THEN heads[e].latest_record_hash
                                             ELSE GenesisHash)
               new == [event |-> e, revision |-> r, payload |-> p, record_hash |-> record]
    <2>1. /\ DOMAIN heads = Events /\ journal.event_count \in Nat
          /\ \A f \in Events : heads[f].live \in BOOLEAN
      BY DEF Inv, TypeOK
    <2>2. /\ revisions' = revisions \cup {new}
          /\ RevisionAccount(e, r) = {}
          /\ heads'[e].live /\ heads'[e].index = EventIndex(heads[e])
          /\ \A f \in Events \ {e} : heads'[f] = heads[f]
      BY <1>2, <2>1 DEF AppendRevision
    <2> HIDE DEF record
    <2>3. new.event = e /\ new.revision = r /\ new.payload = p
      OBVIOUS
    <2> HIDE DEF new
    <2>4. LiveEvents' = LiveEvents \cup {e} /\ LiveEvents \subseteq Events
      BY <2>2 DEF LiveEvents
    <2>5. \A f \in LiveEvents : heads[f].index \in 0..(journal.event_count - 1)
      BY DEF JournalInv, JournalExact, HeadsMatchRevisions
    <2>6. \A f \in LiveEvents \ {e} : heads'[f] = heads[f] /\ heads[f].index # EventIndex(heads[e])
      <3>1. CASE heads[e].live
        BY <2>2, <2>4, <3>1 DEF EventIndex, JournalOrder, LiveEvents
      <3>2. CASE ~heads[e].live
        BY <2>1, <2>2, <2>4, <2>5, <3>2 DEF EventIndex
      <3> QED BY <2>1, <3>1, <3>2
    <2>7. \A f, g \in LiveEvents' : heads'[f].index = heads'[g].index => f = g
      BY <2>2, <2>4, <2>6 DEF JournalOrder
    <2>8. \A x, y \in revisions' : x.event = y.event /\ x.revision = y.revision => x = y
      <3>1. \A x \in revisions : ~(x.event = e /\ x.revision = r)
        BY <2>2 DEF RevisionAccount
      <3> QED BY <2>2, <2>3, <3>1 DEF JournalOrder
    <2>9. /\ p.m0_bits \in Nat /\ p.m1_bits \in Nat
          /\ p.status = "qualified" => QualifiedFactor(p.m0_bits, p.m1_bits)
      BY <1>2, PayloadAssumption DEF ValidEventInput
    <2>10. \A x \in revisions' :
             /\ x.payload.m0_bits \in Nat /\ x.payload.m1_bits \in Nat
             /\ x.payload.status = "qualified"
                  => QualifiedFactor(x.payload.m0_bits, x.payload.m1_bits)
      BY <2>2, <2>3, <2>9 DEF JournalOrder
    <2> QED BY <2>7, <2>8, <2>10 DEF JournalOrder
  <1> QED BY <1>1, <1>2, JournalSteps

\* An event's place in the journal leads back to its newest payload.
LEMMA PayloadFound ==
  ASSUME Inv, JournalInv, JournalOrder, NEW e \in LiveEvents
  PROVE  \E x \in RevisionAccount(e, heads[e].latest_revision) :
           /\ PayloadAt(heads, revisions, heads[e].index) = x.payload
           /\ heads[e].latest_in_year_qualified = InYearQualified(x.payload)
           /\ \A y \in RevisionAccount(e, heads[e].latest_revision) : y = x
  <1> DEFINE f == CHOOSE f \in Events : heads[f].live /\ heads[f].index = heads[e].index
  <1>1. f = e
    <2>1. f \in Events /\ heads[f].live /\ heads[f].index = heads[e].index
      BY DEF LiveEvents
    <2> HIDE DEF f
    <2> QED BY <2>1 DEF JournalOrder, LiveEvents
  <1> HIDE DEF f
  <1>2. PICK x \in RevisionAccount(e, heads[e].latest_revision) :
          heads[e].latest_in_year_qualified = InYearQualified(x.payload)
    BY DEF JournalInv, JournalExact, HeadsMatchRevisions
  <1> DEFINE z == CHOOSE z \in revisions : z.event = f /\ z.revision = heads[f].latest_revision
  <1>3. \A y \in RevisionAccount(e, heads[e].latest_revision) : y = x
    BY <1>2 DEF RevisionAccount, JournalOrder
  <1>4. z = x
    <2>1. x \in revisions /\ x.event = f /\ x.revision = heads[f].latest_revision
      BY <1>1, <1>2 DEF RevisionAccount
    <2>2. z \in revisions /\ z.event = f /\ z.revision = heads[f].latest_revision
      BY <2>1
    <2> HIDE DEF z
    <2> QED BY <2>1, <2>2 DEF JournalOrder
  <1>5. PayloadAt(heads, revisions, heads[e].index) = z.payload
    BY DEF PayloadAt, f
  <1> HIDE DEF z
  <1> QED BY <1>2, <1>3, <1>4, <1>5

\* What an event counts for is a positive number.
LEMMA FactorsType ==
  ASSUME Inv, JournalInv, JournalOrder, NEW field \in {"m0_bits", "m1_bits"}
  PROVE  Factors(journal.event_count, heads, revisions, field) \in [Nat -> Nat \ {0}]
  <1> DEFINE at(i) == PayloadAt(heads, revisions, i)
  <1>1. ASSUME NEW i \in Nat, i < journal.event_count, InYearQualified(at(i))
        PROVE  FactorValue(at(i)[field]) \in Nat \ {0}
    <2>1. journal.event_count \in Nat
      BY DEF Inv, TypeOK
    <2>2. PICK e \in LiveEvents : heads[e].index = i
      <3>1. i \in 0..(journal.event_count - 1)
        BY <1>1, <2>1
      <3> QED BY <3>1 DEF JournalInv, JournalExact, HeadsMatchRevisions
    <2>3. PICK x \in RevisionAccount(e, heads[e].latest_revision) : at(i) = x.payload
      BY <2>2, PayloadFound
    <2>4. x \in revisions
      BY <2>3 DEF RevisionAccount
    <2>5. /\ x.payload.m0_bits \in Nat /\ x.payload.m1_bits \in Nat
          /\ DecodesMultiplier(x.payload.m0_bits) /\ DecodesMultiplier(x.payload.m1_bits)
      BY <1>1, <2>3, <2>4 DEF JournalOrder, InYearQualified, QualifiedFactor
    <2>6. FactorValue(x.payload.m0_bits) \in Nat \ {0} /\ FactorValue(x.payload.m1_bits) \in Nat \ {0}
      BY <2>5, FactorTypes
    <2> QED BY <2>3, <2>6
  <1> QED BY <1>1 DEF Factors

\* The products are positive numbers; they start at one, and the event at a
\* place multiplies them by its own factors.
LEMMA JournalProducts ==
  ASSUME Inv, JournalInv, JournalOrder
  PROVE  /\ ProductBefore(0) = 1 /\ ProductAfter(0) = 1
         /\ \A n \in Nat : ProductBefore(n) \in Nat /\ ProductAfter(n) \in Nat /\ ProductAfter(n) > 0
         /\ \A e \in LiveEvents, x \in revisions :
              x \in RevisionAccount(e, heads[e].latest_revision) =>
                LET n == heads[e].index
                IN  /\ heads[e].latest_in_year_qualified =>
                         /\ QualifiedFactor(x.payload.m0_bits, x.payload.m1_bits)
                         /\ ProductBefore(n + 1) = ProductBefore(n) * FactorValue(x.payload.m0_bits)
                         /\ ProductAfter(n + 1) = ProductAfter(n) * FactorValue(x.payload.m1_bits)
                    /\ ~heads[e].latest_in_year_qualified =>
                         /\ ProductBefore(n + 1) = ProductBefore(n)
                         /\ ProductAfter(n + 1) = ProductAfter(n)
  <1> DEFINE g0 == Factors(journal.event_count, heads, revisions, "m0_bits")
             g1 == Factors(journal.event_count, heads, revisions, "m1_bits")
  <1>1. g0 \in [Nat -> Nat \ {0}] /\ g1 \in [Nat -> Nat \ {0}]
    BY FactorsType
  <1> HIDE DEF g0, g1
  <1>2. /\ Product(g0)[0] = 1 /\ Product(g1)[0] = 1
        /\ \A n \in Nat : /\ Product(g0)[n + 1] = Product(g0)[n] * g0[n]
                          /\ Product(g1)[n + 1] = Product(g1)[n] * g1[n]
                          /\ Product(g0)[n] \in Nat \ {0} /\ Product(g1)[n] \in Nat \ {0}
    BY <1>1, ProductValues
  <1>3. \A n : ProductBefore(n) = Product(g0)[n] /\ ProductAfter(n) = Product(g1)[n]
    BY DEF ProductBefore, ProductAfter, g0, g1
  <1>4. ASSUME NEW e \in LiveEvents, NEW x \in revisions,
               x \in RevisionAccount(e, heads[e].latest_revision)
        PROVE  LET n == heads[e].index
               IN  /\ heads[e].latest_in_year_qualified =>
                        /\ QualifiedFactor(x.payload.m0_bits, x.payload.m1_bits)
                        /\ ProductBefore(n + 1) = ProductBefore(n) * FactorValue(x.payload.m0_bits)
                        /\ ProductAfter(n + 1) = ProductAfter(n) * FactorValue(x.payload.m1_bits)
                   /\ ~heads[e].latest_in_year_qualified =>
                        /\ ProductBefore(n + 1) = ProductBefore(n)
                        /\ ProductAfter(n + 1) = ProductAfter(n)
    <2> DEFINE n == heads[e].index
    <2>1. n \in Nat /\ n < journal.event_count /\ heads[e].latest_in_year_qualified \in BOOLEAN
      <3>1. /\ e \in Events /\ journal.event_count \in Nat
            /\ heads[e].latest_in_year_qualified \in BOOLEAN
        BY DEF Inv, TypeOK, LiveEvents
      <3>2. n \in 0..(journal.event_count - 1)
        BY DEF JournalInv, JournalExact, HeadsMatchRevisions
      <3> HIDE DEF n
      <3> QED BY <3>1, <3>2
    <2>2. /\ PayloadAt(heads, revisions, n) = x.payload
          /\ heads[e].latest_in_year_qualified = InYearQualified(x.payload)
      BY <1>4, PayloadFound
    <2>3. /\ g0[n] = IF InYearQualified(x.payload) THEN FactorValue(x.payload.m0_bits) ELSE 1
          /\ g1[n] = IF InYearQualified(x.payload) THEN FactorValue(x.payload.m1_bits) ELSE 1
      BY <2>1, <2>2 DEF Factors, g0, g1
    <2> HIDE DEF n
    <2>4. /\ ProductBefore(n + 1) = ProductBefore(n) * g0[n] /\ ProductBefore(n) \in Nat
          /\ ProductAfter(n + 1) = ProductAfter(n) * g1[n] /\ ProductAfter(n) \in Nat
      BY <1>2, <1>3, <2>1
    <2>5. CASE heads[e].latest_in_year_qualified
      <3>1. QualifiedFactor(x.payload.m0_bits, x.payload.m1_bits)
        BY <2>2, <2>5 DEF JournalOrder, InYearQualified
      <3> QED BY <2>2, <2>3, <2>4, <2>5, <3>1 DEF n
    <2>6. CASE ~heads[e].latest_in_year_qualified
      <3>1. g0[n] = 1 /\ g1[n] = 1
        BY <2>2, <2>3, <2>6
      <3>2. ProductBefore(n + 1) = ProductBefore(n) /\ ProductAfter(n + 1) = ProductAfter(n)
        BY <2>4, <3>1
      <3> QED BY <2>6, <3>2 DEF n
    <2> QED BY <2>1, <2>5, <2>6
  <1> QED BY <1>2, <1>3, <1>4

\* A step that leaves the journal alone leaves its products alone.
LEMMA ProductsStay ==
  ASSUME UNCHANGED journalVars
  PROVE  \A n : ProductBefore(n)' = ProductBefore(n) /\ ProductAfter(n)' = ProductAfter(n)
  BY DEF journalVars, ProductBefore, ProductAfter, Factors, PayloadAt

\* accumulate_event folds in the event at the cursor.
LEMMA AccumulateSplit ==
  ASSUME Inv, JournalInv, JournalOrder, AccumulatorExact, NEW e \in Events, AccumulateEvent(e)
  PROVE  SplitFollowsJournal'
  <1> DEFINE n == accumulator.numerator
             d == accumulator.denominator
             c == accumulator.cursor
             a == ProductAfter(c)
             b == ProductBefore(c)
  <1>1. n \in Nat /\ d \in Nat /\ c \in Nat
    BY DEF Inv, TypeOK
  <1>2. /\ phase = "sealing" /\ phase' = "sealing" /\ e \in LiveEvents /\ heads[e].index = c
        /\ UNCHANGED journalVars
    BY DEF AccumulateEvent, LiveEvents
  <1>3. PICK x \in RevisionAccount(e, heads[e].latest_revision) :
          IF heads[e].latest_in_year_qualified
          THEN accumulator' =
                 [cursor |-> c + 1,
                  numerator |-> MultiplyRatio(n, d, x.payload.m0_bits, x.payload.m1_bits).numerator,
                  denominator |-> MultiplyRatio(n, d, x.payload.m0_bits, x.payload.m1_bits).denominator]
          ELSE accumulator' = [accumulator EXCEPT !.cursor = @ + 1]
    BY DEF AccumulateEvent
  <1>4. x \in revisions
    BY <1>3 DEF RevisionAccount
  <1>5. a \in Nat /\ b \in Nat
    BY <1>1, JournalProducts
  <1>6. n * a = d * b
    BY <1>2 DEF AccumulatorExact
  <1>7. accumulator'.cursor = c + 1
    BY <1>1, <1>3 DEF Inv, TypeOK
  <1>8. \A m : ProductBefore(m)' = ProductBefore(m) /\ ProductAfter(m)' = ProductAfter(m)
    BY <1>2, ProductsStay
  <1>9. accumulator'.numerator * ProductAfter(c + 1) = accumulator'.denominator * ProductBefore(c + 1)
    <2>1. CASE heads[e].latest_in_year_qualified
      <3>1. /\ QualifiedFactor(x.payload.m0_bits, x.payload.m1_bits)
            /\ ProductBefore(c + 1) = b * FactorValue(x.payload.m0_bits)
            /\ ProductAfter(c + 1) = a * FactorValue(x.payload.m1_bits)
        BY <1>2, <1>3, <1>4, <2>1, JournalProducts
      <3>2. x.payload.m0_bits \in Nat /\ x.payload.m1_bits \in Nat
        BY <1>4 DEF JournalOrder
      <3>3. /\ accumulator'.numerator
                 = MultiplyRatio(n, d, x.payload.m0_bits, x.payload.m1_bits).numerator
            /\ accumulator'.denominator
                 = MultiplyRatio(n, d, x.payload.m0_bits, x.payload.m1_bits).denominator
        BY <1>3, <2>1
      <3> DEFINE m0 == x.payload.m0_bits
                 m1 == x.payload.m1_bits
      <3> HIDE DEF n, d, a, b, m0, m1
      <3>4. m0 \in Nat /\ m1 \in Nat /\ QualifiedFactor(m0, m1)
        BY <3>1, <3>2 DEF m0, m1
      <3>5. MultiplyRatio(n, d, m0, m1).numerator * (a * FactorValue(m1))
              = MultiplyRatio(n, d, m0, m1).denominator * (b * FactorValue(m0))
        BY <1>1, <1>5, <1>6, <3>4, RatioStep
      <3> QED BY <3>1, <3>3, <3>5 DEF m0, m1
    <2>2. CASE ~heads[e].latest_in_year_qualified
      <3>1. ProductBefore(c + 1) = b /\ ProductAfter(c + 1) = a
        BY <1>2, <1>3, <1>4, <2>2, JournalProducts
      <3>2. accumulator'.numerator = n /\ accumulator'.denominator = d
        BY <1>3, <2>2 DEF Inv, TypeOK
      <3> QED BY <1>6, <3>1, <3>2
    <2>3. heads[e].latest_in_year_qualified \in BOOLEAN
      BY DEF Inv, TypeOK
    <2> QED BY <2>1, <2>2, <2>3
  <1> HIDE DEF c
  <1>10. AccumulatorExact'
    BY <1>7, <1>8, <1>9 DEF AccumulatorExact, ProductBefore, ProductAfter
  <1> QED BY <1>2, <1>10 DEF SplitFollowsJournal, PoolsFollowJournal

\* complete_finalization divides by the product of the whole journal.
LEMMA CompleteSplit ==
  ASSUME Inv, JournalInv, JournalOrder, SealPinsJournal, AccumulatorExact, CompleteFinalization
  PROVE  SplitFollowsJournal'
  <1> DEFINE n == accumulator.numerator
             d == accumulator.denominator
             c == journal.event_count
             a == ProductAfter(c)
             b == ProductBefore(c)
             Q == nominal_backing
  <1>1. n \in Nat /\ d \in Nat /\ c \in Nat /\ Q \in Nat
    BY DEF Inv, TypeOK
  <1>2. /\ phase = "sealing" /\ phase' = "finalized" /\ UNCHANGED journalVars
        /\ accumulator.cursor = c /\ d # 0 /\ n <= d
        /\ final_supply' = Q /\ pool' = SplitPools(Q, n, d)
    BY DEF CompleteFinalization, SealPinsJournal, SplitsPools
  <1>3. pool'["dr"] = (Q * (d - n)) \div d
    BY <1>2 DEF SplitPools, Sides
  <1>4. a \in Nat /\ b \in Nat /\ a > 0
    BY <1>1, JournalProducts
  <1>5. n * a = d * b
    BY <1>2 DEF AccumulatorExact
  <1>6. (Q * (d - n)) \div d = (Q * (a - b)) \div a
    <2> HIDE DEF n, d, a, b, Q
    <2> QED BY <1>1, <1>2, <1>4, <1>5, EqualFloors
  <1>7. journal' = journal /\ ProductBefore(c)' = b /\ ProductAfter(c)' = a
    BY <1>2, ProductsStay DEF journalVars
  <1>8. PoolsFollowJournal'
    BY <1>2, <1>3, <1>6, <1>7 DEF PoolsFollowJournal, ProductBefore, ProductAfter
  <1> QED BY <1>2, <1>8 DEF SplitFollowsJournal, AccumulatorExact

\* A step that leaves alone what the split is made of.
LEMMA SplitStays ==
  ASSUME SplitFollowsJournal,
         UNCHANGED <<phase, journalVars, accumulator, final_supply, pool>>
  PROVE  SplitFollowsJournal'
  <1>1. \A m : ProductBefore(m)' = ProductBefore(m) /\ ProductAfter(m)' = ProductAfter(m)
    BY ProductsStay
  <1>2. AccumulatorExact'
    BY <1>1 DEF SplitFollowsJournal, AccumulatorExact, ProductBefore, ProductAfter
  <1>3. journal' = journal
    BY DEF journalVars
  <1>4. PoolsFollowJournal'
    BY <1>1, <1>3 DEF SplitFollowsJournal, PoolsFollowJournal, ProductBefore, ProductAfter
  <1> QED BY <1>2, <1>4 DEF SplitFollowsJournal

\* What the split rests on.
SplitInv == JournalInv /\ JournalOrder /\ SealPinsJournal /\ SplitFollowsJournal

\* One step keeps the split that of the journal.
LEMMA SplitStep == Inv /\ SplitInv /\ [Next]_vars => SplitFollowsJournal'
  <1> SUFFICES ASSUME Inv, SplitInv, [Next]_vars PROVE SplitFollowsJournal'
    OBVIOUS
  <1> USE DEF SplitInv
  <1>1. CASE UNCHANGED vars
    BY <1>1, SplitStays DEF vars, sealVars, poolVars
  <1>2. CASE Custody
    BY <1>2, SplitStays DEF Custody, Deposit, Recombine, Redeem, sealVars, poolVars
  <1>3. CASE Attestation
    <2>1. ASSUME NEW signer \in Principals, NEW e \in Events, NEW r \in 1..MaxRevision,
                 NEW p \in Payloads, UpsertEvent(signer, e, r, p)
          PROVE  phase' = "open"
      BY <2>1 DEF UpsertEvent, ReplayRevision, AppendRevision, vars
    <2>2. ASSUME NEW signer \in Principals,
                 BeginFinalization(signer, journal.version, journal.hash)
          PROVE  SplitFollowsJournal'
      <3>1. phase' = "sealing" /\ UNCHANGED journalVars /\ accumulator' = FreshAccumulator
        BY <2>2 DEF BeginFinalization
      <3>2. ProductBefore(0)' = 1 /\ ProductAfter(0)' = 1
        BY <3>1, ProductsStay, JournalProducts
      <3>3. AccumulatorExact'
        BY <3>1, <3>2 DEF AccumulatorExact, FreshAccumulator, ProductBefore, ProductAfter
      <3> QED BY <3>1, <3>3 DEF SplitFollowsJournal, PoolsFollowJournal
    <2>3. ASSUME NEW signer \in Principals, AbortFinalization(signer)
          PROVE  phase' = "open"
      BY <2>3 DEF AbortFinalization
    <2>4. ASSUME phase' = "open" PROVE SplitFollowsJournal'
      BY <2>4 DEF SplitFollowsJournal, AccumulatorExact, PoolsFollowJournal
    <2> QED BY <1>3, <2>1, <2>2, <2>3, <2>4 DEF Attestation
  <1>4. CASE Keeping
    BY <1>4, AccumulateSplit, CompleteSplit DEF Keeping, SplitFollowsJournal
  <1>5. CASE phase # "none" /\ (Administration \/ AdvanceClock \/ Issuer \/ Wallets)
    BY <1>5, OutsideSteps, SplitStays DEF seriesVars, sealVars, poolVars
  <1>6. CASE phase = "none" /\ (Administration \/ AdvanceClock \/ Issuer \/ Wallets)
    <2>1. phase' \in {"none", "open"}
      BY <1>6, PhaseSteps
    <2> QED BY <2>1 DEF SplitFollowsJournal, AccumulatorExact, PoolsFollowJournal
  <1> QED BY <1>1, <1>2, <1>3, <1>4, <1>5, <1>6 DEF Next

\* accumulate_event and complete_finalization split the backing as the journal
\* says, for multipliers of any width and however many events: the keeper's
\* accumulator is at every moment the exact product of the ratios before its
\* cursor, whatever was revised, aborted and sealed again before, and the final
\* pools are those of the product over the whole journal.
THEOREM SplitCorrect == Spec => []SplitFollowsJournal
  <1>1. Init => JournalOrder /\ SplitFollowsJournal
    BY DEF Init, JournalOrder, LiveEvents, NoHead, SplitFollowsJournal, AccumulatorExact,
       PoolsFollowJournal
  <1>2. Inv /\ JournalInv /\ JournalOrder /\ SealPinsJournal /\ SplitFollowsJournal /\ [Next]_vars
          => SplitFollowsJournal'
    BY SplitStep DEF SplitInv
  <1> QED
    BY <1>1, <1>2, JournalOrderStep, JournalInvariance, SealCorrect, Invariance, PTL DEF Spec

-----------------------------------------------------------------------------
(* Finality.                                                               *)

\* complete_finalization revokes both mint authorities.
Revoked == phase = "finalized" => \A s \in Sides : ~mint_authority[s]

\* What a step does to a finalized series.
Final ==
  phase = "finalized" =>
    /\ UNCHANGED <<phase, nominal_backing, journalVars, sealVars, final_supply, pool>>
    /\ \A s \in Sides : supply'[s] <= supply[s] /\ ~mint_authority'[s]

\* Only redemptions, and steps outside the series, happen after finalization.
LEMMA FinalStep == Inv /\ Revoked /\ [Next]_vars => [Final]_vars
  <1> SUFFICES ASSUME Inv, Revoked, Next, phase = "finalized" PROVE Final
    BY DEF Final
  <1>1. CASE Custody
    <2>1. PICK h \in Holders, amount \in Amounts, side \in Sides, allow_zero \in BOOLEAN :
            Redeem(h, side, amount, allow_zero, CurrentGuard)
      BY <1>1 DEF Custody, Deposit, DepositAccepted, Recombine, RecombineAccepted
    <2>2. /\ supply' = [supply EXCEPT ![side] = @ - amount]
          /\ UNCHANGED <<phase, nominal_backing, journalVars, sealVars, final_supply, pool,
                         mint_authority>>
      BY <2>1 DEF Redeem
    <2>3. \A s \in Sides : supply'[s] <= supply[s]
      BY <2>2, SeriesAssumption DEF Inv, TypeOK
    <2> QED BY <2>2, <2>3 DEF Final, Revoked
  <1>2. CASE Attestation
    BY <1>2 DEF Attestation, UpsertEvent, BeginFinalization, AbortFinalization
  <1>3. CASE Keeping
    BY <1>3 DEF Keeping, AccumulateEvent, CompleteFinalization
  <1>4. CASE Administration \/ AdvanceClock \/ Issuer \/ Wallets
    BY <1>4, OutsideSteps DEF seriesVars, poolVars, Final, Revoked
  <1> QED BY <1>1, <1>2, <1>3, <1>4 DEF Next

\* The revocation lasts.
LEMMA RevokedStep == Inv /\ Revoked /\ [Next]_vars => Revoked'
  <1> SUFFICES ASSUME Inv, Revoked, [Next]_vars, phase' = "finalized"
               PROVE  \A s \in Sides : ~mint_authority'[s]
    BY DEF Revoked
  <1>1. CASE UNCHANGED vars
    BY <1>1 DEF vars, tokenVars, Revoked
  <1>2. CASE phase = "finalized"
    BY <1>1, <1>2, FinalStep DEF Final
  <1>3. CASE phase # "finalized" /\ Next
    <2>1. Keeping
      BY <1>3, PhaseSteps DEF Next
    <2>2. CompleteFinalization
      BY <1>3, <2>1 DEF Keeping, AccumulateEvent
    <2> QED BY <2>2 DEF CompleteFinalization, RevokeMintAuthority
  <1> QED BY <1>1, <1>2, <1>3

\* Finalization is irrevocable: the split, the sealed journal and the backing are
\* fixed and neither claim mint can ever mint again.
THEOREM FinalityCorrect == Spec => FinalityIsPermanent
  <1>1. Init => Revoked
    BY DEF Init, Revoked
  <1>2. FinalityIsPermanent <=> [][Final]_vars
    BY PTL DEF FinalityIsPermanent, Final
  <1> QED
    BY <1>1, <1>2, RevokedStep, FinalStep, Invariance, PTL DEF Spec

-----------------------------------------------------------------------------
(* The refinement of AnnualClaims.                                         *)

\* Steps outside the series leave the backing and the pools alone, also before
\* the series exists.
LEMMA OutsideBooks ==
  ASSUME Administration \/ AdvanceClock \/ Issuer \/ Wallets
  PROVE  UNCHANGED <<nominal_backing, poolVars>>
  <1>1. CASE Administration
    BY <1>1 DEF Administration, InitializeConfig, RegisterAsset, SetAssetAdmission,
       RefreshObservation, CreateSeries
  <1>2. CASE AdvanceClock
    BY <1>2 DEF AdvanceClock
  <1>3. CASE Issuer
    BY <1>3 DEF Issuer, UpdateScale, UpdateControls, SetTransferable, SetFrozen, Seize
  <1>4. CASE Wallets
    BY <1>4 DEF Wallets, Donate, BurnClaim, TransferClaim
  <1> QED BY <1>1, <1>2, <1>3, <1>4

\* A step outside custody and finalization is a stutter of the contract.
LEMMA ClaimsStutter ==
  ASSUME UNCHANGED <<nominal_backing, pool, redeemed, paid>>,
         phase' = "finalized" <=> phase = "finalized"
  PROVE  UNCHANGED Claims!vars
  BY DEF Claims!vars

\* Every step of the program is a step of the contract or a stutter.
LEMMA ClaimsStep == Inv /\ [Next]_vars => [Claims!Next]_(Claims!vars)
  <1> SUFFICES ASSUME Inv, [Next]_vars PROVE [Claims!Next]_(Claims!vars)
    OBVIOUS
  <1> USE SeriesAssumption
  <1>1. ASSUME UNCHANGED vars PROVE UNCHANGED Claims!vars
    BY <1>1 DEF vars, poolVars, Claims!vars
  <1>2. ASSUME NEW h \in Holders, NEW amount \in Amounts, Deposit(h, amount, CurrentGuard)
        PROVE  Claims!Fund
    <2>1. /\ phase = "open" /\ amount \in Nat /\ amount > 0
          /\ nominal_backing' = nominal_backing + amount /\ UNCHANGED <<phase, poolVars>>
      BY <1>2 DEF Deposit, DepositAccepted
    <2>2. nominal_backing' > nominal_backing
      BY <2>1 DEF Inv, TypeOK
    <2> QED BY <2>1, <2>2 DEF Claims!Fund, poolVars
  <1>3. ASSUME NEW h \in Holders, NEW amount \in Amounts, Recombine(h, amount, CurrentGuard)
        PROVE  Claims!Unwind
    <2>1. /\ phase \in {"open", "sealing"} /\ amount \in Nat /\ amount > 0
          /\ amount <= nominal_backing /\ nominal_backing' = nominal_backing - amount
          /\ UNCHANGED <<phase, poolVars>>
      BY <1>3 DEF Recombine, RecombineAccepted
    <2>2. 0 <= nominal_backing' /\ nominal_backing' < nominal_backing
      BY <2>1 DEF Inv, TypeOK
    <2> QED BY <2>1, <2>2 DEF Claims!Unwind, poolVars
  <1>4. ASSUME NEW h \in Holders, NEW amount \in Amounts, NEW side \in Sides,
               NEW allow_zero \in BOOLEAN, Redeem(h, side, amount, allow_zero, CurrentGuard)
        PROVE  Claims!Redeem(side)
    <2> DEFINE payout == RedemptionPayout(redeemed[side], amount, pool[side], final_supply)
    <2>1. /\ redeemed' = [redeemed EXCEPT ![side] = @ + amount]
          /\ paid' = [paid EXCEPT ![side] = @ + payout]
          /\ UNCHANGED <<phase, nominal_backing, pool>>
      BY <1>4 DEF Redeem, RedeemAccepted
    <2>2. /\ phase = "finalized" /\ final_supply = nominal_backing
          /\ redeemed[side] + amount <= final_supply
          /\ paid[side] + payout = CumulativeFloor(redeemed[side] + amount, pool[side], final_supply)
      BY <1>4, PayoutBounds
    <2>4. redeemed'[side] = redeemed[side] + amount
      BY <2>1 DEF Inv, TypeOK
    <2>5. paid[side] + payout = (redeemed'[side] * pool[side]) \div nominal_backing
      BY <2>2, <2>4 DEF CumulativeFloor
    <2>6. /\ redeemed' = [redeemed EXCEPT ![side] = redeemed'[side]]
          /\ paid' = [paid EXCEPT ![side] = (redeemed'[side] * pool[side]) \div nominal_backing]
      <3> HIDE DEF payout
      <3>1. redeemed' = [redeemed EXCEPT ![side] = redeemed'[side]]
        BY <2>1, <2>4
      <3>2. paid' = [paid EXCEPT ![side] = paid[side] + payout]
        BY <2>1
      <3> QED BY <2>5, <3>1, <3>2
    <2>7. redeemed[side] < redeemed'[side] /\ redeemed'[side] <= nominal_backing
      BY <2>1, <2>2, <2>4 DEF Inv, TypeOK
    <2> QED BY <2>1, <2>2, <2>6, <2>7 DEF Claims!Redeem
  <1>5. ASSUME CompleteFinalization PROVE Claims!Settle
    <2> DEFINE n == accumulator.numerator
               d == accumulator.denominator
    <2>1. /\ phase = "sealing" /\ phase' = "finalized"
          /\ SplitsPools(nominal_backing, n, d)
          /\ pool' = SplitPools(nominal_backing, n, d)
          /\ UNCHANGED <<nominal_backing, redeemed, paid>>
      BY <1>5 DEF CompleteFinalization
    <2>2. n \in Nat /\ d \in Nat /\ nominal_backing \in Nat
      BY DEF Inv, TypeOK
    <2>3. pool'["dr"] \in 0..nominal_backing
      BY <2>1, <2>2, SplitPoolsSum
    <2>4. pool' = [s \in Sides |-> IF s = "dr" THEN pool'["dr"] ELSE nominal_backing - pool'["dr"]]
      BY <2>1 DEF SplitPools, Sides
    <2> QED BY <2>1, <2>3, <2>4 DEF Claims!Settle
  <1>6. ASSUME Attestation \/ \E e \in Events : AccumulateEvent(e) PROVE UNCHANGED Claims!vars
    <2>1. CASE Attestation
      <3>1. /\ UNCHANGED <<nominal_backing, pool, redeemed, paid>>
            /\ phase # "finalized" /\ phase' # "finalized"
        BY <2>1 DEF Attestation, UpsertEvent, ReplayRevision, AppendRevision, BeginFinalization,
           AbortFinalization, poolVars, vars
      <3> QED BY <3>1, ClaimsStutter
    <2>2. CASE \E e \in Events : AccumulateEvent(e)
      BY <2>2, ClaimsStutter DEF AccumulateEvent, poolVars
    <2> QED BY <1>6, <2>1, <2>2
  <1>7. ASSUME Administration \/ AdvanceClock \/ Issuer \/ Wallets
        PROVE  UNCHANGED Claims!vars
    <2>1. CASE phase # "none"
      BY <1>7, <2>1, OutsideSteps, ClaimsStutter DEF seriesVars, poolVars
    <2>2. CASE phase = "none"
      <3>1. phase' # "finalized"
        BY <1>7, <2>2, PhaseSteps
      <3>2. UNCHANGED <<nominal_backing, poolVars>>
        BY <1>7, OutsideBooks
      <3> QED BY <2>2, <3>1, <3>2, ClaimsStutter DEF poolVars
    <2> QED BY <2>1, <2>2
  <1> QED
    BY <1>1, <1>2, <1>3, <1>4, <1>5, <1>6, <1>7 DEF Next, Custody, Keeping, Claims!Next

\* The whole program, journal, seal, keepers and issuer included, implements the
\* contract of AnnualClaims: equal funding and unwinding before one settlement,
\* cumulative-floor redemption of each side after it, and nothing else.
THEOREM Refinement == Spec => RefinesClaims
  <1>1. Init => Claims!Init
    BY DEF Init, Claims!Init, Claims!Nothing
  <1> QED
    BY <1>1, ClaimsStep, Invariance, PTL DEF Spec, RefinesClaims, Claims!Spec

-----------------------------------------------------------------------------
(* Exits.  That a holder's burn cannot fail needs the holdings to add up   *)
(* to the supply: every unit of a claim is one element of Units.           *)

Units(balance) == {u \in Holders \X Nat : 1 <= u[2] /\ u[2] <= balance[u[1]]}

\* The holdings of each side are its supply, and the mints are open exactly
\* while pairs may still be minted.
Counted(balance, total) == IsFiniteSet(Units(balance)) /\ Cardinality(Units(balance)) = total
Held == \A s \in Sides : Counted(claims[s], supply[s])

Minting == phase \in {"open", "sealing"} => \A s \in Sides : mint_authority[s]

\* More for one holder is that many units more.
LEMMA UnitsGain ==
  ASSUME NEW b \in [Holders -> Nat], NEW h \in Holders, NEW amount \in Nat, IsFiniteSet(Units(b))
  PROVE  LET more == [b EXCEPT ![h] = @ + amount]
         IN  /\ IsFiniteSet(Units(more))
             /\ Cardinality(Units(more)) = Cardinality(Units(b)) + amount
  <1> DEFINE more == [b EXCEPT ![h] = @ + amount]
             span == (b[h] + 1)..(b[h] + amount)
             new == {h} \X span
  <1>0. b[h] \in Nat
    OBVIOUS
  <1>1. IsFiniteSet(span) /\ Cardinality(span) = amount
    <2>1. b[h] + 1 \in Int /\ b[h] + amount \in Int
      BY <1>0
    <2>2. /\ IsFiniteSet(span)
          /\ Cardinality(span) = IF b[h] + 1 > b[h] + amount THEN 0 ELSE (b[h] + amount) - (b[h] + 1) + 1
      BY <2>1, FS_Interval
    <2> HIDE DEF span
    <2> QED BY <1>0, <2>2
  <1>2. IsFiniteSet(new) /\ Cardinality(new) = amount
    <2>1. IsFiniteSet({h}) /\ Cardinality({h}) = 1
      BY FS_Singleton
    <2>2. IsFiniteSet(new) /\ Cardinality(new) = 1 * amount
      BY SMTT(60), <1>1, <2>1, FS_Product
    <2> QED BY <2>2
  <1>3. Units(more) = Units(b) \cup new
    <2>1. \A g \in Holders : more[g] = IF g = h THEN b[h] + amount ELSE b[g]
      OBVIOUS
    <2>2. \A u \in Holders \X Nat : u = <<u[1], u[2]>> /\ u[1] \in Holders /\ u[2] \in Nat
      OBVIOUS
    <2>3. ASSUME NEW u \in Units(more) PROVE u \in Units(b) \cup new
      BY <1>0, <2>1, <2>2, <2>3 DEF Units
    <2>4. ASSUME NEW u \in Units(b) PROVE u \in Units(more)
      BY <1>0, <2>1, <2>2, <2>4 DEF Units
    <2>5. ASSUME NEW u \in new PROVE u \in Units(more)
      BY <1>0, <2>1, <2>5 DEF Units
    <2> QED BY <2>3, <2>4, <2>5
  <1>4. Units(b) \cap new = {}
    BY <1>0 DEF Units
  <1> HIDE DEF new, more
  <1>5. /\ IsFiniteSet(Units(b) \cup new)
        /\ Cardinality(Units(b) \cup new)
             = Cardinality(Units(b)) + Cardinality(new) - Cardinality(Units(b) \cap new)
    BY <1>2, FS_Union
  <1>6. Cardinality({}) = 0 /\ Cardinality(Units(b)) \in Nat
    BY FS_EmptySet, FS_CardinalityType
  <1>7. IsFiniteSet(Units(more)) /\ Cardinality(Units(more)) = Cardinality(Units(b)) + amount
    <2>1. /\ IsFiniteSet(Units(more))
          /\ Cardinality(Units(more)) = Cardinality(Units(b)) + amount - 0
      BY <1>2, <1>3, <1>4, <1>5, <1>6, Zenon
    <2> QED BY <1>6, <2>1
  <1> QED BY <1>7 DEF more

\* Less for one holder is that many units less.
LEMMA UnitsLoss ==
  ASSUME NEW b \in [Holders -> Nat], NEW h \in Holders, NEW amount \in Nat, amount <= b[h],
         IsFiniteSet(Units(b))
  PROVE  LET less == [b EXCEPT ![h] = @ - amount]
         IN  /\ IsFiniteSet(Units(less))
             /\ Cardinality(Units(less)) = Cardinality(Units(b)) - amount
  <1> DEFINE less == [b EXCEPT ![h] = @ - amount]
  <1>1. less \in [Holders -> Nat] /\ [less EXCEPT ![h] = @ + amount] = b
    <2>1. b[h] - amount \in Nat /\ (b[h] - amount) + amount = b[h]
      OBVIOUS
    <2>2. less \in [Holders -> Nat] /\ less[h] = b[h] - amount
      BY <2>1
    <2>3. ASSUME NEW g \in Holders PROVE [less EXCEPT ![h] = @ + amount][g] = b[g]
      BY <2>1, <2>2
    <2> QED BY <2>2, <2>3
  <1>2. \A g \in Holders : less[g] <= b[g]
    OBVIOUS
  <1>3. Units(less) \in SUBSET Units(b)
    BY <1>1, <1>2 DEF Units
  <1> HIDE DEF less
  <1>4. IsFiniteSet(Units(less))
    BY <1>3, FS_Subset
  <1>5. Cardinality(Units(b)) = Cardinality(Units(less)) + amount
    BY <1>1, <1>4, UnitsGain, Zenon
  <1>6. Cardinality(Units(less)) \in Nat
    BY <1>4, FS_CardinalityType
  <1>7. IsFiniteSet(Units(less)) /\ Cardinality(Units(less)) = Cardinality(Units(b)) - amount
    BY <1>4, <1>5, <1>6
  <1> QED BY <1>7 DEF less

\* No holder has more than all have.
LEMMA HeldWithinSupply ==
  ASSUME TypeOK, Held, NEW s \in Sides, NEW h \in Holders
  PROVE  claims[s][h] <= supply[s]
  <1> DEFINE b == claims[s]
             none == [b EXCEPT ![h] = @ - b[h]]
  <1>1. b \in [Holders -> Nat] /\ b[h] \in Nat /\ b[h] <= b[h] /\ supply[s] \in Nat
    BY DEF TypeOK
  <1>2. IsFiniteSet(Units(b)) /\ Cardinality(Units(b)) = supply[s]
    BY DEF Held, Counted
  <1> HIDE DEF b
  <1>3. IsFiniteSet(Units(none)) /\ Cardinality(Units(none)) = supply[s] - b[h]
    BY <1>1, <1>2, UnitsLoss, Zenon
  <1> HIDE DEF none
  <1>4. Cardinality(Units(none)) \in Nat
    BY <1>3, FS_CardinalityType
  <1>5. b[h] <= supply[s]
    BY <1>1, <1>3, <1>4
  <1> QED BY <1>5 DEF b

\* A side whose holders' claims and supply move together stays held.
LEMMA HeldByGain ==
  ASSUME TypeOK, Held, NEW s \in Sides, NEW h \in Holders, NEW amount \in Nat,
         claims'[s] = [claims[s] EXCEPT ![h] = @ + amount], supply'[s] = supply[s] + amount
  PROVE  Counted(claims'[s], supply'[s])
  <1>1. claims[s] \in [Holders -> Nat]
    BY DEF TypeOK
  <1>2. IsFiniteSet(Units(claims[s])) /\ Cardinality(Units(claims[s])) = supply[s]
    BY DEF Held, Counted
  <1> DEFINE more == [claims[s] EXCEPT ![h] = @ + amount]
  <1>3. IsFiniteSet(Units(more)) /\ Cardinality(Units(more)) = Cardinality(Units(claims[s])) + amount
    BY <1>1, <1>2, UnitsGain, Zenon
  <1> QED BY <1>2, <1>3, Zenon DEF Counted

LEMMA HeldByLoss ==
  ASSUME TypeOK, Held, NEW s \in Sides, NEW h \in Holders, NEW amount \in Nat, Burns(h, s, amount),
         claims'[s] = [claims[s] EXCEPT ![h] = @ - amount], supply'[s] = supply[s] - amount
  PROVE  Counted(claims'[s], supply'[s])
  <1>1. claims[s] \in [Holders -> Nat] /\ amount <= claims[s][h]
    BY DEF TypeOK, Burns
  <1>2. IsFiniteSet(Units(claims[s])) /\ Cardinality(Units(claims[s])) = supply[s]
    BY DEF Held, Counted
  <1> DEFINE less == [claims[s] EXCEPT ![h] = @ - amount]
  <1>3. IsFiniteSet(Units(less)) /\ Cardinality(Units(less)) = Cardinality(Units(claims[s])) - amount
    BY <1>1, <1>2, UnitsLoss, Zenon
  <1> QED BY <1>2, <1>3, Zenon DEF Counted

LEMMA HeldBySides ==
  ASSUME Held,
         \A s \in Sides : (claims'[s] = claims[s] /\ supply'[s] = supply[s]) \/ Counted(claims'[s], supply'[s])
  PROVE  Held'
  <1>1. \A s \in Sides : Counted(claims'[s], supply'[s])
    BY DEF Held
  <1> QED BY <1>1 DEF Held, Counted, Units

\* Claims that change hands are as many as before.
LEMMA HeldByTransfer ==
  ASSUME TypeOK, Held, NEW from \in Holders, NEW to \in Holders, NEW side \in Sides, NEW amount \in Nat,
         TransferClaim(from, to, side, amount)
  PROVE  Held'
  <1> DEFINE b == claims[side]
             less == [b EXCEPT ![from] = @ - amount]
             more == [less EXCEPT ![to] = @ + amount]
  <1>1. b \in [Holders -> Nat] /\ amount <= b[from] /\ from # to
    BY DEF TypeOK, TransferClaim
  <1>2. IsFiniteSet(Units(b)) /\ Cardinality(Units(b)) = supply[side] /\ supply[side] \in Nat
    BY DEF Held, Counted, TypeOK
  <1>3. /\ claims' = [claims EXCEPT ![side] = [b EXCEPT ![from] = @ - amount, ![to] = @ + amount]]
        /\ supply' = supply
    BY DEF TransferClaim
  <1>4. claims \in [Sides -> [Holders -> Nat]]
    BY DEF TypeOK
  <1>5. claims'[side] = [b EXCEPT ![from] = @ - amount, ![to] = @ + amount]
    BY <1>3, <1>4
  <1> HIDE DEF b
  <1>6. less \in [Holders -> Nat]
    BY <1>1
  <1>7. [b EXCEPT ![from] = @ - amount, ![to] = @ + amount] = more
    BY <1>1
  <1>8. IsFiniteSet(Units(less)) /\ Cardinality(Units(less)) = supply[side] - amount
    BY <1>1, <1>2, UnitsLoss, Zenon
  <1> HIDE DEF less
  <1>9. IsFiniteSet(Units(more)) /\ Cardinality(Units(more)) = (supply[side] - amount) + amount
    BY <1>6, <1>8, UnitsGain, Zenon
  <1> HIDE DEF more
  <1>10. (supply[side] - amount) + amount = supply[side]
    BY <1>2
  <1>11. Counted(claims'[side], supply'[side])
    BY <1>3, <1>5, <1>7, <1>9, <1>10, Zenon DEF Counted
  <1>12. \A s \in Sides : s # side => claims'[s] = claims[s] /\ supply'[s] = supply[s]
    BY <1>3, <1>4
  <1> QED BY <1>11, <1>12, HeldBySides

\* Every step keeps the holdings equal to the supply.
LEMMA HeldStep == Inv /\ Held /\ [Next]_vars => Held'
  <1> SUFFICES ASSUME Inv, Held, [Next]_vars PROVE Held'
    OBVIOUS
  <1>0. /\ TypeOK /\ claims \in [Sides -> [Holders -> Nat]] /\ supply \in [Sides -> Nat]
        /\ Amounts \subseteq Nat
    BY SeriesAssumption DEF Inv, TypeOK
  <1>1. CASE UNCHANGED <<claims, supply>>
    BY <1>1 DEF Held, Counted, Units
  <1>2. CASE Custody
    <2>1. PICK h \in Holders, amount \in Amounts :
            \/ Deposit(h, amount, CurrentGuard)
            \/ Recombine(h, amount, CurrentGuard)
            \/ \E side \in Sides, allow_zero \in BOOLEAN :
                 Redeem(h, side, amount, allow_zero, CurrentGuard)
      BY <1>2 DEF Custody
    <2>2. amount \in Nat
      BY <1>0
    <2>3. CASE Deposit(h, amount, CurrentGuard)
      <3>1. \A s \in Sides : claims'[s] = [claims[s] EXCEPT ![h] = @ + amount] /\ supply'[s] = supply[s] + amount
        BY <2>3 DEF Deposit, MintPair
      <3> QED BY <1>0, <2>2, <3>1, HeldByGain, HeldBySides
    <2>4. CASE Recombine(h, amount, CurrentGuard)
      <3>1. \A s \in Sides : /\ Burns(h, s, amount)
                             /\ claims'[s] = [claims[s] EXCEPT ![h] = @ - amount]
                             /\ supply'[s] = supply[s] - amount
        BY <2>4 DEF Recombine, RecombineAccepted, BurnPair
      <3> QED BY <1>0, <2>2, <3>1, HeldByLoss, HeldBySides
    <2>5. ASSUME NEW side \in Sides, NEW allow_zero \in BOOLEAN,
                 Redeem(h, side, amount, allow_zero, CurrentGuard)
          PROVE  Held'
      <3>1. /\ Burns(h, side, amount)
            /\ claims' = [claims EXCEPT ![side][h] = @ - amount]
            /\ supply' = [supply EXCEPT ![side] = @ - amount]
        BY <2>5 DEF Redeem, RedeemAccepted
      <3>2. /\ claims'[side] = [claims[side] EXCEPT ![h] = @ - amount] /\ supply'[side] = supply[side] - amount
            /\ \A s \in Sides : s # side => claims'[s] = claims[s] /\ supply'[s] = supply[s]
        BY <1>0, <3>1
      <3>3. Counted(claims'[side], supply'[side])
        BY <1>0, <2>2, <3>1, <3>2, HeldByLoss, Zenon
      <3> QED BY <3>2, <3>3, HeldBySides
    <2> QED BY <2>1, <2>3, <2>4, <2>5
  <1>3. CASE Wallets
    <2>1. PICK h \in Holders, amount \in Amounts :
            \/ Donate(h, amount)
            \/ \E side \in Sides :
                 \/ BurnClaim(h, side, amount)
                 \/ \E to \in Holders : TransferClaim(h, to, side, amount)
      BY <1>3 DEF Wallets
    <2>2. amount \in Nat
      BY <1>0
    <2>3. CASE Donate(h, amount)
      BY <1>1, <2>3 DEF Donate
    <2>4. ASSUME NEW side \in Sides, BurnClaim(h, side, amount) PROVE Held'
      <3>1. /\ Burns(h, side, amount)
            /\ claims' = [claims EXCEPT ![side][h] = @ - amount]
            /\ supply' = [supply EXCEPT ![side] = @ - amount]
        BY <2>4 DEF BurnClaim, Burns
      <3>2. /\ claims'[side] = [claims[side] EXCEPT ![h] = @ - amount] /\ supply'[side] = supply[side] - amount
            /\ \A s \in Sides : s # side => claims'[s] = claims[s] /\ supply'[s] = supply[s]
        BY <1>0, <3>1
      <3>3. Counted(claims'[side], supply'[side])
        BY <1>0, <2>2, <3>1, <3>2, HeldByLoss, Zenon
      <3> QED BY <3>2, <3>3, HeldBySides
    <2>5. ASSUME NEW side \in Sides, NEW to \in Holders, TransferClaim(h, to, side, amount) PROVE Held'
      BY <1>0, <2>2, <2>5, HeldByTransfer
    <2> QED BY <2>1, <2>3, <2>4, <2>5
  <1>4. CASE Administration
    BY <1>1, <1>4 DEF Administration, InitializeConfig, RegisterAsset, SetAssetAdmission,
       RefreshObservation, CreateSeries, tokenVars
  <1>5. CASE Attestation
    BY <1>1, <1>5 DEF Attestation, UpsertEvent, ReplayRevision, AppendRevision, BeginFinalization,
       AbortFinalization, vars, tokenVars
  <1>6. CASE Keeping
    BY <1>1, <1>6 DEF Keeping, AccumulateEvent, CompleteFinalization, tokenVars
  <1>7. CASE AdvanceClock \/ Issuer
    BY <1>1, <1>7 DEF AdvanceClock, Issuer, UpdateScale, UpdateControls, SetTransferable, SetFrozen,
       Seize, tokenVars
  <1> QED BY <1>1, <1>2, <1>3, <1>4, <1>5, <1>6, <1>7 DEF Next, vars, tokenVars

\* The series is the mint authority from its creation to its finalization.
LEMMA MintingStep == Minting /\ [Next]_vars => Minting'
  <1> SUFFICES ASSUME Minting, [Next]_vars PROVE Minting'
    OBVIOUS
  <1>1. CASE UNCHANGED vars
    BY <1>1 DEF vars, tokenVars, Minting
  <1>2. CASE Administration
    BY <1>2 DEF Administration, InitializeConfig, RegisterAsset, SetAssetAdmission,
       RefreshObservation, CreateSeries, tokenVars, Minting
  <1>3. CASE Custody
    BY <1>3 DEF Custody, Deposit, Recombine, Redeem, Minting
  <1>4. CASE Attestation
    BY <1>1, <1>4 DEF Attestation, UpsertEvent, ReplayRevision, AppendRevision, BeginFinalization,
       AbortFinalization, tokenVars, Minting
  <1>5. CASE Keeping
    BY <1>5 DEF Keeping, AccumulateEvent, CompleteFinalization, tokenVars, Minting
  <1>6. CASE AdvanceClock \/ Issuer \/ Wallets
    <2>1. UNCHANGED <<phase, mint_authority>>
      <3>1. CASE AdvanceClock
        BY <3>1 DEF AdvanceClock, tokenVars
      <3>2. CASE Issuer
        BY <3>2 DEF Issuer, UpdateScale, UpdateControls, SetTransferable, SetFrozen, Seize, tokenVars
      <3>3. CASE Wallets
        BY <3>3 DEF Wallets, Donate, BurnClaim, TransferClaim
      <3> QED BY <1>6, <3>1, <3>2, <3>3
    <2> QED BY <2>1 DEF Minting
  <1> QED BY <1>1, <1>2, <1>3, <1>4, <1>5, <1>6 DEF Next

ExitInv == Inv /\ Revoked /\ Minting /\ Held

LEMMA ExitInvariance == Spec => []ExitInv
  <1>1. Init => Revoked /\ Minting /\ Held
    <2> SUFFICES ASSUME Init PROVE Revoked /\ Minting /\ Held
      OBVIOUS
    <2>1. Revoked /\ Minting
      BY DEF Init, Revoked, Minting
    <2>2. \A s \in Sides : Units(claims[s]) = {} /\ supply[s] = 0
      BY DEF Init, Units
    <2> QED BY <2>1, <2>2, FS_EmptySet DEF Held, Counted
  <1> QED BY <1>1, HeldStep, MintingStep, RevokedStep, Invariance, PTL DEF Spec, ExitInv

\* Before finalization a holder's pairs are part of the backing.
LEMMA PairsRecombine ==
  ASSUME ExitInv, NEW h \in Holders, NEW amount \in Nat, amount > 0,
         \A s \in Sides : amount <= claims[s][h], vault >= nominal_backing
  PROVE  /\ amount <= nominal_backing /\ amount <= vault
         /\ \A s \in Sides : Burns(h, s, amount)
  <1>1. /\ TypeOK /\ LedgerInv /\ Held
        /\ nominal_backing \in Nat /\ vault \in Nat
        /\ \A s \in Sides : supply[s] \in Nat /\ burned[s] \in Nat /\ redeemed[s] \in Nat
                           /\ claims[s][h] \in Nat
    BY DEF ExitInv, Inv, TypeOK
  <1>2. \A s \in Sides : claims[s][h] <= supply[s]
    BY <1>1, HeldWithinSupply
  <1>3. \A s \in Sides : supply[s] <= nominal_backing
    BY <1>1 DEF LedgerInv, SupplyExact
  <1>4. \A s \in Sides : amount <= claims[s][h] /\ amount <= supply[s] /\ amount <= nominal_backing
    BY <1>1, <1>2, <1>3
  <1>5. "pt" \in Sides
    BY DEF Sides
  <1>6. amount <= nominal_backing
    BY <1>4, <1>5
  <1> QED BY <1>1, <1>4, <1>6 DEF Burns

\* Afterwards each side's claims are what is left to redeem, and paying for them
\* leaves the other side whole.
LEMMA SidesRedeem ==
  ASSUME ExitInv, NEW h \in Holders, NEW side \in Sides, NEW amount \in Nat, amount > 0,
         phase = "finalized", amount <= claims[side][h], vault >= Owed
  PROVE  LET payout == RedemptionPayout(redeemed[side], amount, pool[side], final_supply)
         IN  /\ payout \in Nat /\ payout <= vault /\ vault >= RemainingObligations
             /\ RedemptionFits(redeemed[side], amount, final_supply)
             /\ Burns(h, side, amount) /\ ~mint_authority[side]
  <1> DEFINE payout == RedemptionPayout(redeemed[side], amount, pool[side], final_supply)
             before == CumulativeFloor(redeemed[side], pool[side], final_supply)
             after  == CumulativeFloor(redeemed[side] + amount, pool[side], final_supply)
  <1>1. /\ TypeOK /\ LedgerInv /\ Held /\ Revoked
        /\ nominal_backing \in Nat /\ vault \in Nat /\ final_supply \in Nat
        /\ pool \in [Sides -> Nat] /\ paid \in [Sides -> Nat]
        /\ supply[side] \in Nat /\ burned[side] \in Nat /\ redeemed[side] \in Nat
        /\ claims[side][h] \in Nat
    BY DEF ExitInv, Inv, TypeOK
  <1>2. claims[side][h] <= supply[side]
    BY <1>1, HeldWithinSupply
  <1>3. supply[side] + burned[side] + redeemed[side] = final_supply
    BY <1>1 DEF LedgerInv, SupplyExact, PoolsConsistent
  <1>4. redeemed[side] + amount <= final_supply /\ final_supply > 0 /\ amount <= supply[side]
    BY <1>1, <1>2, <1>3
  <1>5. /\ pool["pt"] + pool["dr"] = final_supply
        /\ paid["pt"] <= pool["pt"] /\ paid["dr"] <= pool["dr"]
        /\ paid[side] = before
    BY <1>1, <1>4 DEF LedgerInv, PoolsConsistent, Sides
  <1>6. /\ redeemed[side] + amount \in Nat
        /\ redeemed[side] <= redeemed[side] + amount
        /\ redeemed[side] + amount <= redeemed[side] + amount
        /\ pool[side] \in Nat /\ redeemed[side] <= final_supply
    BY <1>1, <1>4
  <1>7. before \in Nat /\ after \in Nat /\ before <= after /\ after <= pool[side]
    BY <1>1, <1>4, <1>6, CumulativeFloorBounds, Zenon
  <1>8. payout = after - before
    BY DEF RedemptionPayout
  <1> HIDE DEF payout, before, after
  <1>9. payout \in Nat /\ payout <= pool[side] - paid[side]
    BY <1>1, <1>5, <1>7, <1>8
  <1>10. Owed = RemainingObligations /\ RemainingObligations \in Nat
    BY <1>1, <1>5 DEF Owed, RemainingObligations, Sides
  <1>11. pool[side] - paid[side] <= RemainingObligations
    BY <1>1, <1>5 DEF RemainingObligations, Sides
  <1>12. payout <= vault /\ vault >= RemainingObligations
    BY <1>1, <1>9, <1>10, <1>11 DEF Sides
  <1>13. RedemptionFits(redeemed[side], amount, final_supply) /\ Burns(h, side, amount)
         /\ ~mint_authority[side]
    BY <1>1, <1>4 DEF RedemptionFits, Burns, Revoked
  <1> QED BY <1>9, <1>12, <1>13 DEF payout

\* recombine and redeem: whoever else left before, in whatever order, and
\* whatever the policy and the scale have become, a holder can leave with any
\* part of what it holds.
THEOREM ExitsAreOpen == Spec => []ExitsStayOpen
  <1>1. ExitInv => ExitsStayOpen
    <2> SUFFICES ASSUME ExitInv, NEW h \in Holders, Healthy(h)
                 PROVE  /\ phase \in {"open", "sealing"} =>
                             \A amount \in 1..claims["pt"][h] :
                               amount <= claims["dr"][h] => RecombineAccepted(h, amount, CurrentGuard)
                        /\ phase = "finalized" =>
                             \A s \in Sides : \A amount \in 1..claims[s][h] :
                               RedeemAccepted(h, s, amount, TRUE, CurrentGuard)
      BY DEF ExitsStayOpen
    <2>1. /\ claims \in [Sides -> [Holders -> Nat]] /\ now \in Nat
          /\ mint.transferable /\ VaultUsable /\ h \notin frozen /\ vault >= Owed
      BY DEF ExitInv, Inv, TypeOK, Healthy
    <2>2. ASSUME phase \in {"open", "sealing"}, NEW amount \in 1..claims["pt"][h],
                 amount <= claims["dr"][h]
          PROVE  RecombineAccepted(h, amount, CurrentGuard)
      <3>1. amount \in Nat /\ amount > 0 /\ \A s \in Sides : amount <= claims[s][h]
        BY <2>1, <2>2 DEF Sides
      <3>2. vault >= nominal_backing
        BY <2>1, <2>2 DEF Owed
      <3>3. /\ amount <= nominal_backing /\ amount <= vault
            /\ \A s \in Sides : Burns(h, s, amount)
        BY <2>1, <2>2, <3>1, <3>2, PairsRecombine
      <3>4. GuardHolds(CurrentGuard, amount)
        BY <2>1, <3>1 DEF GuardHolds, CurrentGuard
      <3> QED BY <2>1, <2>2, <3>1, <3>2, <3>3, <3>4 DEF RecombineAccepted, InspectsForExit
    <2>3. ASSUME phase = "finalized", NEW s \in Sides, NEW amount \in 1..claims[s][h]
          PROVE  RedeemAccepted(h, s, amount, TRUE, CurrentGuard)
      <3> DEFINE payout == RedemptionPayout(redeemed[s], amount, pool[s], final_supply)
      <3>1. amount \in Nat /\ amount > 0 /\ amount <= claims[s][h]
        BY <2>1, <2>3
      <3>2. /\ payout \in Nat /\ payout <= vault /\ vault >= RemainingObligations
            /\ RedemptionFits(redeemed[s], amount, final_supply)
            /\ Burns(h, s, amount) /\ ~mint_authority[s]
        BY <2>1, <2>3, <3>1, SidesRedeem
      <3> HIDE DEF payout
      <3>3. GuardHolds(CurrentGuard, payout)
        BY <2>1, <3>2 DEF GuardHolds, CurrentGuard
      <3> QED BY <2>1, <2>3, <3>1, <3>2, <3>3 DEF RedeemAccepted, InspectsForExit, payout
    <2> QED BY <2>2, <2>3
  <1> QED BY <1>1, ExitInvariance, PTL

-----------------------------------------------------------------------------
(* Holders who trade through guarded quotes.                               *)

\* The fields of a quote that is waiting, and that its series exists.
QuoteShape ==
  /\ quote = [h \in Quoters |-> quote[h]]
  /\ \A h \in Quoters :
       quote[h].kind # "none" =>
         /\ phase # "none"
         /\ quote[h].input \in Amounts
         /\ quote[h].side \in Sides
         /\ quote[h].allow_zero \in BOOLEAN
         /\ quote[h].guard.expected_state_version \in Nat
         /\ quote[h].guard.minimum \in Int

QuoteInv == Inv /\ QuoteShape /\ QuoteCurrent

-----------------------------------------------------------------------------
(* Submissions are steps of the series.                                    *)

\* What the program pays is a natural number, whatever guard a caller sends.
LEMMA PayoutNatural ==
  ASSUME Inv, NEW h \in Holders, NEW amount \in Amounts, NEW side \in Sides, NEW allow_zero,
         NEW guard, Redeem(h, side, amount, allow_zero, guard)
  PROVE  RedemptionPayout(redeemed[side], amount, pool[side], final_supply) \in Nat
  <1> USE SeriesAssumption DEF Inv
  <1>1. /\ final_supply \in Nat /\ final_supply > 0
        /\ redeemed[side] \in Nat /\ pool[side] \in Nat
        /\ redeemed[side] + amount \in Nat /\ redeemed[side] + amount <= final_supply
        /\ redeemed[side] <= redeemed[side] + amount
        /\ redeemed[side] + amount <= redeemed[side] + amount
    BY DEF Redeem, RedeemAccepted, RedemptionFits, TypeOK
  <1> DEFINE before == CumulativeFloor(redeemed[side], pool[side], final_supply)
             after  == CumulativeFloor(redeemed[side] + amount, pool[side], final_supply)
  <1>2. before \in Nat /\ before <= after
    BY <1>1, CumulativeFloorBounds, Zenon
  <1>3. after \in Nat
    BY <1>1, CumulativeFloorBounds, Zenon
  <1>4. RedemptionPayout(redeemed[side], amount, pool[side], final_supply) = after - before
    BY DEF RedemptionPayout
  <1> HIDE DEF before, after
  <1> QED BY <1>2, <1>3, <1>4

\* A call that passes its own guard would pass with the current one.
LEMMA InstructionIsCustody ==
  ASSUME QuoteInv, NEW h \in Quoters, quote[h].kind # "none", Instruction(h, quote[h])
  PROVE  Custody
  <1> DEFINE q == quote[h]
  <1>1. /\ h \in Holders /\ q.input \in Amounts /\ q.side \in Sides /\ q.allow_zero \in BOOLEAN
        /\ q.input \in Nat /\ now \in Nat
    BY QuoteAssumption, SeriesAssumption DEF QuoteInv, QuoteShape, Inv, TypeOK
  <1>2. ASSUME NEW output \in Nat PROVE GuardHolds(CurrentGuard, output)
    BY <1>1 DEF GuardHolds, CurrentGuard
  <1>3. CASE Deposit(h, q.input, q.guard)
    <2>1. Deposit(h, q.input, CurrentGuard)
      BY <1>1, <1>2, <1>3 DEF Deposit, DepositAccepted
    <2> QED BY <1>1, <2>1 DEF Custody
  <1>4. CASE Recombine(h, q.input, q.guard)
    <2>1. Recombine(h, q.input, CurrentGuard)
      BY <1>1, <1>2, <1>4 DEF Recombine, RecombineAccepted
    <2> QED BY <1>1, <2>1 DEF Custody
  <1>5. CASE Redeem(h, q.side, q.input, q.allow_zero, q.guard)
    <2>1. RedemptionPayout(redeemed[q.side], q.input, pool[q.side], final_supply) \in Nat
      BY SMTT(60), <1>1, <1>5, PayoutNatural DEF QuoteInv
    <2>2. Redeem(h, q.side, q.input, q.allow_zero, CurrentGuard)
      BY <1>2, <1>5, <2>1 DEF Redeem, RedeemAccepted
    <2> QED BY <1>1, <2>2 DEF Custody
  <1> QED BY <1>3, <1>4, <1>5 DEF Instruction

\* A client's step is a step of the series or leaves it alone.
LEMMA QuoteStepRefines == QuoteInv /\ [QuoteNext]_quoteVars => [Next]_vars
  <1> SUFFICES ASSUME QuoteInv, [QuoteNext]_quoteVars PROVE [Next]_vars
    OBVIOUS
  <1>1. CASE Quoting
    BY <1>1 DEF Quoting, QuoteDeposit, QuoteRecombine, QuoteRedemption
  <1>2. ASSUME NEW h \in Quoters, Submit(h) PROVE Next
    <2>1. quote[h].kind # "none" /\ Instruction(h, quote[h])
      BY <1>2 DEF Submit, Instruction
    <2> QED BY <2>1, InstructionIsCustody DEF Next
  <1>3. CASE Next /\ UNCHANGED quote
    BY <1>3
  <1>4. CASE UNCHANGED quoteVars
    BY <1>4 DEF quoteVars
  <1> QED BY <1>1, <1>2, <1>3, <1>4 DEF QuoteNext

-----------------------------------------------------------------------------
(* Quotes stay current until the version moves.                            *)

\* How a step of the series looks to a waiting quote.
LEMMA VersionMoves ==
  ASSUME Inv, [Next]_vars, phase # "none"
  PROVE  /\ phase' # "none"
         /\ \/ state_version' = state_version + 1
            \/ UNCHANGED <<state_version, poolVars>>
  <1>1. phase' # "none"
    <2>1. CASE UNCHANGED vars
      BY <2>1 DEF vars
    <2>2. CASE Administration \/ AdvanceClock \/ Issuer \/ Wallets \/ Custody \/ Attestation
      BY <2>2, PhaseSteps
    <2>3. CASE Keeping
      BY <2>3 DEF Keeping, AccumulateEvent, CompleteFinalization
    <2> QED BY <2>1, <2>2, <2>3 DEF Next
  <1>2. \/ state_version' = state_version + 1
        \/ UNCHANGED <<state_version, poolVars>>
    <2>1. CASE UNCHANGED vars
      BY <2>1 DEF vars
    <2>2. CASE Custody \/ Attestation \/ Keeping
      BY <2>2, SeriesSteps DEF vars
    <2>3. CASE Administration \/ AdvanceClock \/ Issuer \/ Wallets
      BY <2>3, OutsideSteps DEF seriesVars
    <2> QED BY <2>1, <2>2, <2>3 DEF Next
  <1> QED BY <1>1, <1>2

\* The part of the invariant about one holder's quote.
Current(q) ==
  q.kind # "none" =>
    /\ phase # "none"
    /\ q.input \in Amounts
    /\ q.side \in Sides
    /\ q.allow_zero \in BOOLEAN
    /\ q.guard.expected_state_version \in Nat
    /\ q.guard.minimum \in Int
    /\ q.guard.expected_state_version <= state_version
    /\ q.guard.expected_state_version = state_version =>
         q.output = IF q.kind = "redeem"
                    THEN RedemptionPayout(redeemed[q.side], q.input, pool[q.side], final_supply)
                    ELSE q.input

\* The invariant, holder by holder.
LEMMA QuoteInvByHolder ==
  QuoteInv <=> /\ Inv
               /\ quote = [h \in Quoters |-> quote[h]]
               /\ \A h \in Quoters : Current(quote[h])
  BY DEF QuoteInv, QuoteShape, QuoteCurrent, Current

\* The same of the next state.
LEMMA QuoteInvByHolderNext ==
  QuoteInv' <=> /\ Inv'
                /\ quote' = [h \in Quoters |-> quote'[h]]
                /\ \A h \in Quoters : Current(quote[h])'
  BY DEF QuoteInv, QuoteShape, QuoteCurrent, Current

\* A quote that waits through a step of the series stays in the past or current.
LEMMA WaitingQuote ==
  ASSUME Inv, [Next]_vars, NEW q, Current(q)
  PROVE  Current(q)'
  <1> SUFFICES ASSUME q.kind # "none" PROVE Current(q)'
    BY DEF Current
  <1>1. phase # "none" /\ state_version \in Nat
    BY DEF Current, Inv, TypeOK
  <1>2. /\ phase' # "none"
        /\ \/ state_version' = state_version + 1
           \/ UNCHANGED <<state_version, poolVars>>
    BY <1>1, VersionMoves
  <1>3. CASE state_version' = state_version + 1
    BY <1>1, <1>2, <1>3 DEF Current
  <1>4. CASE UNCHANGED <<state_version, poolVars>>
    BY <1>2, <1>4 DEF Current, poolVars
  <1> QED BY <1>2, <1>3, <1>4

\* A new quote is current: the SDK's payout is the program's.
LEMMA NewQuote ==
  ASSUME Inv, quote = [g \in Quoters |-> quote[g]], Quoting
  PROVE  /\ quote' = [g \in Quoters |-> quote'[g]]
         /\ \A g \in Quoters : quote'[g] = quote[g] \/ Current(quote'[g])
  <1> USE QuoteAssumption, SeriesAssumption
  <1>0. ASSUME NEW side \in Sides, NEW amount
        PROVE  CumulativeRedemptionPayout(side, amount)
                 = RedemptionPayout(redeemed[side], amount, pool[side], final_supply)
    BY DEF CumulativeRedemptionPayout, RedemptionPayout, CumulativeFloor
  <1>1. ASSUME NEW h \in Quoters, NEW kind, NEW side, NEW amount, NEW output, NEW allow_zero,
               Hold(h, kind, side, amount, output, allow_zero),
               \A minimum \in Int : \A expiry :
                 Current([kind |-> kind, side |-> side, input |-> amount, output |-> output,
                          allow_zero |-> allow_zero, guard |-> QuoteGuard(minimum, expiry)])
        PROVE  /\ quote' = [g \in Quoters |-> quote'[g]]
               /\ \A g \in Quoters : quote'[g] = quote[g] \/ Current(quote'[g])
    <2>1. PICK minimum \in 0..output, expiry \in now..(now + Patience) :
            quote' = [quote EXCEPT ![h] =
              [kind |-> kind, side |-> side, input |-> amount, output |-> output,
               allow_zero |-> allow_zero, guard |-> QuoteGuard(minimum, expiry)]]
      BY <1>1 DEF Hold
    <2>2. minimum \in Int
      OBVIOUS
    <2> DEFINE q == [kind |-> kind, side |-> side, input |-> amount, output |-> output,
                     allow_zero |-> allow_zero, guard |-> QuoteGuard(minimum, expiry)]
    <2>3. Current(q)
      BY <1>1, <2>2
    <2> HIDE DEF q
    <2>4. quote' = [quote EXCEPT ![h] = q]
      BY <2>1 DEF q
    <2> QED BY <2>3, <2>4
  <1>2. state_version \in Nat
    BY DEF Inv, TypeOK
  <1>3. PICK h \in Quoters, amount \in Amounts :
          \/ QuoteDeposit(h, amount)
          \/ QuoteRecombine(h, amount)
          \/ \E side \in Sides, allow_zero \in BOOLEAN : QuoteRedemption(h, side, amount, allow_zero)
    BY DEF Quoting
  <1>4. phase # "none"
    BY <1>3 DEF QuoteDeposit, QuoteRecombine, QuoteRedemption, QuotesDeposit, QuotesRecombine,
       QuotesRedemption, SnapshotValid
  <1>5. ASSUME NEW kind \in {"deposit", "recombine"}, NEW minimum \in Int, NEW expiry
        PROVE  Current([kind |-> kind, side |-> "pt", input |-> amount, output |-> amount,
                        allow_zero |-> FALSE, guard |-> QuoteGuard(minimum, expiry)])
    BY <1>2, <1>4 DEF Current, QuoteGuard, Sides
  <1>6. CASE QuoteDeposit(h, amount) \/ QuoteRecombine(h, amount)
    <2>1. PICK kind \in {"deposit", "recombine"} : Hold(h, kind, "pt", amount, amount, FALSE)
      BY <1>6 DEF QuoteDeposit, QuoteRecombine
    <2> QED BY <1>1, <1>5, <2>1
  <1>7. CASE \E side \in Sides, allow_zero \in BOOLEAN : QuoteRedemption(h, side, amount, allow_zero)
    <2>1. PICK side \in Sides, allow_zero \in BOOLEAN :
            Hold(h, "redeem", side, amount, CumulativeRedemptionPayout(side, amount), allow_zero)
      BY <1>7 DEF QuoteRedemption
    <2>2. ASSUME NEW minimum \in Int, NEW expiry
          PROVE  Current([kind |-> "redeem", side |-> side, input |-> amount,
                          output |-> CumulativeRedemptionPayout(side, amount),
                          allow_zero |-> allow_zero, guard |-> QuoteGuard(minimum, expiry)])
      BY <1>0, <1>2, <1>4 DEF Current, QuoteGuard
    <2> QED BY <1>1, <2>1, <2>2
  <1> QED BY <1>3, <1>6, <1>7

\* No quote, no obligation.
LEMMA EmptyQuoteCurrent == Current(NoQuote)'
  BY DEF Current, NoQuote

\* The invariant is inductive.
LEMMA QuoteInvStep == QuoteInv /\ [QuoteNext]_quoteVars => QuoteInv'
  <1> SUFFICES ASSUME QuoteInv, [QuoteNext]_quoteVars PROVE QuoteInv'
    OBVIOUS
  <1>1. /\ Inv /\ quote = [h \in Quoters |-> quote[h]]
        /\ \A h \in Quoters : Current(quote[h])
    BY QuoteInvByHolder
  <1>2. [Next]_vars
    BY QuoteStepRefines
  <1>3. Inv'
    BY <1>1, <1>2, NextInv
  <1>4. \A q : Current(q) => Current(q)'
    BY <1>1, <1>2, WaitingQuote
  <1>5. CASE Quoting
    <2>1. /\ quote' = [g \in Quoters |-> quote'[g]]
          /\ \A g \in Quoters : quote'[g] = quote[g] \/ Current(quote'[g])
      BY <1>1, <1>5, NewQuote
    <2>2. \A g \in Quoters : Current(quote[g])'
      BY <1>1, <1>4, <2>1
    <2> QED BY <1>3, <2>1, <2>2, QuoteInvByHolderNext
  <1>6. ASSUME NEW h \in Quoters, Submit(h) PROVE QuoteInv'
    <2>1. quote' = [quote EXCEPT ![h] = NoQuote]
      BY <1>6 DEF Submit
    <2>2. /\ quote' = [g \in Quoters |-> quote'[g]]
          /\ \A g \in Quoters : quote'[g] = quote[g] \/ quote'[g] = NoQuote
      BY <1>1, <2>1
    <2>3. \A g \in Quoters : Current(quote[g])'
      BY <1>1, <1>4, <2>2, EmptyQuoteCurrent
    <2> QED BY <1>3, <2>2, <2>3, QuoteInvByHolderNext
  <1>7. CASE UNCHANGED quote
    <2>1. \A g \in Quoters : Current(quote[g])'
      BY <1>1, <1>4, <1>7
    <2> QED BY <1>1, <1>3, <1>7, <2>1, QuoteInvByHolderNext
  <1> QED BY <1>5, <1>6, <1>7 DEF QuoteNext, quoteVars

-----------------------------------------------------------------------------
(* Theorems.                                                               *)

\* The invariant holds: it is what the theorems below are read from.
THEOREM QuoteInvariance == QuoteSpec => []QuoteInv
  <1>1. QuoteInit => QuoteInv
    <2>1. Init => Inv
      BY InitInv
    <2>2. QuoteInit => QuoteShape /\ QuoteCurrent
      BY DEF QuoteInit, NoQuote, QuoteShape, QuoteCurrent
    <2> QED BY <2>1, <2>2 DEF QuoteInit, QuoteInv
  <1> QED
    BY <1>1, QuoteInvStep, PTL DEF QuoteSpec

\* Every quote that waits is of the past, or carries the version check_guard
\* compares and announces what the program would pay now.
THEOREM QuotesCurrent == QuoteSpec => []QuoteCurrent
  BY QuoteInvariance, PTL DEF QuoteInv

\* Clients with old guards can do nothing that AnnualSeries does not allow, so
\* its theorems hold for them.
THEOREM QuotesRefineSeries == QuoteSpec => Spec
  <1>1. QuoteInit => Init
    BY DEF QuoteInit
  <1> QED
    BY <1>1, QuoteStepRefines, QuoteInvariance, PTL DEF QuoteSpec, Spec

\* Only a submission takes a quote away.
LEMMA QuoteConsumed ==
  ASSUME QuoteInv, QuoteNext, NEW h \in Quoters, quote[h].kind # "none", quote'[h].kind = "none"
  PROVE  Instruction(h, quote[h])
  <1>1. quote = [g \in Quoters |-> quote[g]] /\ quote' # quote
    BY DEF QuoteInv, QuoteShape
  <1>2. ASSUME NEW g \in Quoters, NEW kind \in {"deposit", "recombine", "redeem"}, NEW side,
               NEW amount, NEW output, NEW allow_zero, Hold(g, kind, side, amount, output, allow_zero)
        PROVE  FALSE
    <2>1. PICK minimum \in 0..output, expiry \in now..(now + Patience) :
            quote' = [quote EXCEPT ![g] =
              [kind |-> kind, side |-> side, input |-> amount, output |-> output,
               allow_zero |-> allow_zero, guard |-> QuoteGuard(minimum, expiry)]]
      BY <1>2 DEF Hold
    <2> QED BY <1>1, <2>1
  <1>3. ~Quoting
    BY <1>2 DEF Quoting, QuoteDeposit, QuoteRecombine, QuoteRedemption
  <1>4. PICK g \in Quoters : Submit(g)
    BY <1>1, <1>3 DEF QuoteNext
  <1>5. g = h
    BY <1>1, <1>4 DEF Submit
  <1> QED BY <1>4, <1>5 DEF Submit

\* The program fills a quote at the output it announced.
LEMMA QuoteFilled ==
  ASSUME QuoteInv, NEW h \in Quoters, quote[h].kind # "none", Instruction(h, quote[h])
  PROVE  Announced(h, quote[h])
  <1> DEFINE q == quote[h]
  <1>1. Current(q) /\ Inv /\ h \in Holders
    BY QuoteInvByHolder, QuoteAssumption
  <1>2. /\ q.input \in Amounts /\ q.side \in Sides
        /\ claims \in [Sides -> [Holders -> Nat]] /\ collateral \in [Holders -> Nat]
    BY <1>1 DEF Current, Inv, TypeOK
  <1>3. CASE q.kind = "deposit" /\ Deposit(h, q.input, q.guard)
    <2>1. q.output = q.input
      BY <1>1, <1>3 DEF Deposit, DepositAccepted, GuardHolds, Current
    <2> QED BY <1>1, <1>2, <1>3, <2>1 DEF Deposit, DepositAccepted, MintPair, Announced
  <1>4. CASE q.kind = "recombine" /\ Recombine(h, q.input, q.guard)
    <2>1. q.output = q.input
      BY <1>1, <1>4 DEF Recombine, RecombineAccepted, GuardHolds, Current
    <2> QED BY <1>1, <1>2, <1>4, <2>1 DEF Recombine, RecombineAccepted, Burns, BurnPair, TransferFromVault, Announced
  <1>5. CASE q.kind = "redeem" /\ Redeem(h, q.side, q.input, q.allow_zero, q.guard)
    <2> DEFINE payout == RedemptionPayout(redeemed[q.side], q.input, pool[q.side], final_supply)
    <2>1. q.guard.expected_state_version = state_version
      BY <1>5 DEF Redeem, RedeemAccepted, GuardHolds
    <2>2. q.output = payout
      BY <1>1, <1>5, <2>1 DEF Current
    <2>3. /\ collateral' = [collateral EXCEPT ![h] = @ + payout]
          /\ claims' = [claims EXCEPT ![q.side][h] = @ - q.input]
      BY <1>5 DEF Redeem, RedeemAccepted, TransferFromVault
    <2> HIDE DEF payout
    <2> QED BY <1>1, <1>2, <1>5, <2>2, <2>3 DEF Announced
  <1> QED BY <1>3, <1>4, <1>5 DEF Instruction

\* A submitted quote gives exactly what quoteDeposit, quoteRecombine or
\* quoteRedemption announced, for any holders, amounts and interleaving.
THEOREM QuotesExact == QuoteSpec => QuoteExact
  <1> DEFINE A == \A h \in Quoters :
       quote[h].kind # "none" /\ quote'[h].kind = "none" => Announced(h, quote[h])
  <1>1. QuoteInv /\ [QuoteNext]_quoteVars => [A]_quoteVars
    BY QuoteConsumed, QuoteFilled
  <1> QED
    BY <1>1, QuoteInvariance, PTL DEF QuoteSpec, QuoteExact

-----------------------------------------------------------------------------
(* The SDK's copy of the program's rules.                                  *)

\* The holders who use the SDK keep what the series keeps.
LEMMA QuoteExitInvariance == QuoteSpec => []ExitInv
  BY QuotesRefineSeries, ExitInvariance, PTL

\* Quotes are made by holders and of positive amounts.
LEMMA QuotedCalls ==
  (\A x \in Amounts : x \in Nat /\ x > 0) /\ (\A h \in Quoters : h \in Holders)
  BY SeriesAssumption, QuoteAssumption

\* requiredCustodyRaw never finds a series inconsistent, and asks for what the
\* program asks for.
LEMMA CustodyRulesAgree ==
  ASSUME ExitInv
  PROVE  /\ SeriesConsistent
         /\ phase # "finalized" => RequiredCustodyRaw = nominal_backing
         /\ phase = "finalized" => RequiredCustodyRaw = RemainingObligations /\ RequiredCustodyRaw = Owed
  <1>1. /\ TypeOK /\ PoolsConsistent
        /\ pool \in [Sides -> Nat] /\ paid \in [Sides -> Nat] /\ final_supply \in Nat
    BY DEF ExitInv, Inv, LedgerInv, TypeOK
  <1>2. SeriesConsistent
    <2> SUFFICES ASSUME phase = "finalized"
                 PROVE  IF final_supply = 0
                        THEN \A s \in Sides : pool[s] = 0 /\ redeemed[s] = 0 /\ paid[s] = 0
                        ELSE /\ pool["pt"] + pool["dr"] = final_supply
                             /\ \A s \in Sides :
                                  /\ redeemed[s] <= final_supply
                                  /\ paid[s] <= pool[s]
                                  /\ paid[s] = (redeemed[s] * pool[s]) \div final_supply
      BY DEF SeriesConsistent
    <2>1. CASE final_supply = 0
      BY <1>1, <2>1 DEF PoolsConsistent, Sides
    <2>2. CASE final_supply # 0
      BY <1>1, <2>2 DEF PoolsConsistent, CumulativeFloor
    <2> QED BY <2>1, <2>2
  <1>3. phase = "finalized" => RequiredCustodyRaw = RemainingObligations /\ RequiredCustodyRaw = Owed
    BY <1>1 DEF RequiredCustodyRaw, RemainingObligations, Owed, PoolsConsistent, Sides
  <1> QED BY <1>2, <1>3 DEF RequiredCustodyRaw

\* depositsOpen is what deposit requires of the series, the policy and the mint.
LEMMA DepositRulesAgree ==
  ASSUME ExitInv, mint.transferable
  PROVE  DepositsOpen <=> /\ phase = "open" /\ FundingJournalOpen /\ now < Start /\ Admitted
                          /\ vault >= nominal_backing
  <1>1. SeriesConsistent /\ (phase = "open" => RequiredCustodyRaw = nominal_backing)
    BY CustodyRulesAgree
  <1>2. now \in Nat /\ asset.valid_until \in Nat
    BY DEF ExitInv, Inv, TypeOK
  <1>3. ScaleTuple(mint, now) =
          [current |-> mint.current, new |-> mint.new, effective |-> mint.effective,
           active |-> IF now >= mint.effective THEN mint.new ELSE mint.current]
    BY DEF ScaleTuple, ActiveBits
  <1> HIDE DEF ScaleTuple
  <1>4. MintProfileMatchesPolicy <=> /\ InspectsMint /\ mint.controls = asset.controls
                                     /\ ScaleTuple(mint, now) = asset.scale
    BY <1>3 DEF MintProfileMatchesPolicy, InspectsMint, InspectsForExit
  <1> QED BY <1>1, <1>2, <1>4 DEF DepositsOpen, CustodyHealthy, FundingJournalOpen, Admitted, ReviewedProfile

\* deriveEligibility and the three quotes accept what deposit, recombine and
\* redeem accept: in no reachable state is the SDK laxer or stricter.
THEOREM ClientIsRight == QuoteSpec => []ClientAgrees
  <1>1. ExitInv => ClientAgrees
    <2> SUFFICES ASSUME ExitInv, NEW h \in Quoters, NEW amount \in Amounts
                 PROVE  /\ nominal_backing + amount <= MaxRaw =>
                             (QuotesDeposit(h, amount) <=>
                                DepositAccepted(h, amount, QuoteGuard(amount, now)))
                        /\ QuotesRecombine(h, amount) <=>
                             RecombineAccepted(h, amount, QuoteGuard(amount, now))
                        /\ \A side \in Sides, allow_zero \in BOOLEAN :
                             QuotesRedemption(h, side, amount, allow_zero) <=>
                               RedeemAccepted(h, side, amount, allow_zero, QuoteGuard(0, now))
      BY DEF ClientAgrees
    <2>1. /\ amount \in Nat /\ amount > 0 /\ h \in Holders /\ now \in Nat
          /\ phase \in {"none", "open", "sealing", "finalized"}
      BY SeriesAssumption, QuoteAssumption DEF ExitInv, Inv, TypeOK, Phases
    <2>2. /\ SeriesConsistent
          /\ phase # "finalized" => RequiredCustodyRaw = nominal_backing
          /\ phase = "finalized" => RequiredCustodyRaw = RemainingObligations /\ RequiredCustodyRaw = Owed
      BY CustodyRulesAgree
    <2>3. GuardHolds(QuoteGuard(amount, now), amount)
      BY <2>1 DEF GuardHolds, QuoteGuard
    <2>4. SnapshotValid(h) <=> phase # "none" /\ InspectsForExit /\ VaultUsable /\ h \notin frozen
      BY DEF SnapshotValid, InspectsForExit, VaultUsable
    <2>5. ASSUME nominal_backing + amount <= MaxRaw
          PROVE  QuotesDeposit(h, amount) <=> DepositAccepted(h, amount, QuoteGuard(amount, now))
      <3>1. phase = "open" => \A s \in Sides : mint_authority[s]
        BY DEF ExitInv, Minting
      <3>2. InspectsForExit => (DepositsOpen <=> /\ phase = "open" /\ FundingJournalOpen /\ now < Start
                                                 /\ Admitted /\ vault >= nominal_backing)
        BY DepositRulesAgree DEF InspectsForExit
      <3>3. Admitted => InspectsForExit
        BY DEF Admitted, ReviewedProfile, InspectsMint
      <3> QED BY <2>1, <2>3, <2>4, <2>5, <3>1, <3>2, <3>3 DEF QuotesDeposit, DepositAccepted
    <2>6. QuotesRecombine(h, amount) <=> RecombineAccepted(h, amount, QuoteGuard(amount, now))
      <3>1. ASSUME QuotesRecombine(h, amount)
            PROVE  RecombineAccepted(h, amount, QuoteGuard(amount, now))
        <4>1. /\ SnapshotValid(h) /\ phase \in {"open", "sealing"} /\ vault >= nominal_backing
              /\ \A s \in Sides : amount <= claims[s][h]
          BY <2>1, <2>2, <3>1 DEF QuotesRecombine, SnapshotValid, CustodyHealthy, Sides
        <4>2. /\ amount <= nominal_backing /\ amount <= vault
              /\ \A s \in Sides : Burns(h, s, amount)
          BY <2>1, <4>1, PairsRecombine
        <4> QED BY <2>1, <2>3, <2>4, <4>1, <4>2 DEF RecombineAccepted
      <3>2. ASSUME RecombineAccepted(h, amount, QuoteGuard(amount, now))
            PROVE  QuotesRecombine(h, amount)
        <4>1. /\ phase \in {"open", "sealing"} /\ vault >= nominal_backing /\ amount <= nominal_backing
              /\ InspectsForExit /\ VaultUsable /\ h \notin frozen
              /\ \A s \in Sides : amount <= claims[s][h]
          BY <3>2 DEF RecombineAccepted, Burns
        <4> QED BY <2>2, <2>4, <4>1 DEF QuotesRecombine, CustodyHealthy, Sides
      <3> QED BY <3>1, <3>2
    <2>7. ASSUME NEW side \in Sides, NEW allow_zero \in BOOLEAN
          PROVE  QuotesRedemption(h, side, amount, allow_zero) <=>
                   RedeemAccepted(h, side, amount, allow_zero, QuoteGuard(0, now))
      <3> DEFINE payout == RedemptionPayout(redeemed[side], amount, pool[side], final_supply)
      <3>0. CumulativeRedemptionPayout(side, amount) = payout
        BY DEF CumulativeRedemptionPayout, RedemptionPayout, CumulativeFloor
      <3> HIDE DEF payout
      <3>1. ASSUME QuotesRedemption(h, side, amount, allow_zero)
            PROVE  RedeemAccepted(h, side, amount, allow_zero, QuoteGuard(0, now))
        <4>1. /\ SnapshotValid(h) /\ phase = "finalized" /\ vault >= Owed
              /\ amount <= claims[side][h] /\ (payout > 0 \/ allow_zero)
          BY <2>2, <3>0, <3>1 DEF QuotesRedemption, CustodyHealthy
        <4>2. /\ payout \in Nat /\ payout <= vault /\ vault >= RemainingObligations
              /\ RedemptionFits(redeemed[side], amount, final_supply)
              /\ Burns(h, side, amount) /\ ~mint_authority[side]
          BY <2>1, <4>1, SidesRedeem DEF payout
        <4>3. GuardHolds(QuoteGuard(0, now), payout)
          BY <2>1, <4>2 DEF GuardHolds, QuoteGuard
        <4> QED BY <2>1, <2>4, <4>1, <4>2, <4>3 DEF RedeemAccepted, payout
      <3>2. ASSUME RedeemAccepted(h, side, amount, allow_zero, QuoteGuard(0, now))
            PROVE  QuotesRedemption(h, side, amount, allow_zero)
        <4>1. /\ phase = "finalized" /\ vault >= RemainingObligations
              /\ InspectsForExit /\ VaultUsable /\ h \notin frozen
              /\ amount <= claims[side][h] /\ (payout > 0 \/ allow_zero)
              /\ RedemptionFits(redeemed[side], amount, final_supply)
          BY <3>2 DEF RedeemAccepted, Burns, payout
        <4> QED BY <2>2, <2>4, <3>0, <4>1 DEF QuotesRedemption, CustodyHealthy, RedemptionFits
      <3> QED BY <3>1, <3>2
    <2> QED BY <2>5, <2>6, <2>7
  <1> QED BY <1>1, QuoteExitInvariance, PTL

-----------------------------------------------------------------------------
(* Quotes to leave.  A redemption is quoted only of a finalized series and *)
(* that is for good; a recombination is quoted before, and the step that   *)
(* ends its time bumps the version.                                        *)

Fillable(q) ==
  q.kind # "none" =>
    /\ q.guard.minimum <= q.output
    /\ q.kind = "redeem" => phase = "finalized"
    /\ q.kind = "recombine" /\ q.guard.expected_state_version = state_version =>
         phase \in {"open", "sealing"}

FillInv == \A h \in Quoters : Fillable(quote[h])

\* The phase moves with the version, and never from the end.
LEMMA PhaseMoves ==
  ASSUME Inv, [Next]_vars, phase # "none"
  PROVE  /\ state_version' = state_version => phase' = phase
         /\ phase = "finalized" => phase' = "finalized"
  <1>1. CASE UNCHANGED vars
    BY <1>1 DEF vars
  <1>2. CASE Custody \/ Attestation \/ Keeping
    <2>1. state_version' = state_version => phase' = phase
      BY <1>2, SeriesSteps DEF Inv, TypeOK, vars
    <2>2. phase = "finalized" => phase' = "finalized"
      <3>1. CASE Custody
        BY <3>1 DEF Custody, Deposit, Recombine, Redeem
      <3>2. CASE Attestation
        BY <3>2 DEF Attestation, UpsertEvent, BeginFinalization, AbortFinalization
      <3>3. CASE Keeping
        BY <3>3 DEF Keeping, AccumulateEvent, CompleteFinalization
      <3> QED BY <1>2, <3>1, <3>2, <3>3
    <2> QED BY <2>1, <2>2
  <1>3. CASE Administration \/ AdvanceClock \/ Issuer \/ Wallets
    BY <1>3, OutsideSteps DEF seriesVars
  <1> QED BY <1>1, <1>2, <1>3 DEF Next

\* A quote that waits stays as fillable as it was.
LEMMA WaitingFill ==
  ASSUME Inv, [Next]_vars, NEW q, Current(q), Fillable(q)
  PROVE  Fillable(q)'
  <1> SUFFICES ASSUME q.kind # "none" PROVE Fillable(q)'
    BY DEF Fillable
  <1>1. /\ phase # "none" /\ state_version \in Nat /\ q.guard.expected_state_version \in Nat
        /\ q.guard.expected_state_version <= state_version
    BY DEF Current, Inv, TypeOK
  <1>2. /\ state_version' = state_version => phase' = phase
        /\ phase = "finalized" => phase' = "finalized"
        /\ state_version' = state_version + 1 \/ state_version' = state_version
    BY <1>1, PhaseMoves, VersionMoves
  <1>3. CASE state_version' = state_version
    BY <1>2, <1>3 DEF Fillable
  <1>4. CASE state_version' = state_version + 1
    <2>1. q.guard.expected_state_version # state_version'
      BY <1>1, <1>4
    <2> QED BY <1>2, <2>1 DEF Fillable
  <1> QED BY <1>2, <1>3, <1>4

\* A new quote is fillable.
LEMMA NewFill ==
  ASSUME Inv, quote = [g \in Quoters |-> quote[g]], Quoting
  PROVE  \A g \in Quoters : quote'[g] = quote[g] \/ Fillable(quote'[g])
  <1>1. PICK h \in Quoters, amount \in Amounts :
          \/ QuoteDeposit(h, amount)
          \/ QuoteRecombine(h, amount)
          \/ \E side \in Sides, allow_zero \in BOOLEAN : QuoteRedemption(h, side, amount, allow_zero)
    BY DEF Quoting
  <1>2. ASSUME NEW kind, NEW side, NEW output, NEW allow_zero,
               Hold(h, kind, side, amount, output, allow_zero),
               kind = "redeem" => phase = "finalized",
               kind = "recombine" => phase \in {"open", "sealing"}
        PROVE  \A g \in Quoters : quote'[g] = quote[g] \/ Fillable(quote'[g])
    <2>1. PICK minimum \in 0..output, expiry \in now..(now + Patience) :
            quote' = [quote EXCEPT ![h] =
              [kind |-> kind, side |-> side, input |-> amount, output |-> output,
               allow_zero |-> allow_zero, guard |-> QuoteGuard(minimum, expiry)]]
      BY <1>2 DEF Hold
    <2> DEFINE q == [kind |-> kind, side |-> side, input |-> amount, output |-> output,
                     allow_zero |-> allow_zero, guard |-> QuoteGuard(minimum, expiry)]
    <2>2. minimum <= output
      BY <2>1
    <2>3. Fillable(q)
      BY <1>2, <2>2 DEF Fillable, QuoteGuard
    <2> HIDE DEF q
    <2>4. quote' = [quote EXCEPT ![h] = q]
      BY <2>1 DEF q
    <2> QED BY <2>3, <2>4
  <1>3. CASE QuoteDeposit(h, amount)
    BY <1>2, <1>3 DEF QuoteDeposit
  <1>4. CASE QuoteRecombine(h, amount)
    <2>1. Hold(h, "recombine", "pt", amount, amount, FALSE) /\ phase \in {"open", "sealing"}
      BY <1>4 DEF QuoteRecombine, QuotesRecombine, SnapshotValid, Inv, TypeOK, Phases
    <2> QED BY <1>2, <2>1
  <1>5. ASSUME NEW side \in Sides, NEW allow_zero \in BOOLEAN,
               QuoteRedemption(h, side, amount, allow_zero)
        PROVE  \A g \in Quoters : quote'[g] = quote[g] \/ Fillable(quote'[g])
    <2>1. /\ Hold(h, "redeem", side, amount, CumulativeRedemptionPayout(side, amount), allow_zero)
          /\ phase = "finalized"
      BY <1>5 DEF QuoteRedemption, QuotesRedemption
    <2> QED BY <1>2, <2>1
  <1> QED BY <1>1, <1>3, <1>4, <1>5

LEMMA FillStep == QuoteInv /\ FillInv /\ [QuoteNext]_quoteVars => FillInv'
  <1> SUFFICES ASSUME QuoteInv, FillInv, [QuoteNext]_quoteVars, NEW g \in Quoters
               PROVE  Fillable(quote[g])'
    BY DEF FillInv
  <1>1. /\ Inv /\ quote = [h \in Quoters |-> quote[h]]
        /\ \A h \in Quoters : Current(quote[h]) /\ Fillable(quote[h])
    BY QuoteInvByHolder DEF FillInv
  <1>2. [Next]_vars
    BY QuoteStepRefines
  <1>3. \A q : Current(q) /\ Fillable(q) => Fillable(q)'
    BY <1>1, <1>2, WaitingFill
  <1>4. CASE Quoting
    <2>1. UNCHANGED vars
      BY <1>4 DEF Quoting, QuoteDeposit, QuoteRecombine, QuoteRedemption
    <2>2. UNCHANGED <<phase, state_version>>
      BY <2>1 DEF vars
    <2>3. quote'[g] = quote[g] \/ Fillable(quote'[g])
      BY <1>1, <1>4, NewFill
    <2> QED BY <1>1, <2>2, <2>3 DEF Fillable
  <1>5. ASSUME NEW h \in Quoters, Submit(h) PROVE Fillable(quote[g])'
    <2>1. quote' = [quote EXCEPT ![h] = NoQuote]
      BY <1>5 DEF Submit
    <2>2. quote'[g] = quote[g] \/ quote'[g] = NoQuote
      BY <1>1, <2>1
    <2>3. CASE quote'[g] = NoQuote
      BY <2>3 DEF Fillable, NoQuote
    <2> QED BY <1>1, <1>3, <2>2, <2>3
  <1>6. CASE UNCHANGED quote
    BY <1>1, <1>3, <1>6
  <1> QED BY <1>4, <1>5, <1>6 DEF QuoteNext, quoteVars

\* check_guard and the exits: a quote to recombine or redeem that is current and
\* in time is filled, unless its holder moved the claims or the issuer used its
\* powers.
THEOREM ExitQuotesAreHonoured == QuoteSpec => []ExitQuoteHonoured
  <1>1. QuoteInit => FillInv
    BY DEF QuoteInit, FillInv, Fillable, NoQuote
  <1>2. QuoteInv /\ FillInv /\ ExitInv => ExitQuoteHonoured
    <2> SUFFICES ASSUME QuoteInv, FillInv, ExitInv, NEW h \in Quoters,
                        quote[h].kind \in {"recombine", "redeem"}, Builds(quote[h]),
                        quote[h].guard.expected_state_version = state_version,
                        now <= quote[h].guard.expiry,
                        SnapshotValid(h), vault >= RequiredCustodyRaw,
                        \A s \in (IF quote[h].kind = "redeem" THEN {quote[h].side} ELSE Sides) :
                          quote[h].input <= claims[s][h]
                 PROVE  /\ quote[h].kind = "recombine" =>
                             RecombineAccepted(h, quote[h].input, quote[h].guard)
                        /\ quote[h].kind = "redeem" =>
                             RedeemAccepted(h, quote[h].side, quote[h].input, quote[h].allow_zero,
                                            quote[h].guard)
      BY DEF ExitQuoteHonoured
    <2> DEFINE q == quote[h]
    <2>1. Current(q) /\ Fillable(q) /\ q.kind # "none"
      BY QuoteInvByHolder DEF FillInv
    <2>2. /\ q.input \in Amounts /\ q.side \in Sides /\ q.allow_zero \in BOOLEAN
          /\ q.guard.minimum \in Int /\ q.guard.minimum <= q.output
          /\ q.kind = "redeem" => phase = "finalized"
          /\ q.kind = "recombine" => phase \in {"open", "sealing"}
          /\ q.output = IF q.kind = "redeem"
                        THEN RedemptionPayout(redeemed[q.side], q.input, pool[q.side], final_supply)
                        ELSE q.input
      BY <2>1 DEF Current, Fillable
    <2>3. q.input \in Nat /\ q.input > 0 /\ h \in Holders
      BY <2>2, QuotedCalls, Zenon
    <2>4. /\ InspectsForExit /\ VaultUsable /\ h \notin frozen
          /\ q.kind = "redeem" => q.allow_zero \/ q.guard.minimum > 0
          /\ q.guard.expected_state_version = state_version /\ now <= q.guard.expiry
          /\ q.kind = "recombine" => \A s \in Sides : q.input <= claims[s][h]
          /\ q.kind = "redeem" => q.input <= claims[q.side][h]
      BY DEF SnapshotValid, InspectsForExit, VaultUsable, Builds
    <2>5. /\ phase # "finalized" => vault >= nominal_backing
          /\ phase = "finalized" => vault >= Owed
      BY CustodyRulesAgree
    <2> HIDE DEF q
    <2>6. ASSUME q.kind = "recombine" PROVE RecombineAccepted(h, q.input, q.guard)
      <3>1. vault >= nominal_backing
        BY <2>2, <2>5, <2>6
      <3>2. /\ q.input <= nominal_backing /\ q.input <= vault
            /\ \A s \in Sides : Burns(h, s, q.input)
        BY <2>3, <2>4, <2>6, <3>1, PairsRecombine
      <3>3. GuardHolds(q.guard, q.input)
        BY <2>2, <2>3, <2>4, <2>6 DEF GuardHolds
      <3> QED BY <2>2, <2>3, <2>4, <2>6, <3>1, <3>2, <3>3 DEF RecombineAccepted
    <2>7. ASSUME q.kind = "redeem" PROVE RedeemAccepted(h, q.side, q.input, q.allow_zero, q.guard)
      <3> DEFINE payout == RedemptionPayout(redeemed[q.side], q.input, pool[q.side], final_supply)
      <3>1. phase = "finalized" /\ vault >= Owed /\ q.output = payout
        BY <2>2, <2>5, <2>7
      <3>2. /\ payout \in Nat /\ payout <= vault /\ vault >= RemainingObligations
            /\ RedemptionFits(redeemed[q.side], q.input, final_supply)
            /\ Burns(h, q.side, q.input) /\ ~mint_authority[q.side]
        BY <2>2, <2>3, <2>4, <2>7, <3>1, SidesRedeem
      <3> HIDE DEF payout
      <3>3. GuardHolds(q.guard, payout) /\ (payout > 0 \/ q.allow_zero)
        BY <2>2, <2>4, <2>7, <3>1, <3>2 DEF GuardHolds
      <3> QED BY <2>3, <2>4, <3>1, <3>2, <3>3 DEF RedeemAccepted, payout
    <2> QED BY <2>6, <2>7 DEF q
  <1> QED
    BY <1>1, <1>2, FillStep, QuoteInvariance, QuoteExitInvariance, PTL DEF QuoteSpec

=============================================================================
