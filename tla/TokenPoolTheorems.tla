-------------------------- MODULE TokenPoolTheorems --------------------------
(***************************************************************************)
(* Two contracts that hold tokens, each for every number of accounts: the  *)
(* token contract conserves its supply, whatever the maximum amount, and   *)
(* poolcontract's books add up, whatever is staked and unstaked, and until *)
(* a number leaves its width it pays no reward and divides by no zero.     *)
(* They share no variable; what they share is AccountSumsTheorems.         *)
(***************************************************************************)
EXTENDS CelesToken, PoolStake, AccountSumsTheorems

(* SupplyIsHeld alone is not inductive: opening or losing a row must not   *)
(* change a balance, so rows and balances are tied together, and the bound *)
(* on the supply needs issue's check against max_supply.                   *)
TokenInv == /\ TypeOK
            /\ \A a \in Account : balance[a] >= 0
            /\ \A a \in Account \ rows : balance[a] = 0
            /\ SupplyIsHeld
            /\ ~created => max_supply = 0
            /\ 0 <= supply /\ supply <= max_supply

LEMMA TokenInit == Init => TokenInv
<1> SUFFICES ASSUME Init PROVE TokenInv
  OBVIOUS
<1>1. /\ N \in Nat /\ MaxAmount \in Nat
      /\ created = FALSE /\ issuer = 0 /\ max_supply = 0 /\ supply = 0 /\ rows = {}
      /\ balance = [a \in 1..N |-> 0]
  BY TokenAssumption DEF TokenAssumption, Init, Account
<1>2. TypeOK
  <2>1. created \in BOOLEAN
    BY <1>1, Zenon
  <2>2. issuer \in 0..N /\ max_supply \in 0..MaxAmount /\ supply \in Int
    BY <1>1
  <2>3. rows \in SUBSET Existing /\ balance \in [Account -> Int]
    BY <1>1 DEF Account
  <2>4. QED  BY <2>1, <2>2, <2>3 DEF TypeOK
<1>3. AccountTotal(balance, N) = 0
  BY <1>1, AccountTotalZero
<1>4. QED  BY <1>1, <1>2, <1>3 DEF TokenInv, SupplyIsHeld, Account

(* What crediting and debiting do to the total.                            *)
LEMMA CreditTotal ==
  ASSUME NEW b \in [Account -> Int], NEW o \in Account, NEW q \in Int
  PROVE  /\ Credited(b, o, q) \in [Account -> Int]
         /\ AccountTotal(Credited(b, o, q), N) = AccountTotal(b, N) + q
<1> USE TokenAssumption DEF TokenAssumption, Account, Credited
<1>1. /\ Credited(b, o, q) \in [Account -> Int]
      /\ Credited(b, o, q)[o] = b[o] + q
      /\ \A i \in Account : i # o => Credited(b, o, q)[i] = b[i]
  OBVIOUS
<1>2. AccountTotal(Credited(b, o, q), N) = AccountTotal(b, N) - b[o] + (b[o] + q)
  <2> HIDE DEF Credited
  <2>1. QED  BY <1>1, AccountTotalChange
<1>3. AccountTotal(b, N) \in Int /\ b[o] \in Int
  BY AccountTotalType
<1>4. QED  BY <1>1, <1>2, <1>3

LEMMA DebitTotal ==
  ASSUME NEW b \in [Account -> Int], NEW o \in Account, NEW q \in Int
  PROVE  /\ Debited(b, o, q) \in [Account -> Int]
         /\ AccountTotal(Debited(b, o, q), N) = AccountTotal(b, N) - q
<1>1. Debited(b, o, q) = Credited(b, o, -q)
  BY DEF Debited, Credited, Account
<1>2. /\ Credited(b, o, -q) \in [Account -> Int]
      /\ AccountTotal(Credited(b, o, -q), N) = AccountTotal(b, N) + (-q)
  BY CreditTotal
<1>3. AccountTotal(b, N) \in Int
  BY AccountTotalType, TokenAssumption DEF TokenAssumption, Account
<1>4. QED  BY <1>1, <1>2, <1>3

LEMMA TokenStep == TokenInv /\ [Next]_vars => TokenInv'
<1> SUFFICES ASSUME TokenInv, [Next]_vars PROVE TokenInv'
  OBVIOUS
<1>a. N \in Nat /\ Existing \subseteq 1..N /\ MaxAmount \in Nat
  BY TokenAssumption DEF TokenAssumption
<1>t. /\ created \in BOOLEAN /\ issuer \in 0..N /\ max_supply \in 0..MaxAmount
      /\ supply \in Int /\ rows \subseteq Existing /\ balance \in [Account -> Int]
  BY DEF TokenInv, TypeOK
<1>i. /\ \A a \in Account : balance[a] \in Int /\ balance[a] >= 0
      /\ \A a \in Account \ rows : balance[a] = 0
      /\ supply = AccountTotal(balance, N)
      /\ ~created => max_supply = 0
      /\ 0 <= supply /\ supply <= max_supply
  BY <1>t DEF TokenInv, SupplyIsHeld
<1>1. CASE UNCHANGED vars
  BY <1>1 DEF vars, TokenInv, TypeOK, SupplyIsHeld
<1>2. ASSUME NEW i \in Account, NEW max \in Quantity, Create(i, max)
      PROVE  TokenInv'
  <2>1. created' \in BOOLEAN /\ (~created' => max_supply' = 0)
    BY <1>2, Zenon DEF Create
  <2>2. TypeOK'
    BY <1>2, <1>a, <1>t, <2>1 DEF Create, TypeOK, Account, Quantity
  <2>3. max_supply' \in Nat /\ supply' = supply /\ supply = 0 /\ balance' = balance /\ rows' = rows
    BY <1>2, <1>a, <1>t, <1>i DEF Create, Quantity
  <2>4. supply' = AccountTotal(balance', N) /\ 0 <= supply' /\ supply' <= max_supply'
    <3>1. supply' = AccountTotal(balance', N)
      BY <1>i, <2>3, Zenon
    <3>2. supply' = 0 /\ max_supply' \in Nat
      BY <2>3
    <3>3. 0 <= supply' /\ supply' <= max_supply'
      BY <3>2, SMT
    <3>4. QED  BY <3>1, <3>3
  <2>5. /\ \A a \in Account : balance'[a] >= 0
        /\ \A a \in Account \ rows' : balance'[a] = 0
    BY <1>i, <2>3
  <2>6. QED  BY <2>1, <2>2, <2>4, <2>5 DEF TokenInv, SupplyIsHeld
<1>3. ASSUME NEW q \in Quantity, Issue(q) PROVE TokenInv'
  <2>1. issuer \in Account /\ issuer \in Existing /\ q \in Int /\ q > 0 /\ supply + q <= max_supply
    BY <1>3, <1>a, <1>t DEF Issue, Account, Quantity
  <2>2. balance' \in [Account -> Int] /\ AccountTotal(balance', N) = supply'
    BY <1>3, <1>t, <1>i, <2>1, CreditTotal DEF Issue
  <2>3. /\ \A a \in Account : balance'[a] = IF a = issuer THEN balance[a] + q ELSE balance[a]
        /\ rows' = rows \union {issuer} /\ supply' = supply + q
    BY <1>3, <1>t DEF Issue, Credited
  <2>4. created' \in BOOLEAN /\ (~created' => max_supply' = 0)
    BY <1>3, Zenon DEF Issue
  <2>5. issuer' = issuer /\ max_supply' = max_supply
    BY <1>3 DEF Issue
  <2>6. TypeOK'
    BY <1>a, <1>t, <2>1, <2>2, <2>3, <2>4, <2>5 DEF TypeOK, Account
  <2>7. QED  BY <1>a, <1>t, <1>i, <2>1, <2>2, <2>3, <2>4, <2>5, <2>6 DEF TokenInv, SupplyIsHeld
<1>4. ASSUME NEW q \in Quantity, Retire(q) PROVE TokenInv'
  <2>1. issuer \in Account /\ issuer \in rows /\ q \in Int /\ q > 0 /\ q <= balance[issuer]
    BY <1>4, <1>a, <1>t DEF Retire, Covers, Account, Quantity
  <2>2. balance' \in [Account -> Int] /\ AccountTotal(balance', N) = supply'
    BY <1>4, <1>t, <1>i, <2>1, DebitTotal DEF Retire
  <2>3. /\ \A a \in Account : balance'[a] = IF a = issuer THEN balance[a] - q ELSE balance[a]
        /\ rows' = rows /\ supply' = supply - q
    BY <1>4, <1>t DEF Retire, Debited
  <2>4. created' \in BOOLEAN /\ (~created' => max_supply' = 0)
    BY <1>4, Zenon DEF Retire
  <2>5. issuer' = issuer /\ max_supply' = max_supply
    BY <1>4 DEF Retire
  <2>6. TypeOK'
    BY <1>a, <1>t, <2>1, <2>2, <2>3, <2>4, <2>5 DEF TypeOK, Account
  <2>7. \A a \in Account : balance'[a] \in Int /\ balance'[a] >= 0
    BY <1>i, <2>1, <2>3
  <2>8. supply' >= 0
    BY <1>a, <2>2, <2>7, AccountTotalNat DEF Account
  <2>9. QED  BY <1>a, <1>t, <1>i, <2>1, <2>2, <2>3, <2>4, <2>5, <2>6, <2>7, <2>8 DEF TokenInv, SupplyIsHeld
<1>5. ASSUME NEW from \in Account, NEW to \in Account, NEW q \in Quantity, Transfer(from, to, q)
      PROVE  TokenInv'
  <2> DEFINE paid == Debited(balance, from, q)
  <2>1. from # to /\ to \in Existing /\ from \in rows /\ q \in Int /\ q > 0 /\ q <= balance[from]
    BY <1>5 DEF Transfer, Covers, IsAccount, Quantity
  <2>2. /\ paid \in [Account -> Int]
        /\ AccountTotal(paid, N) = AccountTotal(balance, N) - q
    BY <1>t, <2>1, DebitTotal
  <2>3. balance' = Credited(paid, to, q) /\ rows' = rows \union {to}
    BY <1>5 DEF Transfer
  <2>4. balance' \in [Account -> Int] /\ AccountTotal(balance', N) = supply
    <3> HIDE DEF paid
    <3>1. /\ balance' \in [Account -> Int]
          /\ AccountTotal(balance', N) = AccountTotal(paid, N) + q
      BY <2>1, <2>2, <2>3, CreditTotal
    <3>2. QED  BY <1>t, <1>i, <2>1, <2>2, <3>1
  <2>5. \A a \in Account : balance'[a] = IF a = from THEN balance[a] - q
                                         ELSE IF a = to THEN balance[a] + q ELSE balance[a]
    BY <1>t, <2>1, <2>3 DEF Credited, Debited
  <2> HIDE DEF paid
  <2>6. created' \in BOOLEAN /\ (~created' => max_supply' = 0)
    BY <1>5, Zenon, <1>t, <1>i DEF Transfer
  <2>7. issuer' = issuer /\ max_supply' = max_supply /\ supply' = supply
    BY <1>5 DEF Transfer
  <2>8. TypeOK'
    BY <1>a, <1>t, <2>1, <2>3, <2>4, <2>6, <2>7 DEF TypeOK, Account
  <2>9. \A a \in Account : balance'[a] >= 0
    BY <1>i, <2>1, <2>5
  <2>10. \A a \in Account \ rows' : balance'[a] = 0
    BY <1>i, <2>1, <2>3, <2>5
  <2>11. QED  BY <1>i, <2>4, <2>6, <2>7, <2>8, <2>9, <2>10 DEF TokenInv, SupplyIsHeld
<1>6. ASSUME NEW owner \in Account, Open(owner) PROVE TokenInv'
  BY <1>6 DEF Open, IsAccount, TokenInv, TypeOK, SupplyIsHeld
<1>7. ASSUME NEW owner \in Account, Close(owner) PROVE TokenInv'
  BY <1>7 DEF Close, TokenInv, TypeOK, SupplyIsHeld
<1>8. QED
  BY <1>1, <1>2, <1>3, <1>4, <1>5, <1>6, <1>7 DEF Next

LEMMA TokenInvariance == Spec => []TokenInv
BY TokenInit, TokenStep, PTL DEF Spec

(* Every state of the token contract is well typed; in particular only     *)
(* accounts known to the chain have balance rows.                          *)
THEOREM TokenTypeCorrect == Spec => []TypeOK
<1>1. TokenInv => TypeOK
  BY DEF TokenInv
<1>2. QED  BY <1>1, TokenInvariance, PTL

(* The balances of the holders always add up to the supply.                *)
THEOREM SupplyConserved == Spec => []SupplyIsHeld
<1>1. TokenInv => SupplyIsHeld
  BY DEF TokenInv
<1>2. QED  BY <1>1, TokenInvariance, PTL

(* No balance is negative or exceeds the maximum supply: with the supply   *)
(* held by non-negative balances, none can exceed it.                      *)
THEOREM BalancesAreBounded == Spec => []BalancesBounded
<1>1. TokenInv => BalancesBounded
  <2> SUFFICES ASSUME TokenInv PROVE BalancesBounded
    OBVIOUS
  <2> USE TokenAssumption DEF TokenAssumption, TokenInv, TypeOK, Account
  <2>1. \A i \in 1..N : balance[i] \in Nat
    OBVIOUS
  <2>2. \A i \in 1..N : balance[i] <= supply
    BY <2>1, AccountTotalNat DEF SupplyIsHeld
  <2>3. QED  BY <2>1, <2>2 DEF BalancesBounded
<1>2. QED  BY <1>1, TokenInvariance, PTL
-----------------------------------------------------------------------------
(* The pool of poolcontract.  Its totals alone are not inductive: that the *)
(* two reward amounts keep their distance is needed for what a settlement  *)
(* divides by.  As long as no number has left its width, the coefficient   *)
(* is ahead of every row's blocks, so that no settlement pays; and that in *)
(* turn needs the stake that opened the pool, which keeps the coefficient  *)
(* growing.                                                                *)
PoolState == [all_stake : Nat, last_settlement : Nat, all_coefficient : Nat,
              all_unreceived_reward : Int, all_reward : Int]
Transfers == {NoTransfer} \cup [to : Accounts, quantity : Int]

PoolTyped ==
  /\ block \in 1..MaxBlock /\ liquid \in [Accounts -> Nat] /\ held \in Int
  /\ gstate \in PoolState /\ gstate.last_settlement <= block
  /\ stakes \in [Accounts -> Nat] /\ settled \in [Accounts -> 0..block]
  /\ deferred \in [1..LastSecond -> Transfers]
  /\ lost \in Nat /\ first \in Nat /\ conjured \in Nat /\ rewarded \in Nat /\ wrapped \in BOOLEAN

PoolOpened ==
  /\ gstate.last_settlement = 0 =>
       /\ first = 0 /\ rewarded = 0 /\ gstate.all_unreceived_reward = 0
       /\ \A a \in Accounts : settled[a] = 0
  /\ gstate.last_settlement > 0 => first > 0
  /\ \A a \in Accounts : stakes[a] > 0 => settled[a] > 0

CoefficientAhead ==
  ~wrapped =>
    /\ rewarded = 0 /\ gstate.all_unreceived_reward = 0
    /\ \A a \in Accounts :
         settled[a] > 0 => gstate.all_coefficient >= gstate.last_settlement - settled[a]

PoolInv == PoolTyped /\ PoolOpened /\ CoefficientAhead /\ PoolAddsUp

LEMMA PoolConstants ==
  /\ Stakers \in Nat \ {0} /\ Tokens \in Nat /\ AllReward \in Nat \ {0}
  /\ HalfLife \in Nat \ {0} /\ MaxBlock \in Nat \ {0} /\ LastSecond \in Nat
  /\ MaxAsset \in Nat /\ AllReward <= MaxAsset
  /\ (AllReward \div 2) \div HalfLife = 0
  /\ \A b \in 1..MaxBlock : SecondOf(b) \in 1..LastSecond
<1>1. /\ Stakers \in Nat \ {0} /\ Tokens \in Nat /\ AllReward \in Nat \ {0}
      /\ HalfLife \in Nat \ {0} /\ MaxBlock \in Nat \ {0} /\ AllReward \div 2 < HalfLife
      /\ MaxAsset \in Nat /\ AllReward <= MaxAsset
  BY PoolAssumption DEF PoolAssumption
<1>2. (AllReward \div 2) \div HalfLife = 0
  <2>1. PICK h \in Int : h = AllReward \div 2
    BY <1>1
  <2>2. h \in 0..(HalfLife - 1)
    BY <1>1, <2>1
  <2>3. h \div HalfLife = 0
    BY <1>1, <2>2
  <2>4. QED  BY <2>1, <2>3
<1>3. \A b \in 1..MaxBlock : SecondOf(b) \in 1..LastSecond
  BY <1>1 DEF SecondOf, LastSecond
<1>4. LastSecond \in Nat
  BY <1>1 DEF SecondOf, LastSecond
<1>5. QED  BY <1>1, <1>2, <1>3, <1>4

(* The widths, and that what fits is not changed by them.                  *)
LEMMA Widths ==
  /\ SignBit \in Nat \ {0} /\ Word = 2 * SignBit /\ Word \in Nat \ {0}
  /\ DoubleWord \in Nat \ {0} /\ SignBit <= DoubleWord
<1>1. SignBit \in Nat \ {0} /\ Word = 2 * SignBit /\ Word \in Nat \ {0} /\ SignBit <= Word
  BY PoolConstants DEF SignBit, Word
<1>2. PICK w \in Nat \ {0} : w = Word
  BY <1>1
<1>3. w * w \in Nat \ {0} /\ w <= w * w
  OBVIOUS
<1>4. QED  BY <1>1, <1>2, <1>3 DEF DoubleWord

LEMMA SmallRemainder ==
  ASSUME NEW x \in Nat, NEW m \in Nat, x < m
  PROVE  x % m = x
OBVIOUS

LEMMA Int64Fits ==
  ASSUME NEW x \in Nat, x < SignBit
  PROVE  Int64(x) = x
<1>1. PICK s \in Nat \ {0} : s = SignBit
  BY Widths
<1>2. x + s \in Nat /\ 2 * s \in Nat /\ x + s < 2 * s
  BY <1>1
<1>3. (x + s) % (2 * s) = x + s
  BY <1>2, SmallRemainder
<1>4. Int64(x) = ((x + s) % (2 * s)) - s
  BY <1>1, Widths DEF Int64
<1>5. QED  BY <1>3, <1>4

LEMMA Int64Type ==
  ASSUME NEW x \in Int
  PROVE  Int64(x) \in Int
<1>1. PICK s \in Nat \ {0}, w \in Nat \ {0} : s = SignBit /\ w = Word
  BY Widths
<1>2. (x + s) % w \in Int
  BY <1>1
<1>3. QED  BY <1>1, <1>2 DEF Int64

LEMMA Uint128Fits ==
  ASSUME NEW x \in Nat, x < DoubleWord
  PROVE  Uint128(x) = x
BY Widths, SmallRemainder DEF Uint128

LEMMA Uint128Type ==
  ASSUME NEW x \in Int
  PROVE  Uint128(x) \in Nat
<1>1. PICK d \in Nat \ {0} : d = DoubleWord
  BY Widths
<1>2. x % d \in Nat
  BY <1>1
<1>3. QED  BY <1>1, <1>2 DEF Uint128

(* Two to the power 0 is what a reward that is whole is divided by.        *)
LEMMA HalvingsOfAll == Halvings(AllReward) \in 1..AllReward
<1>1. AllReward \in Nat \ {0} /\ AllReward \div AllReward = 1
  BY PoolConstants
<1>2. /\ 1 \in 1..AllReward /\ IsPowerOf2(1)
      /\ 1 <= AllReward \div AllReward /\ AllReward \div AllReward < 2 * 1
  BY <1>1 DEF IsPowerOf2
<1>3. QED  BY <1>2 DEF Halvings

LEMMA NoIncrease ==
  ASSUME NEW blocks \in Nat
  PROVE  IncreasedReward(blocks, AllReward) = 0
<1>1. PICK p \in Nat \ {0} : p = Halvings(AllReward)
  BY HalvingsOfAll, PoolConstants
<1>2. (0 * blocks) \div p = 0
  BY <1>1
<1>3. QED  BY <1>1, <1>2, PoolConstants DEF IncreasedReward

LEMMA SmallShare ==
  ASSUME NEW x \in Nat, NEW y \in Nat, NEW u \in Nat, NEW v \in Nat, x < u, y <= v, 0 < v
  PROVE  (x * y) \div (u * v) = 0
<1>1. x * y \in Nat /\ x * v \in Nat /\ u * v \in Nat
  OBVIOUS
<1>2. x * y <= x * v
  OBVIOUS
<1>3. x * v < u * v
  OBVIOUS
<1>4. PICK m \in Nat, n \in Nat : m = x * y /\ n = u * v /\ m < n
  BY <1>1, <1>2, <1>3
<1>5. m \div n = 0
  BY <1>4
<1>6. QED  BY <1>4, <1>5

(* The facts of a pool that is open which the settlement lemmas rest on.   *)
LEMMA OpenPool ==
  ASSUME PoolInv, gstate.last_settlement > 0
  PROVE  /\ gstate \in PoolState /\ block \in Nat \ {0} /\ gstate.last_settlement <= block
         /\ gstate.last_settlement \in Nat /\ gstate.all_coefficient \in Nat
         /\ gstate.all_unreceived_reward \in Int /\ gstate.all_reward \in Int
         /\ gstate.all_reward - gstate.all_unreceived_reward = AllReward
         /\ gstate.all_stake \in Nat \ {0}
         /\ \A a \in Accounts : stakes[a] \in Nat /\ stakes[a] < gstate.all_stake
         /\ \A a \in Accounts : settled[a] \in 0..block
<1>1. /\ gstate \in PoolState /\ block \in 1..MaxBlock /\ gstate.last_settlement <= block
      /\ stakes \in [Accounts -> Nat] /\ settled \in [Accounts -> 0..block]
      /\ first \in Nat \ {0}
  BY DEF PoolInv, PoolTyped, PoolOpened
<1>2. /\ gstate.last_settlement \in Nat /\ gstate.all_coefficient \in Nat
      /\ gstate.all_unreceived_reward \in Int /\ gstate.all_reward \in Int
      /\ gstate.all_stake \in Nat /\ block \in Nat \ {0}
  BY <1>1, PoolConstants DEF PoolState
<1>3. /\ gstate.all_stake = first + AccountTotal(stakes, Stakers)
      /\ gstate.all_reward - gstate.all_unreceived_reward = AllReward
  BY <1>1 DEF PoolInv, PoolAddsUp
<1>4. /\ AccountTotal(stakes, Stakers) \in Nat
      /\ \A a \in Accounts : stakes[a] <= AccountTotal(stakes, Stakers)
  <2>1. \A i \in 1..Stakers : stakes[i] \in Nat
    BY <1>1 DEF Accounts
  <2>2. QED  BY <2>1, PoolConstants, AccountTotalNat DEF Accounts
<1>5. \A a \in Accounts : /\ stakes[a] \in Nat /\ stakes[a] < gstate.all_stake
                          /\ settled[a] \in 0..block
  BY <1>1, <1>3, <1>4
<1>6. gstate.all_stake \in Nat \ {0}
  BY <1>1, <1>3, <1>4
<1>7. QED  BY <1>1, <1>2, <1>3, <1>5, <1>6

(* What the first part of a settlement does to the pool's row: whatever    *)
(* wraps, only the coefficient changes; and what fits it grows by.         *)
LEMMA AccruedFields ==
  ASSUME PoolInv, gstate.last_settlement > 0
  PROVE  LET g == Accrued(gstate)
         IN /\ g \in PoolState /\ g.all_stake = gstate.all_stake
            /\ g.last_settlement = gstate.last_settlement /\ g.all_reward = gstate.all_reward
            /\ g.all_unreceived_reward = gstate.all_unreceived_reward
            /\ \A a \in Accounts : Exact(a) =>
                 g.all_coefficient = gstate.all_coefficient
                                     + (block - gstate.last_settlement) * gstate.all_stake
<1> DEFINE g == Accrued(gstate)
           blocks == block - gstate.last_settlement
           grown == blocks * gstate.all_stake
           c == Uint128(gstate.all_coefficient + Int64(grown))
<1>1. /\ gstate \in PoolState /\ blocks \in Nat
      /\ gstate.all_stake \in Nat /\ gstate.all_coefficient \in Nat
      /\ gstate.all_unreceived_reward \in Int /\ gstate.all_reward \in Int
      /\ gstate.all_reward - gstate.all_unreceived_reward = AllReward
  BY OpenPool
<1>2. grown \in Nat
  BY <1>1
<1>3. c \in Nat
  <2>1. gstate.all_coefficient + Int64(grown) \in Int
    BY <1>1, <1>2, Int64Type
  <2>2. QED  BY <2>1, Uint128Type
<1>4. ASSUME NEW a \in Accounts, Exact(a) PROVE c = gstate.all_coefficient + grown
  <2>1. grown < SignBit /\ gstate.all_coefficient + grown < DoubleWord
    BY <1>4 DEF Exact
  <2>2. Int64(grown) = grown
    BY <1>2, <2>1, Int64Fits
  <2>3. gstate.all_coefficient + grown \in Nat
    BY <1>1, <1>2
  <2>4. QED  BY <2>1, <2>2, <2>3, Uint128Fits
<1>5. CASE blocks = 0
  <2>1. g = gstate /\ grown = 0
    BY <1>1, <1>5 DEF Accrued
  <2>2. gstate.all_coefficient = gstate.all_coefficient + grown
    BY <1>1, <2>1
  <2>3. QED  BY <1>1, <2>1, <2>2
<1>6. CASE blocks # 0
  <2> DEFINE u == gstate.all_unreceived_reward
                  + IncreasedReward(blocks, gstate.all_reward - gstate.all_unreceived_reward)
  <2>1. g = [gstate EXCEPT !.all_coefficient = c, !.all_unreceived_reward = u]
    BY <1>6 DEF Accrued
  <2>2. u = gstate.all_unreceived_reward
    <3>1. IncreasedReward(blocks, AllReward) = 0
      BY <1>1, NoIncrease
    <3>2. QED  BY <1>1, <3>1
  <2> HIDE DEF g, c, u, blocks, grown
  <2>3. /\ g \in PoolState /\ g.all_stake = gstate.all_stake
        /\ g.last_settlement = gstate.last_settlement /\ g.all_reward = gstate.all_reward
        /\ g.all_unreceived_reward = gstate.all_unreceived_reward /\ g.all_coefficient = c
    BY <1>1, <1>3, <2>1, <2>2 DEF PoolState
  <2>4. QED  BY <1>4, <2>3 DEF g, blocks, grown
<1>7. QED  BY <1>5, <1>6

(* A coefficient grown without wrapping is not 0 after the opening block,  *)
(* and is ahead of the blocks since any row was settled.                   *)
LEMMA GrownCoefficient ==
  ASSUME PoolInv, gstate.last_settlement > 0, NEW a \in Accounts, Exact(a)
  PROVE  LET g == Accrued(gstate)
         IN /\ g.all_coefficient \in Nat
            /\ g.all_coefficient >= gstate.all_coefficient + (block - gstate.last_settlement)
            /\ ~wrapped => \A b \in Accounts :
                 settled[b] > 0 => g.all_coefficient >= block - settled[b]
            /\ stakes[a] > 0 => Divisor(g) = gstate.all_stake * g.all_coefficient
<1> DEFINE g == Accrued(gstate)
<1>1. PICK n \in Nat, s \in Nat \ {0}, k \in Nat :
        n = block - gstate.last_settlement /\ s = gstate.all_stake /\ k = gstate.all_coefficient
  BY OpenPool
<1>2. g.all_coefficient = k + n * s /\ g.all_stake = s
  BY <1>1, AccruedFields
<1>3. n * s \in Nat /\ n * s >= n
  OBVIOUS
<1>4. g.all_coefficient \in Nat /\ g.all_coefficient >= k + n
  BY <1>2, <1>3
<1>5. ASSUME ~wrapped, NEW b \in Accounts, settled[b] > 0
      PROVE  g.all_coefficient >= block - settled[b]
  <2>1. k >= gstate.last_settlement - settled[b]
    BY <1>1, <1>5 DEF PoolInv, CoefficientAhead
  <2>2. settled[b] \in Nat /\ block \in Nat /\ gstate.last_settlement \in Nat
    BY OpenPool
  <2>3. QED  BY <1>1, <1>4, <2>1, <2>2
<1>6. ASSUME stakes[a] > 0 PROVE Divisor(g) = gstate.all_stake * g.all_coefficient
  <2>1. s * (k + n * s) < DoubleWord
    BY <1>1, <1>6 DEF Exact
  <2>2. s * (k + n * s) \in Nat
    OBVIOUS
  <2>3. Uint128(s * (k + n * s)) = s * (k + n * s)
    BY <2>1, <2>2, Uint128Fits
  <2>4. QED  BY <1>1, <1>2, <2>3 DEF Divisor
<1>7. QED  BY <1>1, <1>4, <1>5, <1>6

LEMMA NothingIsDue ==
  ASSUME PoolInv, gstate.last_settlement > 0, NEW a \in Accounts, ~wrapped, Exact(a),
         stakes[a] > 0 => Accrued(gstate).all_coefficient > 0
  PROVE  Due(a) = 0
<1>1. CASE stakes[a] = 0
  BY <1>1 DEF Due
<1>2. CASE stakes[a] # 0
  <2>1. PICK g : g = Accrued(gstate)
    OBVIOUS
  <2>2. stakes[a] \in Nat \ {0} /\ settled[a] > 0
    BY <1>2, OpenPool DEF PoolInv, PoolOpened
  <2>3. PICK x \in Nat, y \in Nat, u \in Nat, v \in Nat :
          /\ x = stakes[a] /\ y = block - settled[a]
          /\ u = gstate.all_stake /\ v = g.all_coefficient
    <3>1. g.all_coefficient \in Nat
      BY <2>1, GrownCoefficient
    <3>2. settled[a] \in 0..block /\ block \in Nat /\ gstate.all_stake \in Nat
      BY OpenPool
    <3>3. block - settled[a] \in Nat
      BY <3>2
    <3>4. QED  BY <2>2, <3>1, <3>2, <3>3
  <2>4. x < u /\ y <= v /\ 0 < v
    BY <2>1, <2>2, <2>3, OpenPool, GrownCoefficient
  <2>5. Divisor(g) = u * v
    BY <2>1, <2>2, <2>3, GrownCoefficient
  <2>6. StakeBlocks(a) = x * y /\ x * y \in Nat
    BY <2>3 DEF StakeBlocks
  <2>7. x * y < SignBit
    BY <2>2, <2>6 DEF Exact
  <2>8. Uint128(Int64(x * y)) = x * y
    <3>1. Int64(x * y) = x * y
      BY <2>6, <2>7, Int64Fits
    <3>2. x * y < DoubleWord
      BY <2>6, <2>7, Widths
    <3>3. QED  BY <2>6, <3>1, <3>2, Uint128Fits
  <2>9. (x * y) \div (u * v) = 0
    BY <2>4, SmallShare
  <2>10. Int64(0) = 0
    BY Widths, Int64Fits
  <2>11. Reward(a, g) = 0
    BY <2>5, <2>6, <2>8, <2>9, <2>10 DEF Reward
  <2>12. QED  BY <1>2, <2>1, <2>11 DEF Due
<1>3. QED  BY <1>1, <1>2

LEMMA NothingIsDueWhenSettling ==
  ASSUME PoolInv, gstate.last_settlement > 0, NEW a \in Accounts, ~wrapped, Exact(a), CanSettle(a)
  PROVE  Due(a) = 0
<1>1. ASSUME stakes[a] > 0 PROVE Accrued(gstate).all_coefficient > 0
  <2>1. PICK v \in Nat, u \in Nat : v = Accrued(gstate).all_coefficient /\ u = gstate.all_stake
    BY OpenPool, GrownCoefficient
  <2>2. u * v # 0
    BY <1>1, <2>1, GrownCoefficient DEF CanSettle
  <2>3. v # 0
    BY <2>2
  <2>4. QED  BY <2>1, <2>3
<1>2. QED  BY <1>1, NothingIsDue

LEMMA DueType ==
  ASSUME PoolInv, gstate.last_settlement > 0, NEW a \in Accounts, CanSettle(a)
  PROVE  Due(a) \in Int /\ Payable(a) \in Nat /\ (Due(a) = 0 => Payable(a) = 0)
<1>1. Due(a) \in Int
  <2>1. CASE stakes[a] = 0
    BY <2>1 DEF Due
  <2>2. CASE stakes[a] # 0
    <3>1. stakes[a] > 0
      BY <2>2, OpenPool
    <3>2. QED  BY <3>1, PoolConstants DEF CanSettle, Amounts
  <2>3. QED  BY <2>1, <2>2
<1>2. QED  BY <1>1 DEF Payable, Positive

(* What a settlement does to the pool's row: whatever wraps, the rewards   *)
(* keep their distance; and without wrapping nothing is subtracted and the *)
(* coefficient stays ahead.                                                *)
LEMMA SettledFields ==
  ASSUME PoolInv, gstate.last_settlement > 0, NEW a \in Accounts, CanSettle(a)
  PROVE  LET g == Settled(a)
         IN /\ g \in PoolState /\ g.all_stake = gstate.all_stake
            /\ g.last_settlement > 0 /\ g.last_settlement <= block
            /\ g.all_reward - g.all_unreceived_reward = AllReward
            /\ ~wrapped /\ Exact(a) =>
                 /\ Due(a) = 0 /\ g.all_unreceived_reward = 0
                 /\ \A b \in Accounts : settled[b] > 0
                      => g.all_coefficient >= g.last_settlement - settled[b]
<1>1. PICK g : g = Accrued(gstate)
  OBVIOUS
<1>2. /\ g \in PoolState /\ g.all_stake = gstate.all_stake
      /\ g.last_settlement = gstate.last_settlement /\ g.all_reward = gstate.all_reward
      /\ g.all_unreceived_reward = gstate.all_unreceived_reward
  BY <1>1, AccruedFields
<1>3. /\ block \in Nat \ {0} /\ gstate.last_settlement \in Nat /\ gstate.last_settlement <= block
      /\ g.all_unreceived_reward \in Int /\ g.all_reward \in Int /\ AllReward \in Nat
      /\ g.all_reward - g.all_unreceived_reward = AllReward
      /\ \A b \in Accounts : settled[b] \in Nat
      /\ Due(a) \in Int
  BY <1>2, OpenPool, PoolConstants, DueType
<1>4. ASSUME ~wrapped, Exact(a)
      PROVE  /\ Due(a) = 0 /\ g.all_unreceived_reward = 0 /\ g.all_coefficient \in Nat
             /\ \A b \in Accounts : settled[b] > 0 => g.all_coefficient >= block - settled[b]
  BY <1>1, <1>2, <1>4, NothingIsDueWhenSettling, GrownCoefficient DEF PoolInv, CoefficientAhead
<1>5. CASE stakes[a] = 0
  <2>1. Settled(a) = g
    BY <1>1, <1>5 DEF Settled
  <2>2. ASSUME ~wrapped, Exact(a), NEW b \in Accounts, settled[b] > 0
        PROVE  g.all_coefficient >= g.last_settlement - settled[b]
    BY <1>2, <1>3, <1>4, <2>2
  <2>3. QED  BY <1>2, <1>3, <1>4, <2>1, <2>2
<1>6. CASE stakes[a] # 0
  <2> DEFINE s == [g EXCEPT !.all_unreceived_reward = g.all_unreceived_reward - Due(a),
                            !.all_reward = g.all_reward - Due(a), !.last_settlement = block]
  <2>1. Settled(a) = s
    BY <1>1, <1>6 DEF Settled
  <2>2. /\ s \in PoolState /\ s.all_stake = g.all_stake /\ s.last_settlement = block
        /\ s.all_coefficient = g.all_coefficient
        /\ s.all_unreceived_reward = g.all_unreceived_reward - Due(a)
        /\ s.all_reward = g.all_reward - Due(a)
    <3>1. g.all_unreceived_reward - Due(a) \in Int /\ g.all_reward - Due(a) \in Int
      BY <1>3
    <3>2. QED  BY <1>2, <1>3, <3>1 DEF PoolState
  <2> HIDE DEF s
  <2>3. s.all_reward - s.all_unreceived_reward = AllReward
    BY <1>3, <2>2
  <2>4. ASSUME ~wrapped, Exact(a) PROVE s.all_unreceived_reward = 0
    BY <1>4, <2>2, <2>4
  <2>5. QED  BY <1>2, <1>3, <1>4, <2>1, <2>2, <2>3, <2>4
<1>7. QED  BY <1>5, <1>6

LEMMA PoolInvInit ==
  ASSUME PoolInit
  PROVE  PoolInv
<1>1. /\ block = 1 /\ liquid = [a \in Accounts |-> Tokens] /\ held = 0
      /\ gstate = [all_stake |-> 0, last_settlement |-> 0, all_coefficient |-> 0,
                   all_unreceived_reward |-> 0, all_reward |-> 0]
      /\ stakes = [a \in Accounts |-> 0] /\ settled = [a \in Accounts |-> 0]
      /\ deferred = [s \in 1..LastSecond |-> NoTransfer] /\ lost = 0 /\ first = 0
      /\ conjured = 0 /\ rewarded = 0
  BY DEF PoolInit
<1>2. wrapped \in BOOLEAN
  BY Zenon DEF PoolInit
<1>3. PoolTyped /\ PoolOpened /\ CoefficientAhead
  BY <1>1, <1>2, PoolConstants
  DEF PoolTyped, PoolOpened, CoefficientAhead, PoolState, Transfers
<1>4. PoolAddsUp
  <2> DEFINE w == [id \in 1..LastSecond |-> Positive(deferred[id].quantity)]
  <2>1. \A i \in 1..LastSecond : w[i] = 0
    BY <1>1 DEF NoTransfer, Positive
  <2> HIDE DEF w
  <2>2. AccountTotal(w, LastSecond) = 0
    BY <2>1, PoolConstants, AccountTotalZero
  <2>3. AccountTotal(stakes, Stakers) = 0
    <3>1. \A i \in 1..Stakers : stakes[i] = 0
      BY <1>1 DEF Accounts
    <3>2. QED  BY <3>1, PoolConstants, AccountTotalZero
  <2>4. Waiting(deferred) = 0
    BY <2>2 DEF Waiting, w
  <2>5. QED  BY <1>1, <2>3, <2>4 DEF PoolAddsUp
<1>5. QED  BY <1>3, <1>4 DEF PoolInv

(* What one stake and one deferred transfer change of the sums.            *)
LEMMA StakesTotal ==
  ASSUME NEW f \in [Accounts -> Nat], NEW a \in Accounts, NEW g \in [Accounts -> Nat],
         \A b \in Accounts : b # a => g[b] = f[b]
  PROVE  /\ AccountTotal(f, Stakers) \in Nat
         /\ AccountTotal(g, Stakers) = AccountTotal(f, Stakers) - f[a] + g[a]
<1>1. /\ Stakers \in Nat /\ a \in 1..Stakers
      /\ \A i \in 1..Stakers : i # a => g[i] = f[i]
      /\ \A i \in 1..Stakers : f[i] \in Nat /\ f[i] \in Int /\ g[i] \in Int
  BY PoolConstants DEF Accounts
<1>2. AccountTotal(g, Stakers) = AccountTotal(f, Stakers) - f[a] + g[a]
  BY <1>1, AccountTotalChange
<1>3. AccountTotal(f, Stakers) \in Nat
  BY <1>1, AccountTotalNat
<1>4. QED  BY <1>2, <1>3

LEMMA TransferQuantity ==
  ASSUME NEW t \in Transfers
  PROVE  /\ t.quantity \in Int /\ Positive(t.quantity) \in Nat
         /\ Positive(NoTransfer.quantity) = 0 /\ NoTransfer \in Transfers
BY DEF Transfers, NoTransfer, Positive

LEMMA WaitingType ==
  ASSUME NEW d \in [1..LastSecond -> Transfers]
  PROVE  Waiting(d) \in Nat
<1> DEFINE f == [i \in 1..LastSecond |-> Positive(d[i].quantity)]
<1>1. LastSecond \in Nat /\ \A i \in 1..LastSecond : d[i] \in Transfers
  BY PoolConstants
<1>2. \A i \in 1..LastSecond : f[i] \in Nat
  BY <1>1, TransferQuantity
<1> HIDE DEF f
<1>3. AccountTotal(f, LastSecond) \in Nat
  BY <1>1, <1>2, AccountTotalNat
<1>4. QED  BY <1>3 DEF Waiting, f

LEMMA WaitingTotal ==
  ASSUME NEW d \in [1..LastSecond -> Transfers], NEW id \in 1..LastSecond,
         NEW e \in [1..LastSecond -> Transfers],
         \A i \in 1..LastSecond : i # id => e[i] = d[i]
  PROVE  Waiting(e) = Waiting(d) - Positive(d[id].quantity) + Positive(e[id].quantity)
<1> DEFINE f == [i \in 1..LastSecond |-> Positive(d[i].quantity)]
           g == [i \in 1..LastSecond |-> Positive(e[i].quantity)]
<1>1. \A i \in 1..LastSecond : e[i] \in Transfers /\ d[i] \in Transfers
  OBVIOUS
<1>2. \A i \in 1..LastSecond : f[i] = Positive(d[i].quantity) /\ g[i] = Positive(e[i].quantity)
  OBVIOUS
<1> HIDE DEF f, g
<1>3. \A i \in 1..LastSecond : f[i] \in Int /\ g[i] \in Int
  BY <1>1, <1>2, TransferQuantity
<1>4. \A i \in 1..LastSecond : i # id => g[i] = f[i]
  BY <1>2
<1>5. LastSecond \in Nat /\ id \in 1..LastSecond
  BY PoolConstants
<1>6. ASSUME NEW n \in Nat, n = LastSecond
      PROVE  AccountTotal(g, n) = AccountTotal(f, n) - f[id] + g[id]
  <2>1. id \in 1..n /\ \A i \in 1..n : f[i] \in Int /\ g[i] \in Int
    BY <1>3, <1>6
  <2>2. \A i \in 1..n : i # id => g[i] = f[i]
    BY <1>4, <1>6
  <2>3. QED  BY <2>1, <2>2, AccountTotalChange
<1>7. Waiting(d) = AccountTotal(f, LastSecond) /\ Waiting(e) = AccountTotal(g, LastSecond)
  BY DEF Waiting, f, g
<1>8. QED  BY <1>2, <1>5, <1>6, <1>7

LEMMA StakeFirstStep ==
  ASSUME PoolInv, NEW a \in Accounts, NEW quantity \in 1..MaxAsset, StakeFirst(a, quantity)
  PROVE  PoolInv'
<1>1. /\ gstate.last_settlement = 0 /\ quantity <= liquid[a] /\ first' = quantity
      /\ gstate' = [all_stake |-> quantity, last_settlement |-> block, all_coefficient |-> 0,
                    all_unreceived_reward |-> 0, all_reward |-> AllReward]
      /\ liquid' = [liquid EXCEPT ![a] = @ - quantity] /\ held' = held + quantity
      /\ UNCHANGED <<block, stakes, settled, deferred, lost, conjured, rewarded, wrapped>>
  BY DEF StakeFirst
<1>2. /\ PoolTyped /\ PoolAddsUp /\ first = 0 /\ rewarded = 0
      /\ \A b \in Accounts : settled[b] = 0
      /\ \A b \in Accounts : stakes[b] = 0
  BY <1>1 DEF PoolInv, PoolOpened, PoolTyped
<1>3. quantity \in Nat \ {0} /\ liquid[a] - quantity \in Nat
  BY <1>1, <1>2, PoolConstants DEF PoolTyped
<1>4. PoolTyped'
  <2>1. liquid' \in [Accounts -> Nat]
    BY <1>1, <1>2, <1>3 DEF PoolTyped
  <2>2. gstate' \in PoolState /\ gstate'.last_settlement = block
    BY <1>1, <1>2, <1>3, PoolConstants DEF PoolTyped, PoolState
  <2>3. QED  BY <1>1, <1>2, <1>3, <2>1, <2>2 DEF PoolTyped
<1>5. PoolOpened' /\ CoefficientAhead'
  BY <1>1, <1>2, <1>3, PoolConstants DEF PoolOpened, CoefficientAhead, PoolTyped
<1>6. PoolAddsUp'
  <2>1. AccountTotal(stakes, Stakers) = 0
    BY <1>2, PoolConstants, AccountTotalZero DEF Accounts
  <2>2. /\ Waiting(deferred) \in Nat /\ lost \in Nat /\ conjured \in Nat /\ held \in Int
        /\ AllReward \in Nat
    BY <1>2, WaitingType, PoolConstants DEF PoolTyped
  <2>3. gstate.all_stake = 0 /\ held + conjured + rewarded = lost + Waiting(deferred)
    BY <1>2, <2>1, <2>2 DEF PoolAddsUp
  <2>4. Waiting(deferred)' = Waiting(deferred)
    BY <1>1 DEF Waiting
  <2>5. /\ gstate'.all_stake = first' + AccountTotal(stakes', Stakers)
        /\ held' + conjured' + rewarded' = gstate'.all_stake + lost' + Waiting(deferred)
        /\ gstate'.all_reward - gstate'.all_unreceived_reward = AllReward
    BY <1>1, <1>2, <1>3, <2>1, <2>2, <2>3
  <2>6. QED  BY <2>4, <2>5 DEF PoolAddsUp
<1>7. QED  BY <1>4, <1>5, <1>6 DEF PoolInv

(* A settlement, and then a stake of another size, in the pool that is     *)
(* open: what staking and unstaking have in common.                        *)
LEMMA RestakeStep ==
  ASSUME PoolInv, gstate.last_settlement > 0, NEW a \in Accounts, Settles(a),
         NEW v \in Nat, NEW h \in Int, NEW l \in [Accounts -> Nat], NEW c \in Nat,
         NEW d \in [1..LastSecond -> Transfers],
         NEW s, s = gstate.all_stake - stakes[a] + v,
         h + c + (rewarded + Payable(a)) = s + lost + Waiting(d),
         liquid' = l, held' = h, deferred' = d, conjured' = c,
         gstate' = [Settled(a) EXCEPT !.all_stake = s],
         stakes' = [stakes EXCEPT ![a] = v]
  PROVE  PoolInv'
<1>1. PICK g : g = Settled(a)
  OBVIOUS
<1>2. /\ CanSettle(a) /\ rewarded' = rewarded + Payable(a)
      /\ settled' = [settled EXCEPT ![a] = block]
      /\ block' = block /\ lost' = lost /\ first' = first
  BY DEF Settles
<1>3. wrapped' \in BOOLEAN /\ (~wrapped' => ~wrapped /\ Exact(a))
  BY Zenon DEF Settles
<1>4. /\ g \in PoolState /\ g.all_stake = gstate.all_stake
      /\ g.last_settlement > 0 /\ g.last_settlement <= block
      /\ g.all_reward - g.all_unreceived_reward = AllReward
      /\ ~wrapped /\ Exact(a) =>
           /\ Due(a) = 0 /\ g.all_unreceived_reward = 0
           /\ \A b \in Accounts : settled[b] > 0
                => g.all_coefficient >= g.last_settlement - settled[b]
  BY <1>1, <1>2, SettledFields
<1>5. /\ block \in 1..MaxBlock /\ block \in Nat \ {0} /\ stakes \in [Accounts -> Nat]
      /\ settled \in [Accounts -> 0..block] /\ lost \in Nat /\ first \in Nat \ {0}
      /\ gstate.all_stake = first + AccountTotal(stakes, Stakers) /\ rewarded \in Nat
      /\ Payable(a) \in Nat
  <2>1. PoolTyped /\ first > 0 /\ gstate.all_stake = first + AccountTotal(stakes, Stakers)
    BY DEF PoolInv, PoolOpened, PoolAddsUp
  <2>2. /\ block \in 1..MaxBlock /\ stakes \in [Accounts -> Nat] /\ lost \in Nat
        /\ settled \in [Accounts -> 0..block] /\ first \in Nat /\ rewarded \in Nat
    BY <2>1 DEF PoolTyped
  <2>3. block \in Nat \ {0} /\ first \in Nat \ {0}
    BY <2>1, <2>2, PoolConstants
  <2>4. QED  BY <1>2, <2>1, <2>2, <2>3, DueType
<1>6. stakes' \in [Accounts -> Nat] /\ settled' \in [Accounts -> 0..block]
  BY <1>2, <1>5
<1>7. /\ AccountTotal(stakes, Stakers) \in Nat /\ AccountTotal(stakes', Stakers) \in Nat
      /\ AccountTotal(stakes', Stakers) = AccountTotal(stakes, Stakers) - stakes[a] + v
  <2>1. stakes'[a] = v /\ \A b \in Accounts : b # a => stakes'[b] = stakes[b]
    BY <1>5
  <2>2. /\ AccountTotal(stakes, Stakers) \in Nat
        /\ AccountTotal(stakes', Stakers) = AccountTotal(stakes, Stakers) - stakes[a] + stakes'[a]
    BY <1>5, <1>6, <2>1, StakesTotal
  <2>3. AccountTotal(stakes', Stakers) \in Nat
    BY <1>6, StakesTotal
  <2>4. QED  BY <2>1, <2>2, <2>3
<1>8. s \in Nat /\ s = first + AccountTotal(stakes', Stakers)
  <2>1. PICK x \in Nat, y \in Nat, z \in Nat, w \in Nat :
          /\ x = AccountTotal(stakes, Stakers) /\ y = stakes[a]
          /\ z = AccountTotal(stakes', Stakers) /\ w = first
    BY <1>5, <1>7
  <2>2. z = x - y + v /\ s = (w + x) - y + v
    BY <1>5, <1>7, <2>1
  <2>3. QED  BY <2>1, <2>2
<1>9. /\ gstate' \in PoolState /\ gstate'.all_stake = s
      /\ gstate'.last_settlement = g.last_settlement /\ gstate'.all_reward = g.all_reward
      /\ gstate'.all_unreceived_reward = g.all_unreceived_reward
      /\ gstate'.all_coefficient = g.all_coefficient
  BY <1>1, <1>4, <1>8 DEF PoolState
<1>10. PoolTyped'
  BY <1>2, <1>3, <1>4, <1>5, <1>6, <1>9 DEF PoolTyped
<1>11. \A b \in Accounts : /\ settled'[b] = IF b = a THEN block ELSE settled[b]
                           /\ stakes'[b] = IF b = a THEN v ELSE stakes[b]
  BY <1>2, <1>5
<1>12. PoolOpened'
  <2>1. \A b \in Accounts : stakes[b] > 0 => settled[b] > 0
    BY DEF PoolInv, PoolOpened
  <2>2. gstate'.last_settlement \in Nat /\ gstate'.last_settlement > 0
    BY <1>4, <1>9 DEF PoolState
  <2>3. ASSUME NEW b \in Accounts, stakes'[b] > 0 PROVE settled'[b] > 0
    BY <1>5, <1>11, <2>1, <2>3
  <2>4. QED  BY <1>2, <1>5, <2>2, <2>3 DEF PoolOpened
<1>13. CoefficientAhead'
  <2>1. g.all_coefficient \in Nat /\ g.last_settlement \in Nat
    BY <1>4 DEF PoolState
  <2>2. SUFFICES ASSUME ~wrapped'
                 PROVE  /\ rewarded' = 0 /\ gstate'.all_unreceived_reward = 0
                        /\ \A b \in Accounts : settled'[b] > 0
                             => gstate'.all_coefficient >= gstate'.last_settlement - settled'[b]
    BY DEF CoefficientAhead
  <2>3. ~wrapped /\ Exact(a)
    BY <1>3, <2>2
  <2>4. rewarded = 0 /\ Payable(a) = 0
    BY <1>2, <1>4, <2>3, DueType DEF PoolInv, CoefficientAhead
  <2>5. QED  BY <1>2, <1>4, <1>5, <1>9, <1>11, <2>1, <2>3, <2>4
<1>14. PoolAddsUp'
  <2>1. Waiting(deferred)' = Waiting(d)
    BY DEF Waiting
  <2>2. /\ gstate'.all_stake = first' + AccountTotal(stakes', Stakers)
        /\ held' + conjured' + rewarded' = gstate'.all_stake + lost' + Waiting(d)
        /\ gstate'.all_reward - gstate'.all_unreceived_reward = AllReward
    BY <1>2, <1>4, <1>8, <1>9
  <2>3. QED  BY <2>1, <2>2 DEF PoolAddsUp
<1>15. QED  BY <1>10, <1>12, <1>13, <1>14 DEF PoolInv

LEMMA StakeStep ==
  ASSUME PoolInv, NEW a \in Accounts, NEW quantity \in 1..MaxAsset, Stake(a, quantity)
  PROVE  PoolInv'
<1>1. /\ gstate.last_settlement > 0 /\ Settles(a) /\ CanSettle(a) /\ quantity <= liquid[a]
      /\ conjured' = conjured /\ deferred' = deferred
  BY DEF Stake, Settles
<1>2. /\ liquid \in [Accounts -> Nat] /\ stakes \in [Accounts -> Nat]
      /\ liquid[a] \in Nat /\ stakes[a] \in Nat /\ held \in Int /\ quantity \in Nat
      /\ deferred \in [1..LastSecond -> Transfers] /\ gstate.all_stake \in Nat /\ lost \in Nat
      /\ conjured \in Nat /\ rewarded \in Nat /\ Payable(a) \in Nat
      /\ held + conjured + rewarded = gstate.all_stake + lost + Waiting(deferred)
  <2>1. /\ PoolTyped /\ PoolAddsUp /\ quantity \in Nat /\ Payable(a) \in Nat
    BY <1>1, PoolConstants, DueType DEF PoolInv
  <2>2. /\ liquid \in [Accounts -> Nat] /\ stakes \in [Accounts -> Nat] /\ held \in Int
        /\ deferred \in [1..LastSecond -> Transfers] /\ gstate.all_stake \in Nat /\ lost \in Nat
        /\ conjured \in Nat /\ rewarded \in Nat
    BY <2>1 DEF PoolTyped, PoolState
  <2>3. held + conjured + rewarded = gstate.all_stake + lost + Waiting(deferred)
    BY <2>1 DEF PoolAddsUp
  <2>4. QED  BY <2>1, <2>2, <2>3
<1> DEFINE v == stakes[a] + quantity
           s == gstate.all_stake + quantity
           h == held + quantity - Payable(a)
           l == [liquid EXCEPT ![a] = liquid[a] - quantity + Payable(a)]
<1>3. /\ v \in Nat /\ h \in Int /\ s = gstate.all_stake - stakes[a] + v
      /\ l \in [Accounts -> Nat]
  BY <1>1, <1>2
<1>4. h + conjured + (rewarded + Payable(a)) = s + lost + Waiting(deferred)
  <2>1. Waiting(deferred) \in Nat
    BY <1>2, WaitingType
  <2>2. PICK ho \in Int, co \in Int, re \in Int, al \in Int, lo \in Int, wa \in Int,
             pa \in Int, q \in Int :
          /\ ho = held /\ co = conjured /\ re = rewarded /\ al = gstate.all_stake /\ lo = lost
          /\ wa = Waiting(deferred) /\ pa = Payable(a) /\ q = quantity
    BY <1>2, <2>1
  <2>3. ho + co + re = al + lo + wa
    BY <1>2, <2>2
  <2>4. (ho + q - pa) + co + (re + pa) = (al + q) + lo + wa
    BY <2>3
  <2>5. QED  BY <2>2, <2>4
<1>5. held' = h /\ liquid' = l /\ stakes' = [stakes EXCEPT ![a] = v]
  BY <1>2 DEF Stake
<1>6. gstate' = [Settled(a) EXCEPT !.all_stake = s]
  <2>1. Settled(a).all_stake = gstate.all_stake
    BY <1>1, SettledFields
  <2>2. QED  BY <2>1 DEF Stake
<1> HIDE DEF v, s, h, l
<1>7. QED  BY <1>1, <1>2, <1>3, <1>4, <1>5, <1>6, RestakeStep

LEMMA UnstakeStep ==
  ASSUME PoolInv, NEW a \in Accounts, NEW quantity \in Amounts, Unstake(a, quantity)
  PROVE  PoolInv'
<1>1. /\ settled[a] > 0 /\ Settles(a) /\ CanSettle(a) /\ quantity <= stakes[a]
      /\ deferred[Seconds] = NoTransfer
  BY DEF Unstake, Settles
<1>2. gstate.last_settlement > 0
  <2>1. gstate.last_settlement \in Nat /\ gstate.last_settlement # 0
    BY <1>1 DEF PoolInv, PoolTyped, PoolOpened, PoolState
  <2>2. QED  BY <2>1
<1>3. /\ liquid \in [Accounts -> Nat] /\ stakes \in [Accounts -> Nat]
      /\ liquid[a] \in Nat /\ stakes[a] \in Nat /\ held \in Int /\ quantity \in Int
      /\ deferred \in [1..LastSecond -> Transfers] /\ gstate.all_stake \in Nat /\ lost \in Nat
      /\ conjured \in Nat /\ rewarded \in Nat /\ Payable(a) \in Nat /\ block \in 1..MaxBlock
      /\ held + conjured + rewarded = gstate.all_stake + lost + Waiting(deferred)
  <2>1. /\ PoolTyped /\ PoolAddsUp /\ Payable(a) \in Nat
    BY <1>1, <1>2, DueType DEF PoolInv
  <2>2. /\ liquid \in [Accounts -> Nat] /\ stakes \in [Accounts -> Nat] /\ held \in Int
        /\ deferred \in [1..LastSecond -> Transfers] /\ gstate.all_stake \in Nat /\ lost \in Nat
        /\ conjured \in Nat /\ rewarded \in Nat /\ block \in 1..MaxBlock
    BY <2>1 DEF PoolTyped, PoolState
  <2>3. held + conjured + rewarded = gstate.all_stake + lost + Waiting(deferred)
    BY <2>1 DEF PoolAddsUp
  <2>4. quantity \in Int
    BY PoolConstants DEF Amounts
  <2>5. QED  BY <2>1, <2>2, <2>3, <2>4
<1> DEFINE t == [to |-> a, quantity |-> quantity]
           d == [deferred EXCEPT ![Seconds] = t]
           v == stakes[a] - quantity
           s == gstate.all_stake - quantity
           h == held - Payable(a)
           l == [liquid EXCEPT ![a] = liquid[a] + Payable(a)]
           c == conjured + Positive(-quantity)
<1>4. t \in Transfers /\ t.quantity = quantity /\ Seconds \in 1..LastSecond
      /\ Positive(deferred[Seconds].quantity) = 0
  BY <1>1, <1>3, PoolConstants DEF Transfers, Seconds, NoTransfer, Positive
<1>5. /\ deferred' = d /\ held' = h /\ liquid' = l /\ conjured' = c
      /\ stakes' = [stakes EXCEPT ![a] = v]
  BY <1>3 DEF Unstake
<1>6. gstate' = [Settled(a) EXCEPT !.all_stake = s]
  <2>1. Settled(a).all_stake = gstate.all_stake
    BY <1>1, <1>2, SettledFields
  <2>2. QED  BY <2>1 DEF Unstake, Unstaked
<1> HIDE DEF t
<1>7. /\ d \in [1..LastSecond -> Transfers]
      /\ Waiting(d) = Waiting(deferred) + Positive(quantity)
  <2>1. /\ d \in [1..LastSecond -> Transfers] /\ d[Seconds] = t
        /\ \A i \in 1..LastSecond : i # Seconds => d[i] = deferred[i]
    BY <1>3, <1>4
  <2> HIDE DEF d
  <2>2. Waiting(d) = Waiting(deferred) - Positive(deferred[Seconds].quantity)
                     + Positive(d[Seconds].quantity)
    BY <1>3, <1>4, <2>1, WaitingTotal
  <2>3. Waiting(deferred) \in Nat
    BY <1>3, WaitingType
  <2>4. QED  BY <1>4, <2>1, <2>2, <2>3
<1> HIDE DEF d
<1>8. /\ v \in Nat /\ s = gstate.all_stake - stakes[a] + v /\ h \in Int /\ c \in Nat
      /\ l \in [Accounts -> Nat]
  BY <1>1, <1>3 DEF Positive
<1>9. h + c + (rewarded + Payable(a)) = s + lost + Waiting(d)
  <2>1. Positive(-quantity) \in Nat /\ Positive(quantity) \in Nat
        /\ Positive(-quantity) - Positive(quantity) = -quantity
    BY <1>3 DEF Positive
  <2>2. Waiting(deferred) \in Nat
    BY <1>3, WaitingType
  <2>3. PICK ho \in Int, co \in Int, re \in Int, al \in Int, lo \in Int, wa \in Int,
             pa \in Int, q \in Int, up \in Int, down \in Int :
          /\ ho = held /\ co = conjured /\ re = rewarded /\ al = gstate.all_stake /\ lo = lost
          /\ wa = Waiting(deferred) /\ pa = Payable(a) /\ q = quantity
          /\ up = Positive(-quantity) /\ down = Positive(quantity)
    BY <1>3, <2>1, <2>2
  <2>4. ho + co + re = al + lo + wa /\ up - down = -q
    BY <1>3, <2>1, <2>3
  <2>5. (ho - pa) + (co + up) + (re + pa) = (al - q) + lo + (wa + down)
    BY <2>4
  <2>6. QED  BY <1>7, <2>3, <2>5
<1> HIDE DEF v, s, h, l, c
<1>10. QED  BY <1>1, <1>2, <1>5, <1>6, <1>7, <1>8, <1>9, RestakeStep

LEMMA ReturnStep ==
  ASSUME PoolInv, NEW id \in 1..LastSecond, Return(id) \/ Lose(id)
  PROVE  PoolInv'
<1>1. /\ liquid \in [Accounts -> Nat] /\ held \in Int /\ lost \in Nat
      /\ conjured \in Nat /\ rewarded \in Nat
      /\ deferred \in [1..LastSecond -> Transfers] /\ gstate.all_stake \in Nat
      /\ held + conjured + rewarded = gstate.all_stake + lost + Waiting(deferred)
  BY DEF PoolInv, PoolTyped, PoolState, PoolAddsUp
<1> DEFINE d == [deferred EXCEPT ![id] = NoTransfer]
           q == Positive(deferred[id].quantity)
<1>2. /\ deferred[id] # NoTransfer /\ deferred' = d
      /\ UNCHANGED <<block, gstate, stakes, settled, first, conjured, rewarded, wrapped>>
  BY DEF Return, Lose, history
<1>3. q \in Nat /\ deferred[id].to \in Accounts /\ deferred[id].quantity \in Int
  BY <1>1, <1>2, TransferQuantity DEF Transfers
<1>4. d \in [1..LastSecond -> Transfers] /\ Waiting(d) = Waiting(deferred) - q
  <2>1. NoTransfer \in Transfers /\ Positive(NoTransfer.quantity) = 0
    BY DEF Transfers, NoTransfer, Positive
  <2>2. /\ d \in [1..LastSecond -> Transfers] /\ d[id] = NoTransfer
        /\ \A i \in 1..LastSecond : i # id => d[i] = deferred[i]
    BY <1>1, <2>1
  <2> HIDE DEF d
  <2>3. Waiting(d) = Waiting(deferred) - Positive(deferred[id].quantity) + Positive(d[id].quantity)
    BY <1>1, <2>2, WaitingTotal
  <2>4. Waiting(deferred) \in Nat
    BY <1>1, WaitingType
  <2>5. QED  BY <1>3, <2>1, <2>2, <2>3, <2>4
<1>5. \/ /\ liquid' = [liquid EXCEPT ![deferred[id].to] = @ + q] /\ held' = held - q
         /\ lost' = lost
      \/ liquid' = liquid /\ held' = held /\ lost' = lost + q
  <2>1. CASE Return(id)
    <3>1. q = deferred[id].quantity
      BY <1>1, <1>3, <2>1 DEF Return, Positive
    <3>2. QED  BY <2>1, <3>1 DEF Return
  <2>2. CASE Lose(id)
    BY <2>2 DEF Lose
  <2>3. QED  BY <2>1, <2>2
<1>6. liquid' \in [Accounts -> Nat] /\ lost' \in Nat /\ held' \in Int
  BY <1>1, <1>3, <1>5
<1>7. held' + conjured + rewarded = gstate.all_stake + lost' + Waiting(d)
  <2>1. Waiting(deferred) \in Nat
    BY <1>1, WaitingType
  <2>2. (held' = held - q /\ lost' = lost) \/ (held' = held /\ lost' = lost + q)
    BY <1>5
  <2>3. Waiting(d) = Waiting(deferred) - q
    BY <1>4
  <2> HIDE DEF d, q
  <2>4. PICK ho \in Int, co \in Int, re \in Int, al \in Int, lo \in Int, wa \in Int, qu \in Int :
          /\ ho = held /\ co = conjured /\ re = rewarded /\ al = gstate.all_stake /\ lo = lost
          /\ wa = Waiting(deferred) /\ qu = q
    BY <1>1, <1>3, <2>1
  <2>5. ho + co + re = al + lo + wa
    BY <1>1, <2>4
  <2>6. /\ (ho - qu) + co + re = al + lo + (wa - qu)
        /\ ho + co + re = al + (lo + qu) + (wa - qu)
    BY <2>5
  <2>7. QED  BY <2>2, <2>3, <2>4, <2>6
<1> HIDE DEF d
<1>8. PoolTyped' /\ PoolOpened' /\ CoefficientAhead'
  BY <1>2, <1>4, <1>6 DEF PoolInv, PoolTyped, PoolOpened, CoefficientAhead
<1>9. PoolAddsUp'
  <2>1. Waiting(deferred)' = Waiting(d)
    BY <1>2 DEF Waiting
  <2>2. /\ gstate.all_stake = first + AccountTotal(stakes, Stakers)
        /\ first > 0 => gstate.all_reward - gstate.all_unreceived_reward = AllReward
    BY DEF PoolInv, PoolAddsUp
  <2>3. QED  BY <1>2, <1>7, <2>1, <2>2 DEF PoolAddsUp
<1>10. QED  BY <1>8, <1>9 DEF PoolInv

LEMMA PoolStep ==
  ASSUME PoolInv, [PoolNext]_poolVars
  PROVE  PoolInv'
<1>1. CASE UNCHANGED poolVars
  BY <1>1 DEF poolVars, history, PoolInv, PoolTyped, PoolOpened, CoefficientAhead, PoolAddsUp,
              Waiting
<1>2. CASE block < MaxBlock /\ Tick
  <2>1. /\ block' = block + 1 /\ block' \in 1..MaxBlock /\ block \in Nat
        /\ UNCHANGED <<liquid, held, gstate, stakes, settled, deferred, lost,
                       first, conjured, rewarded, wrapped>>
    BY <1>2, PoolConstants DEF Tick, history, PoolInv, PoolTyped
  <2>2. gstate.last_settlement \in Nat /\ 0..block \subseteq 0..block'
    BY <2>1 DEF PoolInv, PoolTyped, PoolState
  <2>3. PoolTyped'
    BY <2>1, <2>2 DEF PoolInv, PoolTyped
  <2>4. QED  BY <2>1, <2>3 DEF PoolInv, PoolOpened, CoefficientAhead, PoolAddsUp, Waiting
<1>3. CASE \E a \in Accounts, quantity \in 1..MaxAsset :
             StakeFirst(a, quantity) \/ Stake(a, quantity)
  BY <1>3, StakeFirstStep, StakeStep
<1>4. CASE \E a \in Accounts, quantity \in Amounts : Unstake(a, quantity)
  BY <1>4, UnstakeStep
<1>5. CASE \E id \in 1..LastSecond : Return(id) \/ Lose(id)
  BY <1>5, ReturnStep
<1>6. QED  BY <1>1, <1>2, <1>3, <1>4, <1>5 DEF PoolNext

LEMMA PoolInvariance == PoolSpec => []PoolInv
BY PoolInvInit, PoolStep, PTL DEF PoolSpec

(* What the pool holds is the stakes, what it still returns and what was   *)
(* lost on the way, less exactly the rewards paid and what negative        *)
(* unstakings made up, in any order of settlements, unstakings and returns *)
(* and whatever wraps.                                                     *)
THEOREM PoolStaysBacked == PoolSpec => []PoolAddsUp
<1>1. PoolInv => PoolAddsUp
  BY DEF PoolInv
<1>2. QED  BY <1>1, PoolInvariance, PTL

LEMMA OpenedByFirst ==
  ASSUME PoolInv, first > 0
  PROVE  gstate.last_settlement > 0
<1>1. gstate.last_settlement \in Nat /\ first # 0
  BY DEF PoolInv, PoolTyped, PoolState
<1>2. gstate.last_settlement # 0
  BY <1>1 DEF PoolInv, PoolOpened
<1>3. QED  BY <1>1, <1>2

(* Until a number leaves its width no settlement pays, however long and    *)
(* with whatever stakes the pool is run, if ALL_REWARD / 2 /               *)
(* HALF_LIFT_PERIOD is 0.                                                  *)
THEOREM NoRewardEver == PoolSpec => []NoRewardIsPaid
<1>1. ASSUME PoolInv PROVE NoRewardIsPaid
  <2>1. SUFFICES ASSUME ~wrapped
                 PROVE  /\ rewarded = 0 /\ gstate.all_unreceived_reward = 0
                        /\ first > 0 => gstate.all_reward = AllReward
                        /\ first > 0 => \A a \in Accounts :
                                          CanSettle(a) /\ Exact(a) => Due(a) = 0
    BY DEF NoRewardIsPaid
  <2>2. rewarded = 0 /\ gstate.all_unreceived_reward = 0
    BY <1>1, <2>1 DEF PoolInv, CoefficientAhead
  <2>3. ASSUME first > 0 PROVE gstate.all_reward = AllReward
    BY <1>1, <2>2, <2>3, OpenedByFirst, OpenPool
  <2>4. ASSUME first > 0, NEW a \in Accounts, CanSettle(a), Exact(a) PROVE Due(a) = 0
    BY <1>1, <2>1, <2>4, OpenedByFirst, NothingIsDueWhenSettling
  <2>5. QED  BY <2>2, <2>3, <2>4
<1>2. QED  BY <1>1, PoolInvariance, PTL

(* Until a number leaves its width, and once the opening block is over,    *)
(* every settlement divides by something and its amounts are assets.       *)
THEOREM NoSettlementFails == PoolSpec => []SettlementsGoThrough
<1>1. ASSUME PoolInv PROVE SettlementsGoThrough
  <2>1. SUFFICES ASSUME NEW a \in Accounts, first > 0, ~wrapped, Exact(a),
                        block > gstate.last_settlement \/ gstate.all_coefficient > 0
                 PROVE  CanSettle(a)
    BY DEF SettlementsGoThrough
  <2>2. gstate.last_settlement > 0
    BY <1>1, <2>1, OpenedByFirst
  <2>3. gstate.all_unreceived_reward = 0 /\ gstate.all_reward = AllReward
    BY <1>1, <2>1, <2>2, OpenPool DEF PoolInv, CoefficientAhead
  <2>4. PICK g : g = Accrued(gstate)
    OBVIOUS
  <2>5. g.all_unreceived_reward = 0
    BY <1>1, <2>2, <2>3, <2>4, AccruedFields
  <2>6. g.all_coefficient \in Nat \ {0}
    <3>1. /\ g.all_coefficient \in Nat
          /\ g.all_coefficient >= gstate.all_coefficient + (block - gstate.last_settlement)
      BY <1>1, <2>1, <2>2, <2>4, GrownCoefficient
    <3>2. /\ gstate.all_coefficient \in Nat /\ block \in Nat /\ gstate.last_settlement \in Nat
          /\ gstate.last_settlement <= block
      BY <1>1, <2>2, OpenPool
    <3>3. QED  BY <2>1, <3>1, <3>2
  <2>7. Due(a) = 0
    BY <1>1, <2>1, <2>2, <2>4, <2>6, NothingIsDue
  <2>8. ASSUME stakes[a] > 0 PROVE Divisor(g) # 0
    <3>1. PICK m \in Nat \ {0}, n \in Nat \ {0} : m = gstate.all_stake /\ n = g.all_coefficient
      BY <1>1, <2>2, <2>6, OpenPool
    <3>2. m * n # 0
      OBVIOUS
    <3>3. QED  BY <1>1, <2>1, <2>2, <2>4, <2>8, <3>1, <3>2, GrownCoefficient
  <2>9. AllReward \in 1..MaxAsset /\ MaxAsset \in Nat
    BY PoolConstants
  <2>10. /\ Due(a) \in Amounts /\ gstate.all_reward - Due(a) \in Amounts
         /\ g.all_unreceived_reward - Due(a) \in Amounts
    BY <2>3, <2>5, <2>7, <2>9 DEF Amounts
  <2>11. gstate.all_reward > 0 /\ gstate.all_reward # gstate.all_unreceived_reward
    BY <2>3, <2>9
  <2>12. QED  BY <2>4, <2>8, <2>10, <2>11 DEF CanSettle
<1>2. QED  BY <1>1, PoolInvariance, PTL
=============================================================================
