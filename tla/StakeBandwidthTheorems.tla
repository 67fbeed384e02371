----------------------- MODULE StakeBandwidthTheorems -----------------------
(***************************************************************************)
(* Staking, for any number of accounts and any amounts and delay: the      *)
(* tokens in celes.stake are those staked or waiting, the totals are the   *)
(* sums of the tables, and staking implements StakeVault.                  *)
(***************************************************************************)
EXTENDS StakeBandwidth, AccountSumsTheorems

(* Requests are of the past, so that a deferred call made now follows them *)
(* by the full delay.                                                      *)
RequestsArePast == \A a \in Name : request_time[a] <= now

StakeInv == TypeOK /\ RequestsArePast /\ DeferredIsNotEarly /\ TotalsAreSums /\ StakeIsBacked

LEMMA StakeConstants ==
  N \in Nat /\ Liquid \in Nat /\ RefundDelay \in Nat /\ MaxStake \in Nat
BY StakeAssumption DEF StakeAssumption

-----------------------------------------------------------------------------
(* Weights.                                                                *)
LEMMA SumType ==
  /\ \A w \in Weights : Sum(w) \in Nat
  /\ \A w \in [Kind -> Int] : Sum(w) \in Int
  /\ None \in Weights /\ Sum(None) = 0
BY DEF Sum, Weights, Kind, None

LEMMA PlusSum ==
  ASSUME NEW w \in Weights, NEW delta \in [Kind -> Int], \A k \in Kind : w[k] + delta[k] >= 0
  PROVE  /\ Plus(w, delta) \in Weights /\ Sum(Plus(w, delta)) = Sum(w) + Sum(delta)
         /\ \A k \in Kind : Plus(w, delta)[k] = w[k] + delta[k]
BY DEF Plus, Sum, Weights, Kind

(* What a change leaves of a refund and what of it has to be paid.         *)
LEMMA RefundCovers ==
  ASSUME NEW r \in Weights, NEW delta \in [Kind -> Int]
  PROVE  /\ RefundAfter(r, delta) \in Weights /\ Sum(Remainder(r, delta)) \in Nat
         /\ Sum(RefundAfter(r, delta)) - Sum(Remainder(r, delta)) = Sum(r) - Sum(delta)
         /\ (\A k \in Kind : delta[k] >= 0) => Sum(Remainder(r, delta)) <= Sum(delta)
         /\ (\A k \in Kind : delta[k] <= 0) => Sum(Remainder(r, delta)) = 0
<1>1. /\ r["net"] \in Nat /\ r["cpu"] \in Nat /\ delta["net"] \in Int /\ delta["cpu"] \in Int
      /\ "net" \in Kind /\ "cpu" \in Kind
  BY DEF Weights, Kind
<1>2. RefundAfter(r, delta) \in Weights
  BY DEF RefundAfter, AtLeastZero, Weights
<1>3. /\ RefundAfter(r, delta)["net"] = AtLeastZero(r["net"] - delta["net"])
      /\ RefundAfter(r, delta)["cpu"] = AtLeastZero(r["cpu"] - delta["cpu"])
      /\ Remainder(r, delta)["net"] = AtLeastZero(delta["net"] - r["net"])
      /\ Remainder(r, delta)["cpu"] = AtLeastZero(delta["cpu"] - r["cpu"])
  BY <1>1 DEF RefundAfter, Remainder
<1>4. QED  BY <1>1, <1>2, <1>3 DEF Sum, AtLeastZero

-----------------------------------------------------------------------------
(* What a change of stake comes to.                                        *)
Change(owner, payer, receiver, delta, refund, paid) ==
  /\ delta \in [Kind -> Int] /\ refund \in Weights /\ paid \in Nat
  /\ \A k \in Kind : del[owner][receiver][k] + delta[k] >= 0 /\ totals[receiver][k] + delta[k] >= 0
  /\ Sum(refund) - paid = Sum(refunds[owner]) - Sum(delta)
  /\ \/ Sum(delta) > 0 /\ paid <= Sum(delta) /\ Sum(refund) <= Sum(refunds[owner])
     \/ Sum(delta) < 0 /\ paid = 0 /\ payer = owner
  /\ paid <= liquid[payer]
  /\ del' = [del EXCEPT ![owner][receiver] = Plus(@, delta)]
  /\ totals' = [totals EXCEPT ![receiver] = Plus(@, delta)]
  /\ refunds' = [refunds EXCEPT ![owner] = refund]
  /\ request_time' = [request_time EXCEPT ![owner] = IF Sum(delta) < 0 THEN now ELSE @]
  /\ \E t \in {0, now + RefundDelay} : due' = [due EXCEPT ![owner] = t]
  /\ attempted' \in {attempted, attempted \ {owner}}
  /\ liquid' = [liquid EXCEPT ![payer] = @ - paid]
  /\ stake_balance' = stake_balance + paid
  /\ UNCHANGED now

LEMMA ChangeBwIsChange ==
  ASSUME TypeOK, NEW source \in Name, NEW receiver \in Name, NEW delta \in [Kind -> Int],
         NEW transfer \in BOOLEAN, ChangeBw(source, receiver, delta, transfer),
         \/ Sum(delta) > 0 /\ \A k \in Kind : delta[k] >= 0
         \/ Sum(delta) < 0 /\ transfer = FALSE /\ \A k \in Kind : delta[k] <= 0
  PROVE  \E owner, payer \in Name, refund \in Weights, paid \in Nat : Change(owner, payer, receiver, delta, refund, paid)
<1> DEFINE owner == IF transfer THEN receiver ELSE source
           usesRefund == Sum(delta) < 0 \/ (~transfer /\ owner = receiver)
           refund == IF usesRefund THEN RefundAfter(refunds[owner], delta) ELSE refunds[owner]
           paid == IF usesRefund THEN Sum(Remainder(refunds[owner], delta)) ELSE Sum(delta)
           t == IF usesRefund /\ Sum(refund) > 0 THEN now + RefundDelay ELSE 0
<1>1. owner \in Name /\ (Sum(delta) < 0 => owner = source)
  <2>1. Sum(delta) \in Int
    BY SumType
  <2>2. Sum(delta) < 0 => ~(Sum(delta) > 0)
    BY <2>1
  <2>3. Sum(delta) < 0 => transfer = FALSE
    BY <2>2, Zenon
  <2>4. QED  BY <2>3, Zenon
<1>2. /\ \A k \in Kind : del[owner][receiver][k] + delta[k] >= 0
      /\ \A k \in Kind : totals[receiver][k] + delta[k] >= 0
      /\ paid <= liquid[source]
      /\ del' = [del EXCEPT ![owner][receiver] = Plus(@, delta)]
      /\ totals' = [totals EXCEPT ![receiver] = Plus(@, delta)]
      /\ refunds' = [refunds EXCEPT ![owner] = refund]
      /\ request_time' = [request_time EXCEPT ![owner] = RequestTime(owner, delta)]
      /\ due' = [due EXCEPT ![owner] = t]
      /\ attempted' = IF usesRefund THEN attempted \ {owner} ELSE attempted
      /\ liquid' = [liquid EXCEPT ![source] = @ - paid]
      /\ stake_balance' = stake_balance + paid
      /\ UNCHANGED now
  BY Zenon DEF ChangeBw, TotalsRow, DueTime
<1>3. refunds[owner] \in Weights /\ Sum(refunds[owner]) \in Nat /\ Sum(delta) \in Int
  BY <1>1, SumType DEF TypeOK
<1> HIDE DEF owner
<1>4. /\ RefundAfter(refunds[owner], delta) \in Weights
      /\ Sum(RefundAfter(refunds[owner], delta)) \in Nat
      /\ Sum(Remainder(refunds[owner], delta)) \in Nat
      /\ Sum(RefundAfter(refunds[owner], delta)) - Sum(Remainder(refunds[owner], delta))
           = Sum(refunds[owner]) - Sum(delta)
      /\ (\A k \in Kind : delta[k] >= 0) => Sum(Remainder(refunds[owner], delta)) <= Sum(delta)
      /\ (\A k \in Kind : delta[k] <= 0) => Sum(Remainder(refunds[owner], delta)) = 0
  BY <1>3, RefundCovers, SumType
<1>5. /\ refund \in Weights /\ paid \in Nat
      /\ Sum(refund) - paid = Sum(refunds[owner]) - Sum(delta)
      /\ \/ Sum(delta) > 0 /\ paid <= Sum(delta) /\ Sum(refund) <= Sum(refunds[owner])
         \/ Sum(delta) < 0 /\ paid = 0
  <2>1. CASE usesRefund
    BY <1>3, <1>4, <2>1
  <2>2. CASE ~usesRefund
    BY <1>3, <2>2
  <2>3. QED  BY <2>1, <2>2
<1>6. /\ t \in {0, now + RefundDelay} /\ due' = [due EXCEPT ![owner] = t]
      /\ attempted' \in {attempted, attempted \ {owner}}
  BY <1>2
<1>7. request_time' = [request_time EXCEPT ![owner] = IF Sum(delta) < 0 THEN now ELSE @]
  BY <1>2 DEF RequestTime
<1> HIDE DEF refund, paid, t, usesRefund
<1>8. Change(owner, source, receiver, delta, refund, paid)
  <2>1. Sum(delta) < 0 => source = owner
    BY <1>1, Zenon
  <2>2. \/ Sum(delta) > 0 /\ paid <= Sum(delta) /\ Sum(refund) <= Sum(refunds[owner])
        \/ Sum(delta) < 0 /\ paid = 0 /\ source = owner
    BY <1>5, <2>1, Zenon
  <2>3. QED  BY <1>2, <1>5, <1>6, <1>7, <2>2, Zenon DEF Change
<1>9. QED  BY <1>1, <1>5, <1>8, Zenon

-----------------------------------------------------------------------------
(* The types.                                                              *)
LEMMA StakeInit == Init => StakeInv
<1> SUFFICES ASSUME Init PROVE StakeInv
  OBVIOUS
<1>1. TypeOK
  BY StakeConstants, SumType DEF Init, TypeOK
<1>2. RequestsArePast /\ DeferredIsNotEarly
  BY DEF Init, RequestsArePast, DeferredIsNotEarly
<1>3. TotalsAreSums
  <2> SUFFICES ASSUME NEW b \in Name, NEW k \in Kind
               PROVE  totals[b][k] = AccountTotal([a \in Name |-> del[a][b][k]], N)
    BY DEF TotalsAreSums
  <2>1. \A i \in 1..N : [a \in Name |-> del[a][b][k]][i] = 0
    BY DEF Init, Name, None
  <2>2. AccountTotal([a \in Name |-> del[a][b][k]], N) = 0
    BY <2>1, StakeConstants, AccountTotalZero
  <2>3. QED  BY <2>2 DEF Init, None
<1>4. StakeIsBacked
  <2>1. \A a \in Name : StakedBy(a) = 0
    <3> SUFFICES ASSUME NEW a \in Name PROVE StakedBy(a) = 0
      OBVIOUS
    <3>1. \A i \in 1..N : [b \in Name |-> Sum(del[a][b])][i] = 0
      BY SumType DEF Init, Name
    <3>2. QED  BY <3>1, StakeConstants, AccountTotalZero DEF StakedBy
  <2>2. \A i \in 1..N : [a \in Name |-> StakedBy(a) + Returning(a)][i] = 0
    BY <2>1, SumType DEF Init, Name, Returning
  <2>3. QED  BY <2>2, StakeConstants, AccountTotalZero DEF Init, StakeIsBacked
<1>5. QED  BY <1>1, <1>2, <1>3, <1>4 DEF StakeInv

(* A change of one account's term changes the sum over all.                *)
LEMMA OneTerm ==
  ASSUME NEW f \in [Name -> Int], NEW g \in [Name -> Int], NEW k \in Name,
         \A i \in Name : i # k => g[i] = f[i]
  PROVE  AccountTotal(g, N) = AccountTotal(f, N) - f[k] + g[k] /\ AccountTotal(f, N) \in Int
<1>1. N \in Nat /\ Name = 1..N
  BY StakeConstants DEF Name
<1>2. \A i \in 1..N : f[i] \in Int /\ g[i] \in Int
  BY <1>1
<1>3. k \in 1..N /\ \A i \in 1..N : i # k => g[i] = f[i]
  BY <1>1
<1>4. AccountTotal(g, N) = AccountTotal(f, N) - f[k] + g[k]
  BY <1>1, <1>2, <1>3, AccountTotalChange
<1>5. AccountTotal(f, N) \in Int
  BY <1>1, <1>2, AccountTotalType
<1>6. QED  BY <1>4, <1>5

LEMMA StakedByType ==
  ASSUME TypeOK, NEW a \in Name
  PROVE  /\ StakedBy(a) \in Nat
         /\ \A b \in Name : Sum(del[a][b]) \in Nat /\ Sum(del[a][b]) <= StakedBy(a)
<1> DEFINE f == [b \in Name |-> Sum(del[a][b])]
<1>1. \A b \in Name : Sum(del[a][b]) \in Nat
  BY SumType DEF TypeOK
<1>2. \A i \in 1..N : f[i] \in Nat
  BY <1>1 DEF Name
<1>3. N \in Nat
  BY StakeConstants
<1> HIDE DEF f
<1>4. AccountTotal(f, N) \in Nat /\ \A i \in 1..N : f[i] <= AccountTotal(f, N)
  BY <1>2, <1>3, AccountTotalNat
<1>5. QED  BY <1>1, <1>4 DEF StakedBy, f, Name

LEMMA ChangeTypes ==
  ASSUME TypeOK, NEW owner \in Name, NEW payer \in Name, NEW receiver \in Name,
         NEW delta, NEW refund, NEW paid, Change(owner, payer, receiver, delta, refund, paid)
  PROVE  TypeOK'
<1>1. del' \in [Name -> [Name -> Weights]] /\ totals' \in [Name -> Weights]
  <2>1. /\ del[owner][receiver] \in Weights /\ totals[receiver] \in Weights /\ delta \in [Kind -> Int]
        /\ \A k \in Kind : del[owner][receiver][k] + delta[k] >= 0
        /\ \A k \in Kind : totals[receiver][k] + delta[k] >= 0
    BY DEF TypeOK, Change
  <2>2. Plus(del[owner][receiver], delta) \in Weights /\ Plus(totals[receiver], delta) \in Weights
    BY <2>1, PlusSum
  <2>3. /\ del' = [del EXCEPT ![owner][receiver] = Plus(@, delta)]
        /\ totals' = [totals EXCEPT ![receiver] = Plus(@, delta)]
    BY DEF Change
  <2>4. QED  BY <2>2, <2>3 DEF TypeOK
<1>2. /\ refunds' \in [Name -> Weights] /\ request_time' \in [Name -> Nat] /\ now' \in Nat
      /\ attempted' \in SUBSET Name
  BY DEF TypeOK, Change
<1>3. due' \in [Name -> Nat]
  BY StakeConstants DEF TypeOK, Change
<1>4. liquid' \in [Name -> Nat] /\ stake_balance' \in Nat
  BY DEF TypeOK, Change
<1>5. QED  BY <1>1, <1>2, <1>3, <1>4 DEF TypeOK

(* What a change does to the stake of each account.                        *)
LEMMA ChangeStaked ==
  ASSUME TypeOK, TypeOK', NEW owner \in Name, NEW payer \in Name, NEW receiver \in Name,
         NEW delta, NEW refund, NEW paid, Change(owner, payer, receiver, delta, refund, paid)
  PROVE  /\ StakedBy(owner)' = StakedBy(owner) + Sum(delta)
         /\ \A a \in Name : a # owner => StakedBy(a)' = StakedBy(a)
         /\ \A a \in Name : StakedBy(a)' \in Nat
<1>1. /\ del' = [del EXCEPT ![owner][receiver] = Plus(del[owner][receiver], delta)]
      /\ del[owner][receiver] \in Weights /\ delta \in [Kind -> Int]
      /\ \A k \in Kind : del[owner][receiver][k] + delta[k] >= 0
      /\ del \in [Name -> [Name -> Weights]]
  BY DEF TypeOK, Change
<1>2. \A a \in Name : a # owner => StakedBy(a)' = StakedBy(a)
  BY <1>1 DEF StakedBy
<1>3. \A a \in Name : StakedBy(a)' = AccountTotal([b \in Name |-> Sum(del'[a][b])], N)
  BY DEF StakedBy
<1>4. \A a \in Name : StakedBy(a)' \in Nat
  <2> SUFFICES ASSUME NEW a \in Name PROVE AccountTotal([b \in Name |-> Sum(del'[a][b])], N) \in Nat
    BY <1>3
  <2>1. \A b \in Name : Sum(del'[a][b]) \in Nat
    BY SumType DEF TypeOK
  <2>2. \A i \in 1..N : [b \in Name |-> Sum(del'[a][b])][i] \in Nat
    BY <2>1 DEF Name
  <2>3. QED  BY <2>2, StakeConstants, AccountTotalNat
<1>5. StakedBy(owner)' = StakedBy(owner) + Sum(delta)
  <2> DEFINE f == [b \in Name |-> Sum(del[owner][b])]
             g == [b \in Name |-> Sum(del'[owner][b])]
  <2>1. f \in [Name -> Int] /\ g \in [Name -> Int]
    <3>1. \A b \in Name : Sum(del[owner][b]) \in Nat /\ Sum(del'[owner][b]) \in Nat
      BY SumType DEF TypeOK
    <3>2. QED  BY <3>1
  <2>2. del'[owner][receiver] = Plus(del[owner][receiver], delta)
    BY <1>1
  <2>3. g[receiver] = f[receiver] + Sum(delta) /\ f[receiver] \in Int /\ Sum(delta) \in Int
    BY <1>1, <2>1, <2>2, PlusSum, SumType
  <2>4. \A b \in Name : b # receiver => g[b] = f[b]
    BY <1>1
  <2>5. StakedBy(owner) = AccountTotal(f, N) /\ StakedBy(owner)' = AccountTotal(g, N)
    BY <1>3 DEF StakedBy
  <2> HIDE DEF f, g
  <2>6. AccountTotal(g, N) = AccountTotal(f, N) - f[receiver] + g[receiver] /\ AccountTotal(f, N) \in Int
    BY <2>1, <2>4, OneTerm
  <2>7. QED  BY <2>3, <2>5, <2>6
<1>6. QED  BY <1>2, <1>4, <1>5

-----------------------------------------------------------------------------
LEMMA ChangeStep ==
  ASSUME StakeInv, NEW owner \in Name, NEW payer \in Name, NEW receiver \in Name,
         NEW delta, NEW refund, NEW paid, Change(owner, payer, receiver, delta, refund, paid)
  PROVE  StakeInv'
<1>i. TypeOK /\ RequestsArePast /\ DeferredIsNotEarly /\ TotalsAreSums /\ StakeIsBacked
  BY DEF StakeInv
<1>1. TypeOK'
  BY <1>i, ChangeTypes
<1>2. RequestsArePast' /\ DeferredIsNotEarly'
  <2>1. /\ now' = now /\ now \in Nat /\ RefundDelay \in Nat
        /\ \A a \in Name : a # owner =>
             /\ request_time'[a] = request_time[a] /\ due'[a] = due[a] /\ refunds'[a] = refunds[a]
        /\ request_time'[owner] \in {now, request_time[owner]}
        /\ due'[owner] \in {0, now + RefundDelay}
    BY <1>i, StakeConstants DEF TypeOK, Change
  <2>2. \A a \in Name : request_time[a] \in Nat /\ request_time[a] <= now
    BY <1>i DEF TypeOK, RequestsArePast
  <2>3. RequestsArePast'
    BY <2>1, <2>2 DEF RequestsArePast
  <2>4. DeferredIsNotEarly'
    <3> SUFFICES ASSUME NEW a \in Name, due'[a] > 0, HasRefund(a)'
                 PROVE  request_time'[a] + RefundDelay <= due'[a]
      BY DEF DeferredIsNotEarly
    <3>1. CASE a = owner
      BY <2>1, <2>2, <3>1
    <3>2. CASE a # owner
      BY <1>i, <2>1, <3>2 DEF DeferredIsNotEarly, HasRefund
    <3>3. QED  BY <3>1, <3>2
  <2>5. QED  BY <2>3, <2>4
<1>3. TotalsAreSums'
  <2> SUFFICES ASSUME NEW b \in Name, NEW k \in Kind
               PROVE  totals'[b][k] = AccountTotal([a \in Name |-> del'[a][b][k]], N)
    BY DEF TotalsAreSums
  <2> DEFINE f == [a \in Name |-> del[a][b][k]]
             g == [a \in Name |-> del'[a][b][k]]
  <2>1. /\ del' = [del EXCEPT ![owner][receiver] = Plus(del[owner][receiver], delta)]
        /\ totals' = [totals EXCEPT ![receiver] = Plus(totals[receiver], delta)]
        /\ del[owner][receiver] \in Weights /\ totals[receiver] \in Weights /\ delta \in [Kind -> Int]
        /\ \A j \in Kind : del[owner][receiver][j] + delta[j] >= 0
        /\ \A j \in Kind : totals[receiver][j] + delta[j] >= 0
        /\ del \in [Name -> [Name -> Weights]] /\ totals \in [Name -> Weights]
    BY <1>i DEF TypeOK, Change
  <2>2. totals[b][k] = AccountTotal(f, N)
    BY <1>i DEF TotalsAreSums
  <2>3. CASE b = receiver
    <3>1. /\ Plus(del[owner][receiver], delta)[k] = del[owner][receiver][k] + delta[k]
          /\ Plus(totals[receiver], delta)[k] = totals[receiver][k] + delta[k]
      BY <2>1, PlusSum
    <3>2. totals'[b][k] = totals[b][k] + delta[k]
      BY <2>1, <2>3, <3>1
    <3>3. f \in [Name -> Int] /\ g \in [Name -> Int]
      <4>1. \A a \in Name : del[a][b][k] \in Nat /\ del'[a][b][k] \in Nat
        BY <1>i, <1>1 DEF TypeOK, Weights
      <4>2. QED  BY <4>1
    <3>4. g[owner] = f[owner] + delta[k] /\ delta[k] \in Int /\ f[owner] \in Int
      BY <2>1, <2>3, <3>1, <3>3
    <3>5. \A a \in Name : a # owner => g[a] = f[a]
      BY <2>1
    <3> HIDE DEF f, g
    <3>6. AccountTotal(g, N) = AccountTotal(f, N) - f[owner] + g[owner] /\ AccountTotal(f, N) \in Int
      BY <3>3, <3>5, OneTerm
    <3>7. totals'[b][k] = AccountTotal(g, N)
      BY <2>2, <3>2, <3>4, <3>6
    <3>8. QED  BY <3>7 DEF g
  <2>4. CASE b # receiver
    <3>1. totals'[b] = totals[b] /\ \A a \in Name : del'[a][b] = del[a][b]
      BY <2>1, <2>4
    <3>2. g = f
      BY <3>1
    <3>3. QED  BY <2>2, <3>1, <3>2
  <2>5. QED  BY <2>3, <2>4
<1>4. StakeIsBacked'
  <2> DEFINE f == [a \in Name |-> StakedBy(a) + Returning(a)]
             g == [a \in Name |-> StakedBy(a)' + Returning(a)']
  <2>1. /\ StakedBy(owner)' = StakedBy(owner) + Sum(delta)
        /\ \A a \in Name : a # owner => StakedBy(a)' = StakedBy(a)
        /\ \A a \in Name : StakedBy(a)' \in Nat
    BY <1>i, <1>1, ChangeStaked
  <2>2. \A a \in Name : StakedBy(a) \in Nat /\ Returning(a) \in Nat /\ Returning(a)' \in Nat
    BY <1>i, <1>1, StakedByType, SumType DEF TypeOK, Returning
  <2>3. /\ \A a \in Name : a # owner => Returning(a)' = Returning(a)
        /\ Returning(owner)' = Sum(refund) /\ Sum(refund) \in Nat /\ Sum(delta) \in Int
        /\ Sum(refund) - paid = Sum(refunds[owner]) - Sum(delta) /\ paid \in Nat
        /\ stake_balance' = stake_balance + paid
    BY <1>i, SumType DEF TypeOK, Change, Returning
  <2>4. f \in [Name -> Int] /\ g \in [Name -> Int] /\ \A a \in Name : a # owner => g[a] = f[a]
    BY <2>1, <2>2, <2>3
  <2>5. g[owner] = f[owner] + paid
    <3>1. f[owner] = StakedBy(owner) + Sum(refunds[owner]) /\ Sum(refunds[owner]) \in Nat
      BY <2>2 DEF Returning
    <3>2. g[owner] = StakedBy(owner) + Sum(delta) + Sum(refund)
      BY <2>1, <2>3
    <3>3. QED  BY <2>2, <2>3, <3>1, <3>2
  <2>6. stake_balance = AccountTotal(f, N)
    BY <1>i DEF StakeIsBacked
  <2>7. g[owner] - f[owner] = paid /\ f[owner] \in Int /\ g[owner] \in Int
    BY <2>3, <2>4, <2>5
  <2> HIDE DEF f, g
  <2>8. AccountTotal(g, N) = AccountTotal(f, N) - f[owner] + g[owner] /\ AccountTotal(f, N) \in Int
    BY <2>4, OneTerm
  <2>9. stake_balance' = AccountTotal(g, N)
    BY <2>3, <2>6, <2>7, <2>8
  <2>10. QED  BY <2>9 DEF StakeIsBacked, g
<1>5. QED  BY <1>1, <1>2, <1>3, <1>4 DEF StakeInv

(* Deltas of either sign.                                                  *)
LEMMA Quantities ==
  ASSUME NEW q \in [Kind -> 0..MaxStake], Sum(q) > 0
  PROVE  LET minus == [k \in Kind |-> -q[k]] IN
         /\ q \in [Kind -> Int] /\ \A k \in Kind : q[k] >= 0
         /\ minus \in [Kind -> Int] /\ Sum(minus) < 0 /\ Sum(minus) = -Sum(q)
         /\ \A k \in Kind : minus[k] <= 0
<1>1. \A k \in Kind : q[k] \in Int /\ q[k] >= 0
  BY StakeConstants
<1>2. "net" \in Kind /\ "cpu" \in Kind
  BY DEF Kind
<1>3. QED  BY <1>1, <1>2 DEF Sum

(* Delegating and undelegating are changes.                                *)
LEMMA DelegationIsChange ==
  ASSUME TypeOK, NEW from \in Name, NEW receiver \in Name, NEW q \in [Kind -> 0..MaxStake],
         \/ \E transfer \in BOOLEAN : DelegateBw(from, receiver, q, transfer)
         \/ UndelegateBw(from, receiver, q)
  PROVE  \E owner, payer \in Name, delta \in [Kind -> Int], refund \in Weights, paid \in Nat :
           Change(owner, payer, receiver, delta, refund, paid)
<1>1. Sum(q) > 0
  BY DEF DelegateBw, UndelegateBw
<1> DEFINE minus == [k \in Kind |-> -q[k]]
<1>2. /\ q \in [Kind -> Int] /\ \A k \in Kind : q[k] >= 0
      /\ minus \in [Kind -> Int] /\ Sum(minus) < 0
      /\ \A k \in Kind : minus[k] <= 0
  BY <1>1, Quantities
<1>3. ASSUME NEW transfer \in BOOLEAN, DelegateBw(from, receiver, q, transfer)
      PROVE  \E owner, payer \in Name, refund \in Weights, paid \in Nat : Change(owner, payer, receiver, q, refund, paid)
  <2>1. ChangeBw(from, receiver, q, transfer)
    BY <1>3, Zenon DEF DelegateBw
  <2> HIDE DEF minus
  <2>2. QED  BY <1>1, <1>2, <2>1, ChangeBwIsChange, Zenon
<1>4. ASSUME UndelegateBw(from, receiver, q)
      PROVE  \E owner, payer \in Name, refund \in Weights, paid \in Nat : Change(owner, payer, receiver, minus, refund, paid)
  <2>1. ChangeBw(from, receiver, minus, FALSE)
    BY <1>4, Zenon DEF UndelegateBw
  <2> HIDE DEF minus
  <2>2. FALSE \in BOOLEAN
    OBVIOUS
  <2>3. QED  BY <1>2, <2>1, <2>2, ChangeBwIsChange, Zenon
<1> HIDE DEF minus
<1>5. QED  BY <1>2, <1>3, <1>4, Zenon

(* Refunds, by hand or deferred.                                           *)
LEMMA PayRefundKeeps ==
  ASSUME StakeInv, NEW a \in Name, PayRefund(a), UNCHANGED <<now, del, totals, request_time>>,
         due' \in {due, [due EXCEPT ![a] = 0]}
  PROVE  StakeInv'
<1>i. TypeOK /\ RequestsArePast /\ DeferredIsNotEarly /\ TotalsAreSums /\ StakeIsBacked
  BY DEF StakeInv
<1>r. refunds' = [refunds EXCEPT ![a] = None] /\ stake_balance' = stake_balance - Sum(refunds[a])
  BY DEF PayRefund
<1> DEFINE f == [b \in Name |-> StakedBy(b) + Returning(b)]
           g == [b \in Name |-> StakedBy(b) + Returning(b)']
<1>1. \A b \in Name : StakedBy(b) \in Nat /\ Returning(b) \in Nat /\ Returning(b) = Sum(refunds[b])
  BY <1>i, StakedByType, SumType DEF TypeOK, Returning
<1>2. Returning(a)' = 0 /\ \A b \in Name : b # a => Returning(b)' = Returning(b)
  BY <1>i, <1>r, SumType DEF TypeOK, Returning
<1>3. \A b \in Name : StakedBy(b)' = StakedBy(b)
  BY DEF StakedBy
<1>4. f \in [Name -> Int] /\ g \in [Name -> Int] /\ \A b \in Name : b # a => g[b] = f[b]
  BY <1>1, <1>2
<1>5. f[a] - g[a] = Sum(refunds[a]) /\ f[a] \in Nat /\ g[a] \in Nat /\ Sum(refunds[a]) \in Nat
  BY <1>1, <1>2
<1>6. stake_balance = AccountTotal(f, N) /\ \A i \in 1..N : f[i] \in Nat /\ g[i] \in Nat
  BY <1>i, <1>1, <1>2 DEF StakeIsBacked, Name
<1> HIDE DEF f, g
<1>7. AccountTotal(g, N) = AccountTotal(f, N) - f[a] + g[a] /\ AccountTotal(f, N) \in Int
  BY <1>4, OneTerm
<1>8. AccountTotal(g, N) \in Nat
  BY <1>6, StakeConstants, AccountTotalNat
<1>9. stake_balance' = AccountTotal(g, N)
  BY <1>r, <1>5, <1>6, <1>7
<1>10. StakeIsBacked'
  BY <1>3, <1>9 DEF StakeIsBacked, g
<1>11. TypeOK'
  <2>1. liquid' \in [Name -> Nat] /\ refunds' \in [Name -> Weights] /\ attempted' \in SUBSET Name
    BY <1>i, <1>r, <1>5, SumType DEF TypeOK, PayRefund
  <2>2. due' \in [Name -> Nat]
    BY <1>i DEF TypeOK
  <2>3. stake_balance' \in Nat
    BY <1>8, <1>9
  <2>4. QED  BY <1>i, <2>1, <2>2, <2>3 DEF TypeOK
<1>12. RequestsArePast' /\ TotalsAreSums'
  BY <1>i DEF RequestsArePast, TotalsAreSums
<1>13. DeferredIsNotEarly'
  <2> SUFFICES ASSUME NEW b \in Name, due'[b] > 0, HasRefund(b)'
               PROVE  request_time[b] + RefundDelay <= due'[b]
    BY DEF DeferredIsNotEarly
  <2>1. b # a
    BY <1>2 DEF HasRefund, Returning
  <2>2. due'[b] = due[b] /\ refunds'[b] = refunds[b]
    BY <1>i, <1>r, <2>1 DEF TypeOK
  <2>3. QED  BY <1>i, <2>2 DEF DeferredIsNotEarly, HasRefund
<1>14. QED  BY <1>10, <1>11, <1>12, <1>13 DEF StakeInv

(* A deferred call that pays nothing only disappears.                      *)
LEMMA DroppedCallKeeps ==
  ASSUME StakeInv, NEW a \in Name, due' = [due EXCEPT ![a] = 0], attempted' \in SUBSET Name,
         UNCHANGED <<now, liquid, stake_balance, del, totals, refunds, request_time>>
  PROVE  StakeInv'
<1>i. TypeOK /\ RequestsArePast /\ DeferredIsNotEarly /\ TotalsAreSums /\ StakeIsBacked
  BY DEF StakeInv
<1>1. TypeOK'
  BY <1>i DEF TypeOK
<1>2. RequestsArePast' /\ TotalsAreSums'
  BY <1>i DEF RequestsArePast, TotalsAreSums
<1>3. StakeIsBacked'
  BY <1>i DEF StakeIsBacked, StakedBy, Returning
<1>4. DeferredIsNotEarly'
  BY <1>i DEF TypeOK, DeferredIsNotEarly, HasRefund
<1>5. QED  BY <1>1, <1>2, <1>3, <1>4 DEF StakeInv

LEMMA RefundSteps ==
  ASSUME StakeInv, NEW a \in Name, Refund(a) \/ DeferredRefund(a)
  PROVE  StakeInv'
<1>1. CASE Refund(a)
  BY <1>1, PayRefundKeeps DEF Refund
<1>2. CASE DeferredRefund(a)
  <2>1. /\ due' = [due EXCEPT ![a] = 0] /\ UNCHANGED <<now, del, totals, request_time>>
        /\ \/ PayRefund(a)
           \/ /\ attempted' = attempted \union {b \in {a} : HasRefund(b)}
              /\ UNCHANGED <<liquid, stake_balance, refunds>>
    BY <1>2 DEF DeferredRefund
  <2>2. CASE PayRefund(a)
    BY <2>1, <2>2, PayRefundKeeps
  <2>3. CASE /\ attempted' = attempted \union {b \in {a} : HasRefund(b)}
             /\ UNCHANGED <<liquid, stake_balance, refunds>>
    <3>1. attempted' \in SUBSET Name
      BY <2>3 DEF StakeInv, TypeOK
    <3>2. QED  BY <2>1, <2>3, <3>1, DroppedCallKeeps
  <2>4. QED  BY <2>1, <2>2, <2>3
<1>3. QED  BY <1>1, <1>2

LEMMA TickKeeps ==
  ASSUME StakeInv, Tick
  PROVE  StakeInv'
<1>i. TypeOK /\ RequestsArePast /\ DeferredIsNotEarly /\ TotalsAreSums /\ StakeIsBacked
  BY DEF StakeInv
<1>u. UNCHANGED <<liquid, stake_balance, del, totals, refunds, request_time, due, attempted>>
  BY DEF Tick
<1>1. TypeOK' /\ RequestsArePast'
  BY <1>i DEF Tick, TypeOK, RequestsArePast
<1>2. DeferredIsNotEarly' /\ TotalsAreSums'
  BY <1>i, <1>u DEF DeferredIsNotEarly, HasRefund, TotalsAreSums
<1>3. StakeIsBacked'
  BY <1>i, <1>u DEF StakeIsBacked, StakedBy, Returning
<1>4. QED  BY <1>1, <1>2, <1>3 DEF StakeInv

-----------------------------------------------------------------------------
LEMMA StakeStep == StakeInv /\ [Next]_vars => StakeInv'
<1> SUFFICES ASSUME StakeInv, [Next]_vars PROVE StakeInv'
  OBVIOUS
<1>1. ASSUME NEW from \in Name, NEW receiver \in Name, NEW q \in [Kind -> 0..MaxStake],
             \/ \E transfer \in BOOLEAN : DelegateBw(from, receiver, q, transfer)
             \/ UndelegateBw(from, receiver, q)
      PROVE  StakeInv'
  <2>1. PICK owner \in Name, payer \in Name, delta \in [Kind -> Int], refund \in Weights, paid \in Nat :
               Change(owner, payer, receiver, delta, refund, paid)
    BY <1>1, DelegationIsChange DEF StakeInv
  <2>2. QED  BY <2>1, ChangeStep
<1>2. ASSUME NEW a \in Name, Refund(a) \/ DeferredRefund(a) PROVE StakeInv'
  BY <1>2, RefundSteps
<1>3. CASE Tick
  BY <1>3, TickKeeps
<1>4. CASE UNCHANGED vars
  <2>1. UNCHANGED <<now, liquid, stake_balance, del, totals, refunds, request_time, due, attempted>>
    BY <1>4 DEF vars
  <2>2. TypeOK' /\ RequestsArePast' /\ DeferredIsNotEarly' /\ TotalsAreSums'
    BY <2>1 DEF StakeInv, TypeOK, RequestsArePast, DeferredIsNotEarly, HasRefund, TotalsAreSums
  <2>3. StakeIsBacked'
    BY <2>1 DEF StakeInv, StakeIsBacked, StakedBy, Returning
  <2>4. QED  BY <2>2, <2>3 DEF StakeInv
<1>5. QED  BY <1>1, <1>2, <1>3, <1>4 DEF Next

THEOREM StakeInvariance == Spec => []StakeInv
BY StakeInit, StakeStep, PTL DEF Spec

(* Every variable keeps its type: no weight, refund or balance goes below  *)
(* 0, whatever is unstaked and staked again.                               *)
THEOREM StakeTypeCorrect == Spec => []TypeOK
<1>1. StakeInv => TypeOK
  BY DEF StakeInv
<1>2. QED  BY <1>1, StakeInvariance, PTL

(* celes.stake holds what is staked and what waits to be refunded.         *)
THEOREM StakeStaysBacked == Spec => []StakeIsBacked
<1>1. StakeInv => StakeIsBacked
  BY DEF StakeInv
<1>2. QED  BY <1>1, StakeInvariance, PTL

(* An account's totals are the sums of the weights delegated to it.        *)
THEOREM TotalsStaySums == Spec => []TotalsAreSums
<1>1. StakeInv => TotalsAreSums
  BY DEF StakeInv
<1>2. QED  BY <1>1, StakeInvariance, PTL

(* No deferred refund comes before refund's check lets it pass.            *)
THEOREM DeferredComesInTime == Spec => []DeferredIsNotEarly
<1>1. StakeInv => DeferredIsNotEarly
  BY DEF StakeInv
<1>2. QED  BY <1>1, StakeInvariance, PTL

-----------------------------------------------------------------------------
(* The refinement: initial states are the vault's, and every step is one   *)
(* of the vault's or leaves it alone.                                      *)
LEMMA VaultInit == Init => Vault!Init
<1> SUFFICES ASSUME Init PROVE Vault!Init
  OBVIOUS
<1>1. now \in Nat /\ liquid \in [Name -> Nat] /\ request_time = [a \in Name |-> 0]
  BY StakeConstants DEF Init
<1>2. \A a \in Name : StakedBy(a) = 0 /\ Returning(a) = 0
  <2> SUFFICES ASSUME NEW a \in Name PROVE StakedBy(a) = 0 /\ Returning(a) = 0
    OBVIOUS
  <2>1. \A i \in 1..N : [b \in Name |-> Sum(del[a][b])][i] = 0
    BY SumType DEF Init, Name
  <2>2. StakedBy(a) = 0
    BY <2>1, StakeConstants, AccountTotalZero DEF StakedBy
  <2>3. QED  BY <2>2, SumType DEF Init, Returning
<1>3. QED  BY <1>1, <1>2 DEF Vault!Init

LEMMA VaultStake ==
  ASSUME StakeInv, StakeInv', NEW owner \in Name, NEW payer \in Name, NEW receiver \in Name,
         NEW delta, NEW refund, NEW paid, Change(owner, payer, receiver, delta, refund, paid)
  PROVE  Vault!Next
<1> DEFINE q == Sum(delta)
<1>1. /\ StakedBy(owner)' = StakedBy(owner) + q
      /\ \A a \in Name : a # owner => StakedBy(a)' = StakedBy(a)
      /\ \A a \in Name : StakedBy(a)' \in Nat
  BY ChangeStaked DEF StakeInv
<1>2. \A a \in Name : StakedBy(a) \in Nat /\ Returning(a) \in Nat /\ liquid[a] \in Nat
  BY StakedByType, SumType DEF StakeInv, TypeOK, Returning
<1>3. /\ \A a \in Name : a # owner => Returning(a)' = Returning(a)
      /\ Returning(owner)' = Sum(refund) /\ Returning(owner) = Sum(refunds[owner])
      /\ Sum(refund) \in Nat /\ q \in Int
  BY SumType DEF StakeInv, TypeOK, Change, Returning
<1>4. /\ paid \in Nat /\ Sum(refund) - paid = Sum(refunds[owner]) - q
      /\ \/ q > 0 /\ paid <= q /\ Sum(refund) <= Sum(refunds[owner])
         \/ q < 0 /\ paid = 0 /\ payer = owner
      /\ paid <= liquid[payer]
      /\ liquid' = [liquid EXCEPT ![payer] = liquid[payer] - paid]
      /\ now' = now
  BY DEF Change
<1>5. request_time' = [request_time EXCEPT ![owner] = IF q < 0 THEN now ELSE request_time[owner]]
  BY DEF Change
<1>6. request_time \in [Name -> Nat] /\ liquid \in [Name -> Nat]
  BY DEF StakeInv, TypeOK
<1> HIDE DEF q
<1>7. CASE q > 0
  <2> DEFINE r == q - paid
  <2>1. /\ r \in 0..q /\ r <= Returning(owner) /\ q - r = paid
        /\ q \in 1..(liquid[payer] + Returning(owner))
    BY <1>2, <1>3, <1>4, <1>7
  <2>2. Sum(refund) = Returning(owner) - r
    BY <1>2, <1>3, <1>4, <1>7
  <2> HIDE DEF r
  <2>3. [a \in Name |-> StakedBy(a)]' = [[a \in Name |-> StakedBy(a)] EXCEPT ![owner] = @ + q]
    BY <1>1
  <2>4. [a \in Name |-> Returning(a)]' = [[a \in Name |-> Returning(a)] EXCEPT ![owner] = @ - r]
    BY <1>3, <2>2
  <2>5. request_time' = request_time
    BY <1>3, <1>5, <1>6, <1>7
  <2>6. liquid' = [liquid EXCEPT ![payer] = @ - (q - r)]
    BY <1>4, <2>1
  <2>7. Vault!Stake(payer, owner, q, r)
    BY <1>4, <2>1, <2>3, <2>4, <2>5, <2>6 DEF Vault!Stake
  <2>8. q \in 1..(liquid[payer] + [a \in Name |-> Returning(a)][owner])
    BY <2>1
  <2>9. QED  BY <2>1, <2>7, <2>8 DEF Vault!Next
<1>8. CASE q < 0
  <2> DEFINE u == -q
  <2>1. u \in 1..StakedBy(owner) /\ u \in Int
    BY <1>1, <1>2, <1>3, <1>8
  <2>2. StakedBy(owner)' = StakedBy(owner) - u /\ Returning(owner)' = Returning(owner) + u
    BY <1>1, <1>2, <1>3, <1>4, <1>8
  <2> HIDE DEF u
  <2>3. [a \in Name |-> StakedBy(a)]' = [[a \in Name |-> StakedBy(a)] EXCEPT ![owner] = @ - u]
    BY <1>1, <2>2
  <2>4. [a \in Name |-> Returning(a)]' = [[a \in Name |-> Returning(a)] EXCEPT ![owner] = @ + u]
    BY <1>3, <2>2
  <2>5. request_time' = [request_time EXCEPT ![owner] = now]
    BY <1>5, <1>8
  <2>6. liquid' = liquid
    <3>1. paid = 0
      BY <1>3, <1>4, <1>8
    <3>2. liquid[payer] - paid = liquid[payer]
      BY <1>2, <3>1
    <3>3. QED  BY <1>4, <1>6, <3>2
  <2>7. Vault!Unstake(owner, u)
    BY <1>4, <2>1, <2>3, <2>4, <2>5, <2>6 DEF Vault!Unstake
  <2>8. u \in 1..[a \in Name |-> StakedBy(a)][owner]
    BY <2>1
  <2>9. QED  BY <2>7, <2>8 DEF Vault!Next
<1>9. QED  BY <1>4, <1>7, <1>8

LEMMA VaultRefund ==
  ASSUME StakeInv, NEW a \in Name, RefundIsDue(a), PayRefund(a),
         UNCHANGED <<now, del, totals, request_time>>
  PROVE  Vault!Next
<1>1. [b \in Name |-> StakedBy(b)]' = [b \in Name |-> StakedBy(b)]
  BY DEF StakedBy
<1>2. refunds' = [refunds EXCEPT ![a] = None] /\ refunds \in [Name -> Weights]
  BY DEF PayRefund, StakeInv, TypeOK
<1>3. [b \in Name |-> Returning(b)]' = [[b \in Name |-> Returning(b)] EXCEPT ![a] = 0]
  <2>1. Returning(a)' = 0 /\ \A b \in Name : b # a => Returning(b)' = Returning(b)
    BY <1>2, SumType DEF Returning
  <2>2. QED  BY <2>1
<1>4. liquid' = [liquid EXCEPT ![a] = @ + [b \in Name |-> Returning(b)][a]]
  BY DEF PayRefund, Returning
<1>5. request_time[a] + RefundDelay <= now
  BY DEF RefundIsDue
<1>6. Vault!Refund(a)
  BY <1>1, <1>3, <1>4, <1>5 DEF Vault!Refund
<1>7. QED  BY <1>6 DEF Vault!Next

LEMMA VaultStep == StakeInv /\ StakeInv' /\ [Next]_vars => [Vault!Next]_Vault!vars
<1> SUFFICES ASSUME StakeInv, StakeInv', [Next]_vars
             PROVE  Vault!Next \/ UNCHANGED Vault!vars
  OBVIOUS
<1>1. ASSUME NEW from \in Name, NEW receiver \in Name, NEW q \in [Kind -> 0..MaxStake],
             \/ \E transfer \in BOOLEAN : DelegateBw(from, receiver, q, transfer)
             \/ UndelegateBw(from, receiver, q)
      PROVE  Vault!Next
  <2>1. PICK owner \in Name, payer \in Name, delta \in [Kind -> Int], refund \in Weights, paid \in Nat :
               Change(owner, payer, receiver, delta, refund, paid)
    BY <1>1, DelegationIsChange DEF StakeInv
  <2>2. QED  BY <2>1, VaultStake
<1>2. ASSUME NEW a \in Name, Refund(a) PROVE Vault!Next
  BY <1>2, VaultRefund DEF Refund
<1>u. ASSUME UNCHANGED <<now, liquid, del, refunds, request_time>> PROVE UNCHANGED Vault!vars
  BY <1>u DEF Vault!vars, StakedBy, Returning
<1>3. ASSUME NEW a \in Name, DeferredRefund(a) PROVE Vault!Next \/ UNCHANGED Vault!vars
  <2>1. /\ UNCHANGED <<now, del, totals, request_time>>
        /\ \/ RefundIsDue(a) /\ PayRefund(a)
           \/ UNCHANGED <<liquid, stake_balance, refunds>>
    BY <1>3 DEF DeferredRefund
  <2>2. CASE RefundIsDue(a) /\ PayRefund(a)
    BY <2>1, <2>2, VaultRefund
  <2>3. CASE UNCHANGED <<liquid, stake_balance, refunds>>
    BY <1>u, <2>1, <2>3
  <2>4. QED  BY <2>1, <2>2, <2>3
<1>4. CASE Tick
  <2>1. now' > now
    BY <1>4 DEF Tick, StakeInv, TypeOK
  <2>2. UNCHANGED <<liquid, del, refunds, request_time>>
    BY <1>4 DEF Tick
  <2>3. Vault!TimePasses
    BY <2>1, <2>2 DEF Vault!TimePasses, StakedBy, Returning
  <2>4. QED  BY <2>3 DEF Vault!Next
<1>5. CASE UNCHANGED vars
  BY <1>5, <1>u DEF vars
<1>6. QED  BY <1>1, <1>2, <1>3, <1>4, <1>5 DEF Next

(* Staking implements the vault, for any accounts, amounts and delay: no   *)
(* account gains or loses tokens but by staking, unstaking and refunds,    *)
(* and no refund is early.                                                 *)
THEOREM StakingImplementsVault == Spec => VaultIsImplemented
<1>1. Spec => []StakeInv
  BY StakeInvariance
<1>2. QED  BY <1>1, VaultInit, VaultStep, PTL DEF Spec, VaultIsImplemented, Vault!Spec
=============================================================================
