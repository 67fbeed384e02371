--------------------------- MODULE RexTheorems ---------------------------
(***************************************************************************)
(* Theorems about REX, for any accounts, amounts and rates.                *)
(*                                                                         *)
(* An action of rex.cpp is many small changes of one database, and between *)
(* two of them the books are off by what is being moved. So the invariant  *)
(* is a predicate on a database, not on the state: Sound(d, b, s) says     *)
(* that d is in order but for s tokens which are in nobody's books. Every  *)
(* operator of Rex has a lemma that says what it does to s and leaves all  *)
(* else sound; an action's lemma composes them and ends with s = 0, which  *)
(* is RexInv. What runrex does with each of its loans and orders is        *)
(* carried along its recursion by SegmentInduction.                        *)
(***************************************************************************)
EXTENDS Rex, AccountSumsTheorems, SequenceTheorems

(* What RexAssumption says, constant by constant.                          *)
LEMMA RexConstants ==
  /\ N \in Nat \ {0} /\ Accounts = 1..N
  /\ Buyers \subseteq Accounts /\ Renters \subseteq Accounts /\ Receivers \subseteq Accounts
  /\ BuyerTokens \in Nat /\ RenterTokens \in Nat /\ Staked \in Nat /\ Fees \in Nat
  /\ RunMax \in Nat /\ MaxLoans \in Nat /\ MaxOverdue \in Nat
  /\ RexRatio \in Nat \ {0} /\ ReserveShare \in Nat \ {0}
  /\ MaturityDays \in Nat \ {0} /\ LoanDays \in Nat \ {0}
  /\ EndOfDays \in Nat /\ EndOfDays > MaturityDays
<1>1. /\ {BuyerTokens, RenterTokens, Staked, Fees, RunMax, MaxLoans, MaxOverdue} \subseteq Nat
      /\ {RexRatio, ReserveShare, MaturityDays, LoanDays} \subseteq Nat \ {0}
      /\ N \in Nat \ {0} /\ Buyers \cup Renters \cup Receivers \subseteq 1..N
  BY RexAssumption DEF RexAssumption
<1>2. /\ BuyerTokens \in Nat /\ RenterTokens \in Nat /\ Staked \in Nat /\ Fees \in Nat
      /\ RunMax \in Nat /\ MaxLoans \in Nat /\ MaxOverdue \in Nat
      /\ RexRatio \in Nat \ {0} /\ ReserveShare \in Nat \ {0}
      /\ MaturityDays \in Nat \ {0} /\ LoanDays \in Nat \ {0}
  BY <1>1, Zenon
<1>3. /\ Buyers \subseteq Accounts /\ Renters \subseteq Accounts /\ Receivers \subseteq Accounts
  BY <1>1 DEF Accounts
<1>4. QED  BY <1>1, <1>2, <1>3 DEF Accounts, EndOfDays

-----------------------------------------------------------------------------
(* The buckets of an account's shares.                                     *)
Buckets == Seq((0..EndOfDays) \X Nat)

(* The shares in all the buckets m, savings included.                      *)
Held(m) == AmountIn(m, Len(m))

(* Buckets are in the order in which they mature; the savings, of day 0 in *)
(* the model and of the end of time in the code, come last.                *)
InTime(m) == \A i \in 2..Len(m) : m[i-1][1] < m[i][1] \/ m[i][1] = 0

(* The latest a bucket matures.                                            *)
Until(m, days) == m # <<>> => m[Len(m)][1] <= days

(* A bucket is a day and a number of shares.                               *)
LEMMA BucketFields ==
  ASSUME NEW m \in Buckets
  PROVE  /\ Len(m) \in Nat
         /\ \A i \in 1..Len(m) : /\ m[i] \in (0..EndOfDays) \X Nat
                                 /\ m[i][1] \in 0..EndOfDays /\ m[i][2] \in Nat
                                 /\ m[i][1] \in Nat
                                 /\ m[i] = <<m[i][1], m[i][2]>>
<1>1. Len(m) \in Nat /\ \A i \in 1..Len(m) : m[i] \in (0..EndOfDays) \X Nat
  BY DEF Buckets
<1>2. \A p \in (0..EndOfDays) \X Nat :
        p[1] \in 0..EndOfDays /\ p[2] \in Nat /\ p[1] \in Nat /\ p = <<p[1], p[2]>>
  BY RexConstants
<1>3. QED  BY <1>1, <1>2, Zenon

(* The first n buckets hold no more than all.                              *)
LEMMA AmountBounds ==
  ASSUME NEW m \in Buckets, NEW n \in 0..Len(m)
  PROVE  AmountIn(m, n) \in Nat /\ Held(m) \in Nat /\ AmountIn(m, n) <= Held(m)
<1> DEFINE f == [i \in 1..Len(m) |-> m[i][2]]
           g == [i \in 1..(Len(m) - n) |-> m[i+n][2]]
<1>1. Len(m) \in Nat /\ n \in Nat /\ Len(m) - n \in Nat
  BY BucketFields
<1>2. \A i \in 1..Len(m) : f[i] \in Nat
  BY BucketFields
<1>3. \A i \in 1..(Len(m) - n) : i + n \in 1..Len(m) /\ g[i] = f[i+n] /\ g[i] \in Nat
  BY <1>1, <1>2
<1>4. AccountTotal(f, Len(m)) = AccountTotal(f, n) + AccountTotal(g, Len(m) - n)
  <2> HIDE DEF f, g
  <2>1. /\ \A i \in 1..Len(m) : f[i] \in Int
        /\ \A i \in 1..(Len(m) - n) : g[i] = f[i+n]
    BY <1>2, <1>3
  <2>2. QED  BY <1>1, <2>1, AccountTotalTail
<1>5. /\ AccountTotal(f, Len(m)) \in Nat /\ AccountTotal(f, n) \in Nat
      /\ AccountTotal(g, Len(m) - n) \in Nat
  <2> HIDE DEF f, g
  <2>1. \A i \in 1..n : f[i] \in Nat
    BY <1>1, <1>2
  <2>2. QED  BY <1>1, <1>2, <1>3, <2>1, AccountTotalNat
<1>6. AmountIn(m, n) = AccountTotal(f, n) /\ Held(m) = AccountTotal(f, Len(m))
  BY DEF AmountIn, Held
<1>7. QED
  <2> HIDE DEF f, g
  <2>1. QED  BY <1>4, <1>5, <1>6

(* An account without shares has no buckets, and all is well with them.    *)
LEMMA NoBuckets == /\ <<>> \in Buckets /\ Held(<<>>) = 0 /\ InTime(<<>>)
                   /\ ~HasSavings(<<>>) /\ \A days : Until(<<>>, days)
<1>1. Held(<<>>) = 0
  <2>1. \A f : AccountTotal(f, 0) = 0
    <3>1. 0 \in Nat /\ \A f : \A i \in 1..0 : f[i] = 0
      OBVIOUS
    <3>2. QED  BY <3>1, AccountTotalZero
  <2>2. QED  BY <2>1 DEF Held, AmountIn
<1>2. QED  BY <1>1 DEF Buckets, InTime, HasSavings, Until

(* A later bucket, or that of the savings, may be put behind the others.   *)
LEMMA Appended ==
  ASSUME NEW m \in Buckets, InTime(m), NEW days \in 0..EndOfDays, NEW x \in Nat,
         m # <<>> => m[Len(m)][1] < days \/ days = 0
  PROVE  LET k == Append(m, <<days, x>>)
         IN /\ k \in Buckets /\ InTime(k) /\ Held(k) = Held(m) + x
            /\ k # <<>> /\ k[Len(k)] = <<days, x>>
<1> DEFINE k == Append(m, <<days, x>>)
<1>1. /\ k \in Buckets /\ Len(k) = Len(m) + 1 /\ k # <<>>
      /\ k[Len(k)] = <<days, x>>
      /\ \A i \in 1..Len(m) : k[i] = m[i]
  <2>1. <<days, x>> \in (0..EndOfDays) \X Nat /\ Len(m) \in Nat
    BY RexConstants, BucketFields
  <2>2. k \in Buckets /\ Len(k) = Len(m) + 1 /\ k[Len(m) + 1] = <<days, x>>
    BY <2>1 DEF Buckets
  <2>3. \A i \in 1..Len(m) : k[i] = m[i]
    BY <2>1 DEF Buckets
  <2>4. k # <<>>
    <3>1. Len(k) # 0
      BY <2>1, <2>2
    <3>2. QED  BY <3>1, EmptySeq
  <2>5. QED  BY <2>2, <2>3, <2>4, Zenon
<1>2. InTime(k)
  <2>1. SUFFICES ASSUME NEW i \in 2..Len(k) PROVE k[i-1][1] < k[i][1] \/ k[i][1] = 0
    BY DEF InTime
  <2>2. CASE i \in 2..Len(m)
    <3>1. i \in 1..Len(m) /\ i-1 \in 1..Len(m)
      BY <2>2, BucketFields
    <3>2. k[i] = m[i] /\ k[i-1] = m[i-1]
      BY <1>1, <3>1
    <3>3. QED  BY <2>2, <3>2 DEF InTime
  <2>3. CASE i = Len(k)
    <3>1. i-1 = Len(m) /\ i-1 \in 1..Len(m) /\ m # <<>>
      BY <1>1, <2>3, BucketFields
    <3>2. k[i-1] = m[Len(m)] /\ k[i][1] = days
      BY <1>1, <2>3, <3>1
    <3>3. QED  BY <3>1, <3>2
  <2>4. QED  BY <1>1, <2>2, <2>3, BucketFields
<1>3. Held(k) = Held(m) + x
  <2> DEFINE f == [i \in 1..Len(m) |-> m[i][2]]
             g == [i \in 1..Len(k) |-> k[i][2]]
  <2>1. Len(m) \in Nat /\ Len(k) \in Nat \ {0} /\ Len(k) - 1 = Len(m) /\ Len(k) \in 1..Len(k)
    BY <1>1, BucketFields
  <2>2. \A i \in 1..Len(m) : f[i] \in Int /\ g[i] = f[i]
    BY <1>1, BucketFields
  <2>3. g[Len(k)] = x
    BY <1>1, <2>1
  <2>4. \A i \in 1..Len(k) : g[i] \in Int
    BY <1>1, BucketFields
  <2>5. AccountTotal(g, Len(k)) = AccountTotal(g, Len(m)) + x
    <3> HIDE DEF g, k
    <3>1. QED  BY <2>1, <2>3, <2>4, AccountTotalLast
  <2>6. AccountTotal(g, Len(m)) = AccountTotal(f, Len(m))
    <3> HIDE DEF f, g, k
    <3>1. QED  BY <2>1, <2>2, AccountTotalEqual
  <2>7. QED  BY <2>5, <2>6 DEF Held, AmountIn
<1>4. QED  BY <1>1, <1>2, <1>3

(* The buckets that are left when the last ones go (sellrex, mvtosavings). *)
LEMMA FirstBuckets ==
  ASSUME NEW m \in Buckets, InTime(m), NEW n \in 0..Len(m)
  PROVE  LET k == SubSeq(m, 1, n)
         IN /\ k \in Buckets /\ InTime(k) /\ Held(k) = AmountIn(m, n) /\ Len(k) = n
            /\ \A i \in 1..n : k[i] = m[i]
<1> DEFINE k == SubSeq(m, 1, n)
<1>1. k \in Buckets /\ Len(k) = n /\ \A i \in 1..n : k[i] = m[i]
  <2>1. Len(m) \in Nat /\ n \in Nat /\ \A i \in 1..n : i \in 1..Len(m)
    BY BucketFields
  <2>2. QED  BY <2>1 DEF Buckets
<1>2. InTime(k)
  <2>1. \A i \in 2..n : i \in 1..n /\ i-1 \in 1..n /\ i \in 2..Len(m)
    BY BucketFields
  <2>2. QED  BY <1>1, <2>1 DEF InTime
<1>3. Held(k) = AmountIn(m, n)
  <2> DEFINE f == [i \in 1..Len(m) |-> m[i][2]]
             g == [i \in 1..Len(k) |-> k[i][2]]
  <2>1. n \in Nat /\ \A i \in 1..n : f[i] \in Int /\ g[i] = f[i]
    BY <1>1, BucketFields
  <2>2. AccountTotal(g, n) = AccountTotal(f, n)
    <3> HIDE DEF f, g, k
    <3>1. QED  BY <2>1, AccountTotalEqual
  <2>3. QED  BY <1>1, <2>2 DEF Held, AmountIn
<1>4. QED  BY <1>1, <1>2, <1>3

(* The buckets that are left when the first ones have matured              *)
(* (process_rex_maturities).                                               *)
LEMMA LastBuckets ==
  ASSUME NEW m \in Buckets, InTime(m), NEW n \in 0..Len(m)
  PROVE  LET k == SubSeq(m, n + 1, Len(m))
         IN /\ k \in Buckets /\ InTime(k) /\ Held(k) = Held(m) - AmountIn(m, n)
            /\ k # <<>> => m # <<>> /\ k[Len(k)] = m[Len(m)]
<1> DEFINE k == SubSeq(m, n + 1, Len(m))
<1>1. k \in Buckets /\ Len(k) = Len(m) - n /\ \A i \in 1..(Len(m) - n) : k[i] = m[i+n]
  <2>1. /\ Len(m) \in Nat /\ n \in Nat /\ n + 1 \in Int /\ Len(m) \in Int
        /\ \A i \in (n+1)..Len(m) : m[i] \in (0..EndOfDays) \X Nat
    BY BucketFields
  <2>2. /\ k \in Seq((0..EndOfDays) \X Nat)
        /\ Len(k) = IF n + 1 <= Len(m) THEN Len(m) - (n + 1) + 1 ELSE 0
        /\ \A i \in 1..(Len(m) - (n + 1) + 1) : k[i] = m[(n + 1) + i - 1]
    <3> HIDE DEF k
    <3>1. k = SubSeq(m, n + 1, Len(m))
      BY DEF k
    <3>2. QED  BY <2>1, <3>1, SubSeqProperties
  <2>3. Len(k) = Len(m) - n
    BY <2>1, <2>2
  <2>4. \A i \in 1..(Len(m) - n) : i \in 1..(Len(m) - (n + 1) + 1) /\ (n + 1) + i - 1 = i + n
    BY <2>1
  <2>5. QED
    <3> HIDE DEF k
    <3>1. QED  BY <2>2, <2>3, <2>4 DEF Buckets
<1>2. InTime(k)
  <2>1. \A i \in 2..(Len(m) - n) : /\ i \in 1..(Len(m)-n) /\ i-1 \in 1..(Len(m)-n)
                                 /\ i+n \in 2..Len(m) /\ (i-1)+n = (i+n)-1
    BY BucketFields
  <2>2. \A i \in 2..(Len(m) - n) : k[i] = m[i+n] /\ k[i-1] = m[(i+n)-1]
    <3> HIDE DEF k
    <3>1. QED  BY <1>1, <2>1
  <2>3. \A i \in 2..(Len(m) - n) : k[i-1][1] < k[i][1] \/ k[i][1] = 0
    <3> HIDE DEF k
    <3>1. ASSUME NEW i \in 2..(Len(m) - n) PROVE k[i-1][1] < k[i][1] \/ k[i][1] = 0
      <4>1. m[(i+n)-1][1] < m[i+n][1] \/ m[i+n][1] = 0
        BY <2>1 DEF InTime
      <4>2. QED  BY <2>2, <4>1
    <3>2. QED  BY <3>1
  <2>4. QED
    <3> HIDE DEF k
    <3>1. QED  BY <1>1, <2>3 DEF InTime
<1>3. Held(k) = Held(m) - AmountIn(m, n)
  <2> DEFINE f == [i \in 1..Len(m) |-> m[i][2]]
             g == [i \in 1..Len(k) |-> k[i][2]]
  <2>1. Len(m) \in Nat /\ n \in 0..Len(m) /\ \A i \in 1..Len(m) : f[i] \in Int
    BY BucketFields
  <2>2. \A i \in 1..(Len(m) - n) : g[i] = f[i+n]
    BY <1>1, BucketFields
  <2>3. AccountTotal(f, Len(m)) = AccountTotal(f, n) + AccountTotal(g, Len(m) - n)
    <3> HIDE DEF f, g, k
    <3>1. QED  BY <2>1, <2>2, AccountTotalTail
  <2>4. Held(k) = AccountTotal(g, Len(m) - n)
    BY <1>1 DEF Held, AmountIn
  <2>5. Held(m) = AccountTotal(f, Len(m)) /\ AmountIn(m, n) = AccountTotal(f, n)
    BY DEF Held, AmountIn
  <2>6. Held(k) \in Nat /\ Held(m) \in Nat /\ AmountIn(m, n) \in Nat
    <3>1. Len(k) \in 0..Len(k) /\ k \in Buckets
      BY <1>1, BucketFields
    <3>2. QED
      <4> HIDE DEF k
      <4>1. QED  BY <3>1, AmountBounds
  <2>7. QED
    <3> HIDE DEF f, g, k
    <3>1. QED  BY <2>3, <2>4, <2>5, <2>6
<1>4. k # <<>> => m # <<>> /\ k[Len(k)] = m[Len(m)]
  <2>1. ASSUME k # <<>> PROVE m # <<>> /\ k[Len(k)] = m[Len(m)]
    <3>1. Len(k) # 0
      BY <1>1, <2>1 DEF Buckets
    <3>2. Len(k) \in 1..(Len(m) - n) /\ Len(k) + n = Len(m) /\ Len(m) # 0
      BY <1>1, <3>1, BucketFields
    <3>3. m # <<>>
      BY <3>2, EmptySeq
    <3>4. k[Len(k)] = m[Len(k) + n]
      <4> HIDE DEF k
      <4>1. QED  BY <1>1, <3>2
    <3>5. QED
      <4> HIDE DEF k
      <4>1. QED  BY <3>2, <3>3, <3>4
  <2>2. QED  BY <2>1
<1>5. QED  BY <1>1, <1>2, <1>3, <1>4

-----------------------------------------------------------------------------
(* The last bucket is one of the buckets.                                  *)
LEMMA NonEmptyBuckets ==
  ASSUME NEW m \in Buckets, m # <<>>
  PROVE  Len(m) \in Nat \ {0} /\ Len(m) \in 1..Len(m) /\ Len(m) - 1 \in 0..Len(m)
<1>1. Len(m) \in Nat \ {0}
  BY EmptySeq DEF Buckets
<1>2. QED  BY <1>1

(* All buckets but the last, as they are when the savings are read and     *)
(* taken out (read_rex_savings).                                           *)
LEMMA FrontOf ==
  ASSUME NEW m \in Buckets, InTime(m), m # <<>>
  PROVE  /\ Front(m) \in Buckets /\ InTime(Front(m))
         /\ m[Len(m)][1] # 0 /\ Front(m) # <<>> =>
              Front(m)[Len(Front(m))][1] < m[Len(m)][1]
         /\ Held(Front(m)) = Held(m) - m[Len(m)][2]
<1>1. Len(m) \in Nat \ {0} /\ Len(m) \in 1..Len(m) /\ Len(m) - 1 \in 0..Len(m)
  BY NonEmptyBuckets
<1>2. /\ Front(m) \in Buckets /\ InTime(Front(m)) /\ Held(Front(m)) = AmountIn(m, Len(m) - 1)
      /\ Len(Front(m)) = Len(m) - 1 /\ \A i \in 1..(Len(m) - 1) : Front(m)[i] = m[i]
  BY <1>1, FirstBuckets DEF Front
<1>3. Held(m) = AmountIn(m, Len(m) - 1) + m[Len(m)][2]
  <2> DEFINE f == [i \in 1..Len(m) |-> m[i][2]]
  <2>1. \A i \in 1..Len(m) : f[i] \in Int
    BY BucketFields
  <2>2. AccountTotal(f, Len(m)) = AccountTotal(f, Len(m) - 1) + f[Len(m)]
    <3> HIDE DEF f
    <3>1. QED  BY <1>1, <2>1, AccountTotalLast
  <2>3. QED  BY <1>1, <2>2 DEF Held, AmountIn
<1>4. ASSUME m[Len(m)][1] # 0, Front(m) # <<>>
      PROVE  Front(m)[Len(Front(m))][1] < m[Len(m)][1]
  <2>1. Len(Front(m)) \in Nat \ {0}
    BY <1>2, <1>4, NonEmptyBuckets
  <2>2. Len(m) - 1 \in 1..(Len(m) - 1) /\ Len(m) \in 2..Len(m)
    BY <1>1, <1>2, <2>1
  <2>3. Front(m)[Len(m) - 1] = m[Len(m) - 1]
    BY <1>2, <2>2
  <2>4. QED  BY <1>2, <1>4, <2>2, <2>3 DEF InTime
<1>5. AmountIn(m, Len(m) - 1) \in Nat /\ m[Len(m)][2] \in Nat
  BY <1>1, AmountBounds, BucketFields
<1>6. QED  BY <1>2, <1>3, <1>4, <1>5

(* An amount may be put in a bucket that is no earlier than all others.    *)
LEMMA AddedTo ==
  ASSUME NEW m \in Buckets, InTime(m), NEW days \in 1..EndOfDays, NEW x \in Nat,
         Until(m, days), NEW k, k = AddedBucket(m, days, x)
  PROVE  /\ k \in Buckets /\ InTime(k) /\ Held(k) = Held(m) + x
         /\ k # <<>> /\ k[Len(k)][1] = days
<1>1. CASE m # <<>> /\ m[Len(m)][1] = days
  <2> DEFINE y == m[Len(m)][2] + x
  <2>1. m[Len(m)][2] \in Nat /\ days # 0 /\ y \in Nat
    BY <1>1, NonEmptyBuckets, BucketFields
  <2>2. /\ Front(m) \in Buckets /\ InTime(Front(m))
        /\ Front(m) # <<>> => Front(m)[Len(Front(m))][1] < days
        /\ Held(Front(m)) = Held(m) - m[Len(m)][2]
    BY <1>1, <2>1, FrontOf
  <2>3. k = Append(Front(m), <<days, y>>)
    BY <1>1 DEF AddedBucket
  <2>4. /\ k \in Buckets /\ InTime(k) /\ Held(k) = Held(Front(m)) + y
        /\ k # <<>> /\ k[Len(k)] = <<days, y>>
    <3> HIDE DEF y
    <3>1. QED  BY <2>1, <2>2, <2>3, Appended
  <2>5. Held(m) \in Nat
    BY BucketFields, AmountBounds
  <2>6. QED  BY <2>1, <2>2, <2>4, <2>5
<1>2. CASE ~(m # <<>> /\ m[Len(m)][1] = days)
  <2>1. k = Append(m, <<days, x>>)
    BY <1>2 DEF AddedBucket
  <2>2. m # <<>> => m[Len(m)][1] < days
    <3>1. m # <<>> => m[Len(m)][1] \in Nat
      BY NonEmptyBuckets, BucketFields
    <3>2. QED  BY <1>2, <3>1 DEF Until
  <2>3. /\ k \in Buckets /\ InTime(k) /\ Held(k) = Held(m) + x
        /\ k # <<>> /\ k[Len(k)] = <<days, x>>
    BY <2>1, <2>2, Appended
  <2>4. QED  BY <2>3
<1>3. QED  BY <1>1, <1>2

(* Without savings no bucket matures later than one bought today does.     *)
LEMMA LastBucket ==
  ASSUME NEW m \in Buckets
  PROVE  /\ Until(m, EndOfDays)
         /\ ~HasSavings(m) => Until(m, MaturityDays)
         /\ Until(m, MaturityDays) => ~HasSavings(m)
<1>1. m # <<>> => m[Len(m)][1] \in 0..EndOfDays
  BY NonEmptyBuckets, BucketFields
<1>2. QED  BY <1>1, RexConstants DEF Until, HasSavings, EndOfDays

(* The days pass for all buckets alike.                                    *)
LEMMA DayLaterHeld ==
  ASSUME NEW m \in Buckets, InTime(m), NEW k, k = DayLater(m)
  PROVE  k \in Buckets /\ InTime(k) /\ Held(k) = Held(m)
<1>1. /\ Len(m) \in Nat
      /\ \A i \in 1..Len(m) : /\ m[i] \in (0..EndOfDays) \X Nat
                              /\ m[i][1] \in Nat /\ m[i][1] <= EndOfDays /\ m[i][2] \in Nat
      /\ MaturityDays \in Nat /\ EndOfDays \in Nat /\ EndOfDays > MaturityDays
  BY BucketFields, RexConstants
<1>2. \A i \in 1..Len(m) : k[i] = IF m[i][1] \in 1..MaturityDays
                                  THEN <<m[i][1] - 1, m[i][2]>> ELSE m[i]
  BY DEF DayLater
<1>3. ASSUME NEW i \in 1..Len(m)
      PROVE  /\ k[i][1] = (IF m[i][1] \in 1..MaturityDays THEN m[i][1] - 1 ELSE m[i][1])
             /\ k[i][2] = m[i][2]
             /\ k[i] \in (0..EndOfDays) \X Nat
  <2>1. CASE m[i][1] \in 1..MaturityDays
    <3>1. m[i][1] - 1 \in 0..EndOfDays /\ m[i][2] \in Nat
      BY <1>1, <2>1
    <3>2. k[i] = <<m[i][1] - 1, m[i][2]>>
      BY <1>2, <2>1
    <3>3. k[i] \in (0..EndOfDays) \X Nat
      BY <3>1, <3>2
    <3>4. k[i][1] = m[i][1] - 1 /\ k[i][2] = m[i][2]
      BY <3>2
    <3>5. QED  BY <2>1, <3>3, <3>4
  <2>2. CASE m[i][1] \notin 1..MaturityDays
    <3>1. k[i] = m[i]
      BY <1>2, <2>2
    <3>2. QED  BY <1>1, <2>2, <3>1
  <2>3. QED  BY <2>1, <2>2
<1>5. k \in Buckets /\ Len(k) = Len(m)
  <2>1. k \in [1..Len(m) -> (0..EndOfDays) \X Nat]
    <3>1. k = [i \in 1..Len(m) |-> IF m[i][1] \in 1..MaturityDays
                                  THEN <<m[i][1] - 1, m[i][2]>> ELSE m[i]]
      BY DEF DayLater
    <3> DEFINE T == (0..EndOfDays) \X Nat
    <3>2. \A i \in 1..Len(m) : k[i] \in T
      BY <1>3
    <3>3. k = [i \in 1..Len(m) |-> k[i]]
      BY <3>1
    <3>4. k \in [1..Len(m) -> T]
      <4> HIDE DEF T
      <4>1. QED  BY <3>2, <3>3, Zenon
    <3>5. QED  BY <3>4 DEF T
  <2> DEFINE T == (0..EndOfDays) \X Nat
  <2>2. k \in [1..Len(m) -> T]
    BY <2>1
  <2> HIDE DEF T
  <2>3. k \in Seq(T) /\ Len(k) = Len(m)
    BY <1>1, <2>2
  <2>4. QED  BY <2>3 DEF Buckets, T
<1>6. InTime(k)
  <2>1. SUFFICES ASSUME NEW i \in 2..Len(m)
                 PROVE  k[i-1][1] < k[i][1] \/ k[i][1] = 0
    BY <1>5 DEF InTime
  <2>2. i \in 1..Len(m) /\ i-1 \in 1..Len(m)
    BY <1>1
  <2>3. m[i-1][1] < m[i][1] \/ m[i][1] = 0
    BY DEF InTime
  <2>4. PICK p \in Nat, c \in Nat : /\ p = m[i-1][1] /\ c = m[i][1]
                                    /\ p <= EndOfDays /\ c <= EndOfDays
    BY <1>1, <2>2
  <2>5. /\ k[i-1][1] = (IF p \in 1..MaturityDays THEN p - 1 ELSE p)
        /\ k[i][1] = (IF c \in 1..MaturityDays THEN c - 1 ELSE c)
    BY <1>3, <2>2, <2>4
  <2>6. p < c \/ c = 0
    BY <2>3, <2>4
  <2>7. QED  BY <1>1, <2>5, <2>6
<1>7. Held(k) = Held(m)
  <2> DEFINE f == [i \in 1..Len(m) |-> m[i][2]]
             g == [i \in 1..Len(k) |-> k[i][2]]
  <2>1. \A i \in 1..Len(m) : f[i] \in Int /\ g[i] = f[i]
    BY <1>1, <1>3, <1>5
  <2>2. AccountTotal(g, Len(m)) = AccountTotal(f, Len(m))
    <3> HIDE DEF f, g
    <3>1. QED  BY <1>1, <2>1, AccountTotalEqual
  <2>3. QED  BY <1>5, <2>2 DEF Held, AmountIn
<1>8. QED  BY <1>5, <1>6, <1>7

(* As far as a property holds from the start: the largest such segment.    *)
LEMMA LongestPrefix ==
  ASSUME NEW n \in Nat, NEW S, 0 \in S
  PROVE  \E i \in 0..n : i \in S /\ (i = n \/ i + 1 \notin S)
<1>1. SUFFICES ASSUME \A i \in 0..n : i \in S => i # n /\ i + 1 \in S
               PROVE  FALSE
  OBVIOUS
<1>2. \A i \in 1..n : i-1 \in S => i \in S
  <2>1. \A i \in 1..n : i-1 \in 0..n /\ (i-1) + 1 = i
    OBVIOUS
  <2>2. QED  BY <1>1, <2>1
<1>3. n \in S /\ n \in 0..n
  BY <1>2, SegmentInduction
<1>4. QED  BY <1>1, <1>3

-----------------------------------------------------------------------------
(* The row of rexpool.                                                     *)
PoolType == [open : BOOLEAN, lent : Nat, unlent : Nat, lendable : Nat, rex : Nat,
             namebid : Nat, loan_num : 0..MaxLoans]
(* An account's rows in rexbal and rexqueue, and a loan's in cpuloan or    *)
(* netloan.                                                                *)
SharesType == [rex : Nat, matured : Nat, maturities : Buckets]
OrderType == [open : BOOLEAN, requested : Nat, proceeds : Nat]
AnyLoan == {NoLoan} \cup LoanType

(* The database: all of the tables, and the tokens of celes.rex and of the *)
(* accounts its fees come from.                                            *)
DbType == [held : Nat, outside : Nat, pool : PoolType, fund : [Accounts -> Nat],
           funded : SUBSET Accounts, rexbal : [Accounts -> SharesType],
           holders : SUBSET Accounts, order : [Accounts -> OrderType],
           queue : Seq(Accounts), loans : [1..MaxLoans -> AnyLoan],
           weight : [Accounts -> [Kinds -> Nat]]]

(* The buckets of the account a.                                           *)
InBuckets(d, a) == d.rexbal[a].maturities

(* Nothing but the shares of a is changed.                                 *)
OnlyShares(d, e, a) ==
  /\ e \in DbType
  /\ e.held = d.held /\ e.outside = d.outside /\ e.pool = d.pool /\ e.fund = d.fund
  /\ e.funded = d.funded /\ e.holders = d.holders /\ e.order = d.order
  /\ e.queue = d.queue /\ e.loans = d.loans /\ e.weight = d.weight
  /\ \A x \in Accounts : x # a => e.rexbal[x] = d.rexbal[x]
  /\ e.rexbal[a].rex = d.rexbal[a].rex

(* The fields of an account's row in rexbal.                               *)
LEMMA ShareFields ==
  ASSUME NEW d \in DbType, NEW a \in Accounts
  PROVE  /\ d.rexbal[a] \in SharesType /\ d.rexbal[a].rex \in Nat
         /\ d.rexbal[a].matured \in Nat /\ InBuckets(d, a) \in Buckets
         /\ Held(InBuckets(d, a)) \in Nat
<1>1. d.rexbal \in [Accounts -> SharesType]
  BY DEF DbType
<1>2. /\ d.rexbal[a] \in SharesType /\ d.rexbal[a].rex \in Nat
      /\ d.rexbal[a].matured \in Nat /\ InBuckets(d, a) \in Buckets
  BY <1>1 DEF SharesType, InBuckets
<1>3. QED  BY <1>2, AmountBounds, BucketFields

(* The matured shares of a become x, its buckets m.                        *)
Reshared(d, a, x, m) == [d EXCEPT !.rexbal[a].matured = x, !.rexbal[a].maturities = m]

(* ... which changes nothing else.                                         *)
LEMMA SharesReplaced ==
  ASSUME NEW d \in DbType, NEW a \in Accounts, NEW x \in Nat, NEW m \in Buckets,
         NEW e, e = Reshared(d, a, x, m)
  PROVE  OnlyShares(d, e, a) /\ e.rexbal[a].matured = x /\ InBuckets(e, a) = m
<1> DEFINE r == d.rexbal
           k == [r EXCEPT ![a].matured = x, ![a].maturities = m]
<1>1. r \in [Accounts -> SharesType]
  BY DEF DbType
<1>2. /\ k \in [Accounts -> SharesType] /\ k[a].matured = x /\ k[a].maturities = m
      /\ k[a].rex = r[a].rex /\ \A y \in Accounts : y # a => k[y] = r[y]
  <2> HIDE DEF r
  <2>1. QED  BY <1>1 DEF SharesType
<1>3. e = [d EXCEPT !.rexbal = k]
  BY DEF DbType, Reshared
<1>4. QED
  <2> HIDE DEF k
  <2>1. QED  BY <1>2, <1>3 DEF DbType, OnlyShares, InBuckets

(* Two steps that change nothing but the shares of a.                      *)
LEMMA OnlySharesTwice ==
  ASSUME NEW d, NEW e, NEW f, NEW a \in Accounts, OnlyShares(d, e, a), OnlyShares(e, f, a)
  PROVE  OnlyShares(d, f, a)
BY DEF OnlyShares

(* The savings are taken out.                                              *)
LEMMA SavingsTaken ==
  ASSUME NEW d \in DbType, NEW a \in Accounts, InTime(InBuckets(d, a)),
         NEW e, e = WithoutSavings(d, a)
  PROVE  /\ OnlyShares(d, e, a) /\ e.rexbal[a].matured = d.rexbal[a].matured
         /\ InTime(InBuckets(e, a)) /\ ~HasSavings(InBuckets(e, a))
         /\ Savings(d, a) \in Nat
         /\ Held(InBuckets(e, a)) = Held(InBuckets(d, a)) - Savings(d, a)
<1> DEFINE m == InBuckets(d, a)
           k == IF HasSavings(m) THEN Front(m) ELSE m
<1>1. /\ m \in Buckets /\ d.rexbal[a].matured \in Nat /\ Held(m) \in Nat
  BY ShareFields
<1>2. /\ k \in Buckets /\ InTime(k) /\ ~HasSavings(k)
      /\ Savings(d, a) \in Nat /\ Held(k) = Held(m) - Savings(d, a)
  <2>1. CASE HasSavings(m)
    <3>1. m # <<>> /\ m[Len(m)][1] = EndOfDays /\ Savings(d, a) = m[Len(m)][2] /\ k = Front(m)
      BY <2>1 DEF HasSavings, Savings, InBuckets
    <3>2. EndOfDays # 0 /\ m[Len(m)][2] \in Nat
      BY <1>1, <3>1, NonEmptyBuckets, BucketFields, RexConstants
    <3>3. /\ Front(m) \in Buckets /\ InTime(Front(m))
          /\ Front(m) # <<>> => Front(m)[Len(Front(m))][1] < EndOfDays
          /\ Held(Front(m)) = Held(m) - m[Len(m)][2]
      <4>1. InTime(m)
        BY DEF m
      <4> HIDE DEF m
      <4>2. QED  BY <1>1, <3>1, <3>2, <4>1, FrontOf
    <3>4. ~HasSavings(Front(m))
      BY <3>3, RexConstants DEF HasSavings
    <3>5. QED  BY <3>1, <3>2, <3>3, <3>4
  <2>2. CASE ~HasSavings(m)
    <3>1. Savings(d, a) = 0 /\ k = m
      BY <2>2 DEF Savings, InBuckets
    <3>2. QED  BY <1>1, <2>2, <3>1
  <2>3. QED  BY <2>1, <2>2
<1>3. e = Reshared(d, a, d.rexbal[a].matured, k)
  BY ShareFields DEF WithoutSavings, InBuckets, DbType, SharesType, Reshared
<1>4. OnlyShares(d, e, a) /\ e.rexbal[a].matured = d.rexbal[a].matured /\ InBuckets(e, a) = k
  <2> HIDE DEF k
  <2>1. QED  BY <1>1, <1>2, <1>3, SharesReplaced
<1>5. QED
  <2> HIDE DEF k
  <2>1. QED  BY <1>2, <1>4 DEF m

(* Mature buckets become matured shares.                                   *)
LEMMA SharesMature ==
  ASSUME NEW d \in DbType, NEW a \in Accounts, InTime(InBuckets(d, a)),
         NEW e, e = Matured(d, a)
  PROVE  /\ OnlyShares(d, e, a) /\ e.rexbal[a].matured >= d.rexbal[a].matured
         /\ InTime(InBuckets(e, a))
         /\ HasSavings(InBuckets(e, a)) => HasSavings(InBuckets(d, a))
         /\ e.rexbal[a].matured + Held(InBuckets(e, a))
              = d.rexbal[a].matured + Held(InBuckets(d, a))
<1> DEFINE m == d.rexbal[a].maturities
           Mature(i) == \A j \in 1..i : m[j][1] = 0
           S == {i \in 0..Len(m) : Mature(i)}
           n == CHOOSE i \in 0..Len(m) : Mature(i) /\ (i = Len(m) \/ ~Mature(i + 1))
           k == SubSeq(m, n + 1, Len(m))
           x == d.rexbal[a].matured + AmountIn(m, n)
<1>1. /\ m \in Buckets /\ d.rexbal[a].matured \in Nat /\ Held(m) \in Nat /\ Len(m) \in Nat
  BY ShareFields, BucketFields DEF InBuckets
<1>2. n \in 0..Len(m)
  <2>1. 0 \in S
    BY <1>1
  <2>2. \E i \in 0..Len(m) : i \in S /\ (i = Len(m) \/ i + 1 \notin S)
    <3> HIDE DEF S, m
    <3>1. QED  BY <1>1, <2>1, LongestPrefix
  <2>3. \A i \in 0..Len(m) : i # Len(m) => i + 1 \in 0..Len(m)
    BY <1>1
  <2>4. \E i \in 0..Len(m) : Mature(i) /\ (i = Len(m) \/ ~Mature(i + 1))
    <3> HIDE DEF Mature, m
    <3>1. QED  BY <2>2, <2>3
  <2>5. QED
    <3> HIDE DEF Mature, m
    <3>1. QED  BY <2>4
<1>3. e = Reshared(d, a, x, k)
  BY DEF Matured, Reshared
<1>4. AmountIn(m, n) \in Nat /\ x \in Nat
  <2>1. AmountIn(m, n) \in Nat
    <3> HIDE DEF n, m
    <3>1. QED  BY <1>1, <1>2, AmountBounds
  <2>2. QED
    <3> HIDE DEF n, m
    <3>1. QED  BY <1>1, <2>1
<1>5. /\ k \in Buckets /\ InTime(k) /\ Held(k) = Held(m) - AmountIn(m, n)
      /\ k # <<>> => m # <<>> /\ k[Len(k)] = m[Len(m)]
  <2> HIDE DEF n
  <2>1. InTime(m)
    BY DEF InBuckets
  <2> HIDE DEF m
  <2>2. QED  BY <1>1, <1>2, <2>1, LastBuckets
<1>6. OnlyShares(d, e, a) /\ e.rexbal[a].matured = x /\ InBuckets(e, a) = k
  <2> HIDE DEF k, x
  <2>1. QED  BY <1>3, <1>4, <1>5, SharesReplaced
<1>7. HasSavings(k) => HasSavings(m)
  <2> HIDE DEF k, m
  <2>1. QED  BY <1>5 DEF HasSavings
<1>8. InBuckets(d, a) = m
  BY DEF InBuckets
<1>9. e.rexbal[a].matured = d.rexbal[a].matured + AmountIn(m, n)
  BY <1>6
<1>10. QED
  <2> HIDE DEF k, x, m, n
  <2>1. QED  BY <1>1, <1>4, <1>5, <1>6, <1>7, <1>8, <1>9

(* An amount is added to a bucket that is no earlier than all others.      *)
LEMMA SharesAdded ==
  ASSUME NEW d \in DbType, NEW a \in Accounts, InTime(InBuckets(d, a)),
         NEW days \in 1..EndOfDays, Until(InBuckets(d, a), days), NEW x \in Nat,
         NEW e, e = [d EXCEPT !.rexbal[a].maturities = AddedBucket(@, days, x)]
  PROVE  /\ OnlyShares(d, e, a) /\ e.rexbal[a].matured = d.rexbal[a].matured
         /\ InTime(InBuckets(e, a)) /\ Until(InBuckets(e, a), days)
         /\ Held(InBuckets(e, a)) = Held(InBuckets(d, a)) + x
<1> DEFINE m == InBuckets(d, a)
           k == AddedBucket(m, days, x)
<1>1. m \in Buckets /\ d.rexbal[a].matured \in Nat /\ days \in Nat
  BY ShareFields, RexConstants
<1>2. k \in Buckets /\ InTime(k) /\ Held(k) = Held(m) + x /\ Until(k, days)
  <2> HIDE DEF m
  <2>1. k \in Buckets /\ InTime(k) /\ Held(k) = Held(m) + x /\ k[Len(k)][1] = days
    <3>1. InTime(m) /\ Until(m, days)
      BY DEF m
    <3>2. QED  BY <1>1, <3>1, AddedTo
  <2> HIDE DEF k
  <2>2. QED  BY <1>1, <2>1 DEF Until
<1>3. e = Reshared(d, a, d.rexbal[a].matured, k)
  BY ShareFields DEF InBuckets, DbType, SharesType, Reshared
<1>4. OnlyShares(d, e, a) /\ e.rexbal[a].matured = d.rexbal[a].matured /\ InBuckets(e, a) = k
  <2> HIDE DEF k
  <2>1. QED  BY <1>1, <1>2, <1>3, SharesReplaced
<1>5. QED
  <2> HIDE DEF k
  <2>1. QED  BY <1>2, <1>4 DEF m

(* The savings are put behind all other buckets (update_rex_savings).      *)
LEMMA SharesSaved ==
  ASSUME NEW d \in DbType, NEW a \in Accounts, InTime(InBuckets(d, a)), NEW x \in Nat,
         NEW e, e = WithSavings(d, a, x)
  PROVE  /\ OnlyShares(d, e, a) /\ e.rexbal[a].matured = d.rexbal[a].matured
         /\ InTime(InBuckets(e, a))
         /\ Held(InBuckets(e, a)) = Held(InBuckets(d, a)) + x
<1>1. CASE x = 0
  <2>1. e = d
    BY <1>1 DEF WithSavings
  <2>2. Held(InBuckets(d, a)) \in Nat
    BY ShareFields
  <2>3. QED  BY <1>1, <2>1, <2>2 DEF OnlyShares
<1>2. CASE x # 0
  <2>1. e = [d EXCEPT !.rexbal[a].maturities = AddedBucket(@, EndOfDays, x)]
    BY <1>2 DEF WithSavings
  <2>2. EndOfDays \in 1..EndOfDays /\ Until(InBuckets(d, a), EndOfDays)
    BY RexConstants, ShareFields, LastBucket
  <2>3. QED  BY <2>1, <2>2, SharesAdded
<1>3. QED  BY <1>1, <1>2

(* What is taken from the last buckets is gone from there, or from the     *)
(* matured shares.                                                         *)
LEMMA SharesTaken ==
  ASSUME NEW d \in DbType, NEW a \in Accounts, InTime(InBuckets(d, a)), NEW x \in Nat \ {0},
         x <= d.rexbal[a].matured + Held(InBuckets(d, a)),
         NEW e, e = TakenFromLast(d, a, x)
  PROVE  /\ OnlyShares(d, e, a) /\ InTime(InBuckets(e, a))
         /\ e.rexbal[a].matured + Held(InBuckets(e, a))
              = d.rexbal[a].matured + Held(InBuckets(d, a)) - x
<1> DEFINE m == d.rexbal[a].maturities
           all == AmountIn(m, Len(m))
           Kept(i) == AmountIn(m, i) <= all - x
           S == {i \in 0..Len(m) : Kept(i)}
           n == CHOOSE i \in 0..Len(m) : Kept(i) /\ (i = Len(m) \/ ~Kept(i + 1))
           rest == all - x - AmountIn(m, n)
           k == IF rest = 0 THEN SubSeq(m, 1, n)
                ELSE Append(SubSeq(m, 1, n), <<m[n + 1][1], rest>>)
<1>1. /\ m \in Buckets /\ d.rexbal[a].matured \in Nat /\ Held(m) \in Nat /\ Len(m) \in Nat
      /\ InBuckets(d, a) = m /\ all = Held(m) /\ InTime(m)
  BY ShareFields, BucketFields DEF InBuckets, Held
<1>2. CASE all < x
  <2> DEFINE y == d.rexbal[a].matured - (x - all)
  <2>1. e = Reshared(d, a, y, <<>>)
    <3>1. e = [d EXCEPT !.rexbal[a].maturities = <<>>, !.rexbal[a].matured = @ - (x - all)]
      BY <1>2 DEF TakenFromLast
    <3>2. QED
      <4> DEFINE z == x - all
      <4>1. /\ e = [d EXCEPT !.rexbal[a].maturities = <<>>, !.rexbal[a].matured = @ - z]
            /\ y = d.rexbal[a].matured - z
        BY <3>1
      <4>2. /\ d.rexbal \in [Accounts -> SharesType] /\ a \in Accounts
            /\ d = [d EXCEPT !.rexbal = d.rexbal]
        BY DEF DbType
      <4> HIDE DEF z, y, all
      <4>3. ASSUME NEW r \in [Accounts -> SharesType]
            PROVE  [r EXCEPT ![a].maturities = <<>>, ![a].matured = @ - z]
                     = [r EXCEPT ![a].matured = r[a].matured - z, ![a].maturities = <<>>]
        BY <4>2 DEF SharesType
      <4>4. QED  BY <4>1, <4>2, <4>3 DEF DbType, SharesType, Reshared
  <2>2. y \in Nat
    <3> HIDE DEF m, all
    <3>1. QED  BY <1>1, <1>2
  <2>3. OnlyShares(d, e, a) /\ e.rexbal[a].matured = y /\ InBuckets(e, a) = <<>>
    <3> HIDE DEF y
    <3>1. QED  BY <2>1, <2>2, NoBuckets, SharesReplaced
  <2>4. QED
    <3> HIDE DEF m, all
    <3>1. QED  BY <1>1, <2>3, NoBuckets
<1>3. CASE ~(all < x)
  <2>1. n \in 0..Len(m) /\ Kept(n) /\ (n = Len(m) \/ ~Kept(n + 1))
    <3>1. AmountIn(m, 0) = 0
      <4>1. 0 \in Nat /\ \A f : \A i \in 1..0 : f[i] = 0
        OBVIOUS
      <4>2. QED  BY <4>1, AccountTotalZero DEF AmountIn
    <3>2. 0 \in S
      <4> HIDE DEF m
      <4>1. QED  BY <1>1, <1>3, <3>1
    <3>3. \E i \in 0..Len(m) : i \in S /\ (i = Len(m) \/ i + 1 \notin S)
      <4> HIDE DEF S, m
      <4>1. QED  BY <1>1, <3>2, LongestPrefix
    <3>4. \A i \in 0..Len(m) : i # Len(m) => i + 1 \in 0..Len(m)
      BY <1>1
    <3>5. \E i \in 0..Len(m) : Kept(i) /\ (i = Len(m) \/ ~Kept(i + 1))
      <4> HIDE DEF Kept, m
      <4>1. QED  BY <3>3, <3>4
    <3>6. QED
      <4> HIDE DEF Kept, m
      <4>1. QED  BY <3>5
  <2>2. AmountIn(m, n) \in Nat /\ all \in Nat /\ rest \in Nat
    <3>1. AmountIn(m, n) \in Nat /\ all \in Nat
      <4> HIDE DEF n, m
      <4>1. QED  BY <1>1, <2>1, AmountBounds
    <3>2. AmountIn(m, n) <= all - x
      BY <2>1
    <3>3. QED
      <4> HIDE DEF n, m, all
      <4>1. QED  BY <3>1, <3>2
  <2> DEFINE p == SubSeq(m, 1, n)
  <2>3. /\ p \in Buckets /\ InTime(p) /\ Held(p) = AmountIn(m, n) /\ Len(p) = n
        /\ \A i \in 1..n : p[i] = m[i]
    <3> HIDE DEF n, m
    <3>1. QED  BY <1>1, <2>1, FirstBuckets
  <2>4. k \in Buckets /\ InTime(k) /\ Held(k) = all - x
    <3>1. CASE rest = 0
      <4>1. k = p
        BY <3>1
      <4>2. QED
        <5> HIDE DEF k, p, n, m, all
        <5>1. QED  BY <2>2, <2>3, <3>1, <4>1
    <3>2. CASE rest # 0
      <4>1. n + 1 \in 1..Len(m) /\ n \in Nat
        <5>1. n # Len(m)
          <6>1. CASE n = Len(m)
            <7>1. AmountIn(m, n) = all
              BY <6>1
            <7>2. AmountIn(m, n) <= all - x
              BY <2>1
            <7>3. QED
              <8> HIDE DEF n, m, all
              <8>1. QED  BY <2>2, <7>1, <7>2
          <6>2. QED  BY <6>1
        <5>2. QED
          <6> HIDE DEF n, m
          <6>1. QED  BY <1>1, <2>1, <5>1
      <4> DEFINE q == m[n + 1][1]
      <4>2. q \in 0..EndOfDays /\ q \in Nat
        <5> HIDE DEF n, m
        <5>1. QED  BY <1>1, <4>1, BucketFields
      <4>3. k = Append(p, <<q, rest>>)
        BY <3>2
      <4>4. p # <<>> => p[Len(p)][1] < q \/ q = 0
        <5>1. ASSUME p # <<>> PROVE p[Len(p)][1] < q \/ q = 0
          <6>1. n \in 1..n /\ n + 1 \in 2..Len(m) /\ (n + 1) - 1 = n
            <7>1. Len(p) # 0
              <8> HIDE DEF p, n, m
              <8>1. QED  BY <2>3, <5>1, NonEmptyBuckets
            <7>2. QED
              <8> HIDE DEF p, n, m
              <8>1. QED  BY <2>3, <4>1, <7>1
          <6>2. m[(n + 1) - 1][1] < m[n + 1][1] \/ m[n + 1][1] = 0
            <7> HIDE DEF n, m
            <7>1. QED  BY <1>1, <6>1 DEF InTime
          <6>3. p[Len(p)] = m[n]
            <7> HIDE DEF p, n, m
            <7>1. QED  BY <2>3, <6>1
          <6>4. QED
            <7> HIDE DEF p, n, m
            <7>1. QED  BY <6>1, <6>2, <6>3
        <5>2. QED  BY <5>1
      <4>5. k \in Buckets /\ InTime(k) /\ Held(k) = Held(p) + rest
        <5> HIDE DEF p, q, rest, k
        <5>1. QED  BY <2>2, <2>3, <4>2, <4>3, <4>4, Appended
      <4>6. QED
        <5> HIDE DEF k, p, n, m, all
        <5>1. QED  BY <2>2, <2>3, <4>5
    <3>3. QED  BY <3>1, <3>2
  <2>5. e = Reshared(d, a, d.rexbal[a].matured, k)
    <3>1. e = [d EXCEPT !.rexbal[a].maturities = k]
      BY <1>3, Zenon DEF TakenFromLast
    <3>2. QED
      <4> HIDE DEF k
      <4>1. QED  BY <3>1, ShareFields DEF DbType, SharesType, Reshared
  <2>6. OnlyShares(d, e, a) /\ e.rexbal[a].matured = d.rexbal[a].matured /\ InBuckets(e, a) = k
    <3> HIDE DEF k
    <3>1. QED  BY <1>1, <2>4, <2>5, SharesReplaced
  <2>7. QED
    <3> HIDE DEF k, m, all
    <3>1. QED  BY <1>1, <2>2, <2>4, <2>6
<1>4. QED  BY <1>2, <1>3

-----------------------------------------------------------------------------
(* What is staked by whom for whom: the table delband.                     *)
Stakes == [Accounts -> [Accounts -> [Kinds -> Nat]]]

(* What a loan's renewals are paid from, what it lends, and what it adds   *)
(* to a receiver's limit.                                                  *)
BalanceOf(l) == IF l = NoLoan THEN 0 ELSE l.balance
LentBy(l) == IF l = NoLoan THEN 0 ELSE l.staked
RentedBy(l, r, k) == IF l = NoLoan THEN 0 ELSE IF l.receiver = r /\ l.kind = k THEN l.staked ELSE 0

(* The same of all loans.                                                  *)
LoanBalances(L) == AccountTotal([n \in 1..MaxLoans |-> BalanceOf(L[n])], MaxLoans)
LoansLent(L) == AccountTotal([n \in 1..MaxLoans |-> LentBy(L[n])], MaxLoans)
LoansRented(L, r, k) == AccountTotal([n \in 1..MaxLoans |-> RentedBy(L[n], r, k)], MaxLoans)

(* Sums over the accounts: the proceeds of filled orders, the shares, and  *)
(* what is staked for one receiver.                                        *)
AllProceeds(o) == AccountTotal([a \in Accounts |-> o[a].proceeds], N)
AllShares(R) == AccountTotal([a \in Accounts |-> R[a].rex], N)
StakedFor(b, r, k) == AccountTotal([o \in Accounts |-> b[o][r][k]], N)

(* The tokens: s of them are not in the books of an unfinished action.     *)
Books(d, s) ==
  /\ d.held = AccountTotal(d.fund, N) + LoanBalances(d.loans) + d.pool.lendable
              + AllProceeds(d.order) + s
  /\ \A a \in Accounts \ d.funded : d.fund[a] = 0
  /\ d.pool.namebid <= d.outside

(* The pool's own sums: what can be lent is lent or unlent, what is lent   *)
(* is the loans', its shares are the accounts'; and there are shares only  *)
(* as long as there is something to lend.                                  *)
Totals(d) ==
  /\ d.pool.lendable = d.pool.unlent + d.pool.lent
  /\ d.pool.lent = LoansLent(d.loans)
  /\ d.pool.rex = AllShares(d.rexbal)
  /\ (d.pool.rex = 0) = (d.pool.lendable = 0)
  /\ ~d.pool.open => d.pool.rex = 0

(* An account's shares: each is matured or in a bucket, and its open       *)
(* order, which asks for no more than the matured ones, has no proceeds    *)
(* yet. A share has a row in rexbal.                                       *)
OwnShares(d, a) ==
  /\ d.rexbal[a].rex = d.rexbal[a].matured + Held(InBuckets(d, a))
  /\ InTime(InBuckets(d, a))
  /\ InOrder(d, a) <= d.rexbal[a].matured
  /\ d.order[a].open => /\ a \in d.holders /\ d.order[a].requested > 0
                        /\ d.order[a].proceeds = 0
  /\ a \notin d.holders => d.rexbal[a] = NoShares

(* The queue holds the open orders, each of them once.                     *)
Queued(d) ==
  /\ {d.queue[i] : i \in 1..Len(d.queue)} = {a \in Accounts : d.order[a].open}
  /\ \A i, j \in 1..Len(d.queue) : d.queue[i] = d.queue[j] => i = j

(* A loan's number has been given out, and its owner still has a fund,     *)
(* which a closed loan's balance is returned to.                           *)
LoansKept(d) ==
  \A n \in 1..MaxLoans :
    d.loans[n] # NoLoan => n <= d.pool.loan_num /\ d.loans[n].from \in d.funded

(* A receiver's limit is what is staked for it and what it rents.          *)
Rented(d, b) ==
  \A r \in Accounts, k \in Kinds :
    d.weight[r][k] = StakedFor(b, r, k) + LoansRented(d.loans, r, k)

(* The database d, with the stakes b, between two statements of an action: *)
(* s tokens of celes.rex are in no account's books. At the end of an       *)
(* action none is.                                                         *)
Sound(d, b, s) ==
  /\ d \in DbType /\ b \in Stakes /\ s \in Int
  /\ Books(d, s) /\ Totals(d) /\ \A a \in Accounts : OwnShares(d, a)
  /\ Queued(d) /\ LoansKept(d) /\ Rented(d, b)

-----------------------------------------------------------------------------
(* The fields of a loan.                                                   *)
LEMMA LoanFields ==
  ASSUME NEW l \in LoanType
  PROVE  /\ l # NoLoan /\ l.from \in Accounts /\ l.from \in Renters /\ l.receiver \in Accounts
         /\ l.receiver \in Receivers /\ l.kind \in Kinds
         /\ l.payment \in Nat \ {0} /\ l.balance \in Nat /\ l.staked \in Nat \ {0}
         /\ l.days \in Int /\ 0 - MaxOverdue <= l.days /\ l.days <= LoanDays
<1>1. /\ l.from \in Renters /\ l.receiver \in Receivers /\ l.kind \in Kinds
      /\ l.payment \in Nat \ {0} /\ l.balance \in Nat /\ l.staked \in Nat \ {0}
      /\ l.days \in (0 - MaxOverdue)..LoanDays
  BY DEF LoanType
<1>2. l.from \in Accounts /\ l.receiver \in Accounts /\ l.from # 0
  <2>1. Renters \subseteq Accounts /\ Receivers \subseteq Accounts
    BY RexConstants
  <2>2. 0 \notin Accounts
    BY DEF Accounts
  <2>3. QED  BY <1>1, <2>1, <2>2, Zenon
<1>3. l # NoLoan
  BY <1>2 DEF NoLoan
<1>4. QED  BY <1>1, <1>2, <1>3, RexConstants

(* ... of a loan, or of the absence of one.                                *)
LEMMA LoanParts ==
  ASSUME NEW l \in AnyLoan, NEW r, NEW k
  PROVE  /\ BalanceOf(l) \in Nat /\ LentBy(l) \in Nat /\ RentedBy(l, r, k) \in Nat
         /\ l # NoLoan => l \in LoanType
BY LoanFields DEF AnyLoan, BalanceOf, LentBy, RentedBy

(* No loan exceeds the sums.                                               *)
LEMMA LoanSums ==
  ASSUME NEW L \in [1..MaxLoans -> AnyLoan], NEW r, NEW k
  PROVE  /\ LoanBalances(L) \in Nat /\ LoansLent(L) \in Nat /\ LoansRented(L, r, k) \in Nat
         /\ \A n \in 1..MaxLoans : /\ BalanceOf(L[n]) <= LoanBalances(L)
                                   /\ LentBy(L[n]) <= LoansLent(L)
                                   /\ RentedBy(L[n], r, k) <= LoansRented(L, r, k)
<1> DEFINE f == [n \in 1..MaxLoans |-> BalanceOf(L[n])]
           g == [n \in 1..MaxLoans |-> LentBy(L[n])]
           h == [n \in 1..MaxLoans |-> RentedBy(L[n], r, k)]
<1>1. \A n \in 1..MaxLoans : f[n] \in Nat /\ g[n] \in Nat /\ h[n] \in Nat
  BY LoanParts
<1>2. /\ LoanBalances(L) = AccountTotal(f, MaxLoans) /\ LoansLent(L) = AccountTotal(g, MaxLoans)
      /\ LoansRented(L, r, k) = AccountTotal(h, MaxLoans)
  BY DEF LoanBalances, LoansLent, LoansRented
<1>3. \A n \in 1..MaxLoans : f[n] = BalanceOf(L[n]) /\ g[n] = LentBy(L[n]) /\ h[n] = RentedBy(L[n], r, k)
  OBVIOUS
<1>4. QED
  <2> HIDE DEF f, g, h
  <2>1. MaxLoans \in Nat
    BY RexConstants
  <2>2. AccountTotal(f, MaxLoans) \in Nat /\ \A n \in 1..MaxLoans : f[n] <= AccountTotal(f, MaxLoans)
    BY <1>1, <2>1, AccountTotalNat
  <2>3. AccountTotal(g, MaxLoans) \in Nat /\ \A n \in 1..MaxLoans : g[n] <= AccountTotal(g, MaxLoans)
    BY <1>1, <2>1, AccountTotalNat
  <2>4. AccountTotal(h, MaxLoans) \in Nat /\ \A n \in 1..MaxLoans : h[n] <= AccountTotal(h, MaxLoans)
    BY <1>1, <2>1, AccountTotalNat
  <2>5. QED  BY <1>2, <1>3, <2>2, <2>3, <2>4

(* One loan changes.                                                       *)
LEMMA LoanChange ==
  ASSUME NEW L \in [1..MaxLoans -> AnyLoan], NEW K \in [1..MaxLoans -> AnyLoan],
         NEW n \in 1..MaxLoans, \A o \in 1..MaxLoans : o # n => K[o] = L[o],
         NEW r, NEW k
  PROVE  /\ LoanBalances(K) = LoanBalances(L) - BalanceOf(L[n]) + BalanceOf(K[n])
         /\ LoansLent(K) = LoansLent(L) - LentBy(L[n]) + LentBy(K[n])
         /\ LoansRented(K, r, k)
              = LoansRented(L, r, k) - RentedBy(L[n], r, k) + RentedBy(K[n], r, k)
<1>1. MaxLoans \in Nat
  BY RexConstants
<1> HIDE DEF AnyLoan
<1>0. \A l \in AnyLoan : BalanceOf(l) \in Int /\ LentBy(l) \in Int /\ RentedBy(l, r, k) \in Int
  BY LoanParts
<1>2. LoanBalances(K) = LoanBalances(L) - BalanceOf(L[n]) + BalanceOf(K[n])
  <2> DEFINE f == [o \in 1..MaxLoans |-> BalanceOf(L[o])]
             g == [o \in 1..MaxLoans |-> BalanceOf(K[o])]
  <2>1. /\ \A o \in 1..MaxLoans : f[o] \in Int /\ g[o] \in Int
        /\ \A o \in 1..MaxLoans : o # n => g[o] = f[o]
        /\ f[n] = BalanceOf(L[n]) /\ g[n] = BalanceOf(K[n])
    BY <1>0
  <2>2. AccountTotal(g, MaxLoans) = AccountTotal(f, MaxLoans) - f[n] + g[n]
    <3> HIDE DEF f, g
    <3>1. QED  BY <1>1, <2>1, AccountTotalChange
  <2>3. QED  BY <2>1, <2>2 DEF LoanBalances
<1>3. LoansLent(K) = LoansLent(L) - LentBy(L[n]) + LentBy(K[n])
  <2> DEFINE f == [o \in 1..MaxLoans |-> LentBy(L[o])]
             g == [o \in 1..MaxLoans |-> LentBy(K[o])]
  <2>1. /\ \A o \in 1..MaxLoans : f[o] \in Int /\ g[o] \in Int
        /\ \A o \in 1..MaxLoans : o # n => g[o] = f[o]
        /\ f[n] = LentBy(L[n]) /\ g[n] = LentBy(K[n])
    BY <1>0
  <2>2. AccountTotal(g, MaxLoans) = AccountTotal(f, MaxLoans) - f[n] + g[n]
    <3> HIDE DEF f, g
    <3>1. QED  BY <1>1, <2>1, AccountTotalChange
  <2>3. QED  BY <2>1, <2>2 DEF LoansLent
<1>4. LoansRented(K, r, k) = LoansRented(L, r, k) - RentedBy(L[n], r, k) + RentedBy(K[n], r, k)
  <2> DEFINE f == [o \in 1..MaxLoans |-> RentedBy(L[o], r, k)]
             g == [o \in 1..MaxLoans |-> RentedBy(K[o], r, k)]
  <2>1. /\ \A o \in 1..MaxLoans : f[o] \in Int /\ g[o] \in Int
        /\ \A o \in 1..MaxLoans : o # n => g[o] = f[o]
        /\ f[n] = RentedBy(L[n], r, k) /\ g[n] = RentedBy(K[n], r, k)
    BY <1>0
  <2>2. AccountTotal(g, MaxLoans) = AccountTotal(f, MaxLoans) - f[n] + g[n]
    <3> HIDE DEF f, g
    <3>1. QED  BY <1>1, <2>1, AccountTotalChange
  <2>3. QED  BY <2>1, <2>2 DEF LoansRented
<1>5. QED  BY <1>2, <1>3, <1>4

(* Sums over the accounts when one of them changes: of funds,              *)
LEMMA FundChange ==
  ASSUME NEW f \in [Accounts -> Nat], NEW g \in [Accounts -> Nat], NEW a \in Accounts,
         \A x \in Accounts : x # a => g[x] = f[x]
  PROVE  /\ AccountTotal(g, N) = AccountTotal(f, N) - f[a] + g[a]
         /\ AccountTotal(f, N) \in Nat /\ AccountTotal(g, N) \in Nat
<1>1. /\ N \in Nat /\ a \in 1..N
      /\ \A x \in 1..N : /\ f[x] \in Int /\ g[x] \in Int /\ f[x] \in Nat /\ g[x] \in Nat
                         /\ x # a => g[x] = f[x]
  BY RexConstants
<1>2. QED  BY <1>1, AccountTotalChange, AccountTotalNat

(* ... of proceeds,                                                        *)
LEMMA ProceedsChange ==
  ASSUME NEW f \in [Accounts -> OrderType], NEW g \in [Accounts -> OrderType],
         NEW a \in Accounts, \A x \in Accounts : x # a => g[x] = f[x]
  PROVE  /\ AllProceeds(g) = AllProceeds(f) - f[a].proceeds + g[a].proceeds
         /\ AllProceeds(f) \in Nat /\ AllProceeds(g) \in Nat
<1> DEFINE p == [x \in Accounts |-> f[x].proceeds]
           q == [x \in Accounts |-> g[x].proceeds]
<1>1. /\ p \in [Accounts -> Nat] /\ q \in [Accounts -> Nat]
      /\ \A x \in Accounts : x # a => q[x] = p[x]
      /\ p[a] = f[a].proceeds /\ q[a] = g[a].proceeds
  BY DEF OrderType
<1>2. /\ AccountTotal(q, N) = AccountTotal(p, N) - p[a] + q[a]
      /\ AccountTotal(p, N) \in Nat /\ AccountTotal(q, N) \in Nat
  <2> HIDE DEF p, q
  <2>1. QED  BY <1>1, FundChange
<1>3. QED  BY <1>1, <1>2 DEF AllProceeds

(* ... and of shares.                                                      *)
LEMMA SharesChange ==
  ASSUME NEW f \in [Accounts -> SharesType], NEW g \in [Accounts -> SharesType],
         NEW a \in Accounts, \A x \in Accounts : x # a => g[x].rex = f[x].rex
  PROVE  /\ AllShares(g) = AllShares(f) - f[a].rex + g[a].rex
         /\ AllShares(f) \in Nat /\ AllShares(g) \in Nat
<1> DEFINE p == [x \in Accounts |-> f[x].rex]
           q == [x \in Accounts |-> g[x].rex]
<1>1. /\ p \in [Accounts -> Nat] /\ q \in [Accounts -> Nat]
      /\ \A x \in Accounts : x # a => q[x] = p[x]
      /\ p[a] = f[a].rex /\ q[a] = g[a].rex
  BY DEF SharesType
<1>2. /\ AccountTotal(q, N) = AccountTotal(p, N) - p[a] + q[a]
      /\ AccountTotal(p, N) \in Nat /\ AccountTotal(q, N) \in Nat
  <2> HIDE DEF p, q
  <2>1. QED  BY <1>1, FundChange
<1>3. QED  BY <1>1, <1>2 DEF AllShares

(* No account has more shares than there are.                              *)
LEMMA ShareSums ==
  ASSUME NEW f \in [Accounts -> SharesType]
  PROVE  AllShares(f) \in Nat /\ \A a \in Accounts : f[a].rex <= AllShares(f)
<1> DEFINE p == [x \in Accounts |-> f[x].rex]
<1>1. N \in Nat /\ Accounts = 1..N /\ \A x \in Accounts : p[x] = f[x].rex /\ p[x] \in Nat
  BY RexConstants DEF SharesType
<1>2. AccountTotal(p, N) \in Nat /\ \A x \in Accounts : p[x] <= AccountTotal(p, N)
  <2> HIDE DEF p
  <2>1. QED  BY <1>1, AccountTotalNat
<1>3. QED  BY <1>1, <1>2 DEF AllShares

(* Nobody stakes more for a receiver than is staked for it.                *)
LEMMA StakeSums ==
  ASSUME NEW b \in Stakes, NEW r \in Accounts, NEW k \in Kinds
  PROVE  StakedFor(b, r, k) \in Nat /\ \A o \in Accounts : b[o][r][k] <= StakedFor(b, r, k)
<1> DEFINE p == [o \in Accounts |-> b[o][r][k]]
<1>1. N \in Nat /\ Accounts = 1..N /\ \A o \in Accounts : p[o] = b[o][r][k] /\ p[o] \in Nat
  BY RexConstants DEF Stakes
<1>2. AccountTotal(p, N) \in Nat /\ \A x \in Accounts : p[x] <= AccountTotal(p, N)
  <2> HIDE DEF p
  <2>1. QED  BY <1>1, AccountTotalNat
<1>3. QED  BY <1>1, <1>2 DEF StakedFor

-----------------------------------------------------------------------------
(* The fields of the database.                                             *)
LEMMA DbFields ==
  ASSUME NEW d \in DbType
  PROVE  /\ d.held \in Nat /\ d.outside \in Nat /\ d.pool \in PoolType
         /\ d.pool.open \in BOOLEAN /\ d.pool.lent \in Nat /\ d.pool.unlent \in Nat
         /\ d.pool.lendable \in Nat /\ d.pool.rex \in Nat /\ d.pool.namebid \in Nat
         /\ d.pool.loan_num \in 0..MaxLoans /\ d.pool.loan_num \in Nat
         /\ d.fund \in [Accounts -> Nat] /\ d.funded \subseteq Accounts
         /\ d.rexbal \in [Accounts -> SharesType] /\ d.holders \subseteq Accounts
         /\ d.order \in [Accounts -> OrderType] /\ d.queue \in Seq(Accounts)
         /\ d.loans \in [1..MaxLoans -> AnyLoan] /\ d.weight \in [Accounts -> [Kinds -> Nat]]
         /\ \A a \in Accounts : /\ d.fund[a] \in Nat /\ d.order[a] \in OrderType
                                /\ d.order[a].open \in BOOLEAN /\ d.order[a].requested \in Nat
                                /\ d.order[a].proceeds \in Nat
<1>1. /\ d.held \in Nat /\ d.outside \in Nat /\ d.pool \in PoolType
      /\ d.fund \in [Accounts -> Nat] /\ d.funded \subseteq Accounts
      /\ d.rexbal \in [Accounts -> SharesType] /\ d.holders \subseteq Accounts
      /\ d.order \in [Accounts -> OrderType] /\ d.queue \in Seq(Accounts)
      /\ d.loans \in [1..MaxLoans -> AnyLoan] /\ d.weight \in [Accounts -> [Kinds -> Nat]]
  BY DEF DbType
<1>2. /\ d.pool.open \in BOOLEAN /\ d.pool.lent \in Nat /\ d.pool.unlent \in Nat
      /\ d.pool.lendable \in Nat /\ d.pool.rex \in Nat /\ d.pool.namebid \in Nat
      /\ d.pool.loan_num \in 0..MaxLoans /\ d.pool.loan_num \in Nat
  BY <1>1, RexConstants DEF PoolType
<1>3. \A a \in Accounts : /\ d.fund[a] \in Nat /\ d.order[a] \in OrderType
                          /\ d.order[a].open \in BOOLEAN /\ d.order[a].requested \in Nat
                          /\ d.order[a].proceeds \in Nat
  BY <1>1 DEF OrderType
<1>4. QED  BY <1>1, <1>2, <1>3

(* Nothing but funds is changed.                                           *)
OnlyFunds(d, e) ==
  /\ e.held = d.held /\ e.outside = d.outside /\ e.pool = d.pool /\ e.rexbal = d.rexbal
  /\ e.holders = d.holders /\ e.order = d.order /\ e.queue = d.queue
  /\ e.loans = d.loans /\ e.weight = d.weight

(* The fund of a gets x, or loses it.                                      *)
LEMMA FundMoved ==
  ASSUME NEW d, NEW b, NEW s, Sound(d, b, s), NEW a \in Accounts, NEW x \in Int,
         NEW e \in DbType, OnlyFunds(d, e), e.fund[a] = d.fund[a] + x,
         \A y \in Accounts : y # a => e.fund[y] = d.fund[y],
         d.funded \subseteq e.funded, a \in e.funded
  PROVE  Sound(e, b, s - x)
<1>1. d \in DbType /\ b \in Stakes /\ s \in Int
  BY DEF Sound
<1>2. /\ d.fund \in [Accounts -> Nat] /\ e.fund \in [Accounts -> Nat]
      /\ d.loans \in [1..MaxLoans -> AnyLoan] /\ d.order \in [Accounts -> OrderType]
      /\ d.held \in Nat /\ d.pool.lendable \in Nat /\ d.fund[a] \in Nat
  BY <1>1, DbFields
<1>3. /\ AccountTotal(e.fund, N) = AccountTotal(d.fund, N) + x
      /\ AccountTotal(d.fund, N) \in Nat
  <2>1. /\ AccountTotal(e.fund, N) = AccountTotal(d.fund, N) - d.fund[a] + e.fund[a]
        /\ AccountTotal(d.fund, N) \in Nat
    BY <1>2, FundChange
  <2>2. QED  BY <1>2, <2>1
<1>4. LoanBalances(d.loans) \in Nat /\ AllProceeds(d.order) \in Nat
  BY <1>2, LoanSums, ProceedsChange
<1>5. Books(e, s - x)
  <2>1. Books(d, s)
    BY DEF Sound
  <2>2. e.held = AccountTotal(e.fund, N) + LoanBalances(e.loans) + e.pool.lendable
                 + AllProceeds(e.order) + (s - x)
    BY <1>1, <1>2, <1>3, <1>4, <2>1 DEF Books, OnlyFunds
  <2>3. \A y \in Accounts \ e.funded : e.fund[y] = 0
    BY <2>1 DEF Books
  <2>4. QED  BY <2>1, <2>2, <2>3 DEF Books, OnlyFunds
<1>6. Totals(e) /\ Queued(e) /\ Rented(e, b)
  BY DEF Sound, Totals, Queued, Rented, OnlyFunds
<1>7. \A y \in Accounts : OwnShares(e, y)
  BY DEF Sound, OwnShares, InOrder, InBuckets, OnlyFunds
<1>8. LoansKept(e)
  BY DEF Sound, LoansKept, OnlyFunds
<1>9. s - x \in Int
  BY <1>1
<1>10. QED  BY <1>1, <1>5, <1>6, <1>7, <1>8, <1>9 DEF Sound

(* transfer_to_fund takes tokens that are in no account's books into an    *)
(* account's fund.                                                         *)
LEMMA ToFundSound ==
  ASSUME NEW d, NEW b, NEW s, Sound(d, b, s), NEW a \in Accounts, NEW x \in Nat,
         NEW e, e = ToFund(d, a, x)
  PROVE  /\ Sound(e, b, s - x) /\ OnlyFunds(d, e)
         /\ d.funded \subseteq e.funded
<1>1. d \in DbType
  BY DEF Sound
<1>2. /\ e \in DbType /\ OnlyFunds(d, e) /\ e.fund[a] = d.fund[a] + x
      /\ \A y \in Accounts : y # a => e.fund[y] = d.fund[y]
      /\ d.funded \subseteq e.funded /\ a \in e.funded
  <2>1. d.fund \in [Accounts -> Nat] /\ d.funded \subseteq Accounts
    BY <1>1, DbFields
  <2> DEFINE f == [d.fund EXCEPT ![a] = @ + x]
             r == d.funded \cup {a}
  <2>2. /\ f \in [Accounts -> Nat] /\ f[a] = d.fund[a] + x
        /\ \A y \in Accounts : y # a => f[y] = d.fund[y]
        /\ r \in SUBSET Accounts /\ d.funded \subseteq r /\ a \in r
    BY <2>1
  <2>3. e = [d EXCEPT !.fund = f, !.funded = r]
    BY <1>1 DEF ToFund, DbType
  <2> HIDE DEF f, r
  <2>4. e \in DbType /\ e.fund = f /\ e.funded = r
    BY <1>1, <2>2, <2>3 DEF DbType
  <2>5. OnlyFunds(d, e)
    BY <1>1, <2>3 DEF DbType, OnlyFunds
  <2>6. QED  BY <2>2, <2>4, <2>5
<1>3. QED  BY <1>2, FundMoved

(* transfer_from_fund does the reverse, when the fund has as much.         *)
LEMMA FromFundSound ==
  ASSUME NEW d, NEW b, NEW s, Sound(d, b, s), NEW a \in Accounts, NEW x \in Int,
         InFund(d, a, x), NEW e, e = FromFund(d, a, x)
  PROVE  Sound(e, b, s + x) /\ OnlyFunds(d, e) /\ e.funded = d.funded
<1>1. d \in DbType /\ d.fund[a] \in Nat /\ s \in Int
  BY DbFields DEF Sound
<1>2. a \in d.funded /\ x <= d.fund[a] /\ 0 < x
  BY DEF InFund
<1>3. d.fund[a] - x \in Nat
  BY <1>1, <1>2
<1>4. /\ e \in DbType /\ OnlyFunds(d, e) /\ e.fund[a] = d.fund[a] - x
      /\ \A y \in Accounts : y # a => e.fund[y] = d.fund[y]
      /\ e.funded = d.funded
  BY <1>1, <1>3 DEF DbType, OnlyFunds, FromFund
<1>5. e.fund[a] = d.fund[a] + (0 - x) /\ s - (0 - x) = s + x /\ 0 - x \in Int
  BY <1>1, <1>4
<1>6. Sound(e, b, s - (0 - x))
  BY <1>2, <1>4, <1>5, FundMoved
<1>7. QED  BY <1>4, <1>5, <1>6

(* Settling changes funds and, when it is closed, the order of the account. *)
OnlyDue(d, e, a) ==
  /\ e.held = d.held /\ e.outside = d.outside /\ e.pool = d.pool /\ e.rexbal = d.rexbal
  /\ e.holders = d.holders /\ e.queue = d.queue /\ e.loans = d.loans /\ e.weight = d.weight
  /\ \A x \in Accounts : x # a => e.order[x] = d.order[x]
  /\ e.order[a].open = d.order[a].open
  /\ e.order[a].requested = InOrder(d, a) /\ e.order[a].proceeds = 0
  /\ d.funded \subseteq e.funded

(* update_rex_account pays the proceeds of an order into its owner's fund. *)
LEMMA SettledSound ==
  ASSUME NEW d, NEW b, NEW s, Sound(d, b, s), NEW a \in Accounts, NEW x \in Nat,
         NEW e, e = Settled(d, a, x)
  PROVE  Sound(e, b, s - x) /\ OnlyDue(d, e, a)
<1> DEFINE d1 == IF d.order[a].open THEN d ELSE [d EXCEPT !.order[a] = NoOrder]
           due == d.order[a].proceeds
<1>1. /\ d \in DbType /\ b \in Stakes /\ s \in Int /\ d.order \in [Accounts -> OrderType]
      /\ d.order[a] \in OrderType /\ due \in Nat /\ d.order[a].open \in BOOLEAN
  BY DbFields DEF Sound
<1>2. OwnShares(d, a)
  BY DEF Sound
<1>3. d.order[a].open => due = 0
  BY <1>2 DEF OwnShares
<1>4. NoOrder \in OrderType /\ NoOrder.open = FALSE /\ NoOrder.requested = 0 /\ NoOrder.proceeds = 0
  BY DEF NoOrder, OrderType
<1>5. /\ d1 \in DbType
      /\ d1.held = d.held /\ d1.outside = d.outside /\ d1.pool = d.pool /\ d1.fund = d.fund
      /\ d1.funded = d.funded /\ d1.rexbal = d.rexbal
      /\ d1.holders = d.holders /\ d1.queue = d.queue /\ d1.loans = d.loans
      /\ d1.weight = d.weight
      /\ \A y \in Accounts : y # a => d1.order[y] = d.order[y]
      /\ d1.order[a] = IF d.order[a].open THEN d.order[a] ELSE NoOrder
  <2>1. CASE d.order[a].open
    BY <1>1, <2>1
  <2>2. CASE ~d.order[a].open
    BY <1>1, <1>4, <2>2 DEF DbType
  <2>3. QED  BY <2>1, <2>2
<1> HIDE DEF d1
<1>6. /\ d1.order[a].open = d.order[a].open /\ d1.order[a].requested = InOrder(d, a)
      /\ d1.order[a].proceeds = 0
  BY <1>1, <1>3, <1>4, <1>5 DEF InOrder
<1>7. Sound(d1, b, s + due)
  <2>1. AllProceeds(d1.order) = AllProceeds(d.order) - due /\ AllProceeds(d.order) \in Nat
    <3>1. d1.order \in [Accounts -> OrderType]
      BY <1>5, DbFields
    <3>2. /\ AllProceeds(d1.order) = AllProceeds(d.order) - due + d1.order[a].proceeds
          /\ AllProceeds(d.order) \in Nat
      BY <1>1, <1>5, <3>1, ProceedsChange
    <3>3. QED  BY <1>1, <1>6, <3>2
  <2>2. Books(d1, s + due)
    <3>1. Books(d, s)
      BY DEF Sound
    <3>2. /\ AccountTotal(d.fund, N) \in Nat /\ LoanBalances(d.loans) \in Nat
          /\ d.pool.lendable \in Nat
      BY <1>1, DbFields, LoanSums, FundChange
    <3>3. d1.held = AccountTotal(d1.fund, N) + LoanBalances(d1.loans) + d1.pool.lendable
                    + AllProceeds(d1.order) + (s + due)
      <4>1. d.held = AccountTotal(d.fund, N) + LoanBalances(d.loans) + d.pool.lendable
                     + AllProceeds(d.order) + s
        BY <3>1 DEF Books
      <4> HIDE DEF due
      <4>2. QED  BY <1>1, <1>5, <2>1, <3>2, <4>1
    <3>4. QED  BY <1>5, <3>1, <3>3 DEF Books
  <2>3. \A y \in Accounts : OwnShares(d1, y)
    <3>1. ASSUME NEW y \in Accounts PROVE OwnShares(d1, y)
      <4>1. OwnShares(d, y)
        BY DEF Sound
      <4>2. /\ d1.order[y].open = d.order[y].open
            /\ d.order[y].open => d1.order[y] = d.order[y]
        BY <1>5, <1>6
      <4>3. QED  BY <1>5, <4>1, <4>2 DEF OwnShares, InOrder, InBuckets
    <3>2. QED  BY <3>1
  <2>4. Queued(d1)
    <3>1. {y \in Accounts : d1.order[y].open} = {y \in Accounts : d.order[y].open}
      BY <1>5, <1>6
    <3>2. QED  BY <1>5, <3>1 DEF Sound, Queued
  <2>5. Totals(d1) /\ LoansKept(d1) /\ Rented(d1, b)
    BY <1>5 DEF Sound, Totals, LoansKept, Rented
  <2>6. s + due \in Int
    <3> HIDE DEF due
    <3>1. QED  BY <1>1
  <2>7. QED  BY <1>1, <1>5, <2>2, <2>3, <2>4, <2>5, <2>6 DEF Sound
<1>8. e = IF x + due > 0 THEN ToFund(d1, a, x + due) ELSE d1
  BY DEF Settled, d1
<1>9. CASE x + due > 0
  <2>1. e = ToFund(d1, a, x + due) /\ x + due \in Nat /\ (s + due) - (x + due) = s - x
    BY <1>1, <1>8, <1>9
  <2>2. Sound(e, b, (s + due) - (x + due)) /\ OnlyFunds(d1, e) /\ d1.funded \subseteq e.funded
    <3> HIDE DEF due
    <3>1. QED  BY <1>7, <2>1, ToFundSound
  <2>3. OnlyDue(d, e, a)
    BY <1>5, <1>6, <2>2 DEF OnlyFunds, OnlyDue
  <2>4. QED  BY <2>1, <2>2, <2>3
<1>10. CASE ~(x + due > 0)
  <2>1. e = d1 /\ x = 0 /\ due = 0 /\ s + due = s - x
    BY <1>1, <1>8, <1>10
  <2>2. OnlyDue(d, e, a)
    BY <1>5, <1>6, <2>1 DEF OnlyDue
  <2>3. QED  BY <1>7, <2>1, <2>2
<1>11. QED  BY <1>9, <1>10

-----------------------------------------------------------------------------
(* A share is worth no less in e than in d.                                *)
Worth(d, e) ==
  d.pool.rex > 0 /\ e.pool.rex > 0 =>
    e.pool.lendable * d.pool.rex >= d.pool.lendable * e.pool.rex

(* Shares that only move between an account's buckets leave the books      *)
(* sound.                                                                  *)
LEMMA SharesMovedSound ==
  ASSUME NEW d, NEW b, NEW s, Sound(d, b, s), NEW a \in Accounts, a \in d.holders,
         NEW e, OnlyShares(d, e, a), InTime(InBuckets(e, a)),
         e.rexbal[a].rex = e.rexbal[a].matured + Held(InBuckets(e, a)),
         InOrder(d, a) <= e.rexbal[a].matured
  PROVE  Sound(e, b, s)
<1>1. d \in DbType /\ e \in DbType
  BY DEF Sound, OnlyShares
<1>2. AllShares(e.rexbal) = AllShares(d.rexbal)
  <2>1. /\ d.rexbal \in [Accounts -> SharesType] /\ e.rexbal \in [Accounts -> SharesType]
        /\ d.rexbal[a].rex \in Nat /\ e.rexbal[a].rex = d.rexbal[a].rex
        /\ \A x \in Accounts : x # a => e.rexbal[x].rex = d.rexbal[x].rex
    BY <1>1, DbFields, ShareFields DEF OnlyShares
  <2>2. /\ AllShares(e.rexbal) = AllShares(d.rexbal) - d.rexbal[a].rex + e.rexbal[a].rex
        /\ AllShares(d.rexbal) \in Nat
    BY <2>1, SharesChange
  <2>3. QED  BY <2>1, <2>2
<1>3. \A x \in Accounts : OwnShares(e, x)
  <2>1. ASSUME NEW x \in Accounts PROVE OwnShares(e, x)
    <3>1. OwnShares(d, x)
      BY DEF Sound
    <3>2. CASE x = a
      BY <3>1, <3>2 DEF OnlyShares, OwnShares, InOrder
    <3>3. CASE x # a
      BY <3>1, <3>3 DEF OnlyShares, OwnShares, InOrder, InBuckets
    <3>4. QED  BY <3>2, <3>3
  <2>2. QED  BY <2>1
<1>4. Books(e, s) /\ Totals(e) /\ Queued(e) /\ LoansKept(e) /\ Rented(e, b)
  BY <1>2 DEF Sound, OnlyShares, Books, Totals, Queued, LoansKept, Rented
<1>5. QED  BY <1>1, <1>3, <1>4 DEF Sound

(* ... as they do when they mature.                                        *)
LEMMA MaturedSound ==
  ASSUME NEW d, NEW b, NEW s, Sound(d, b, s), NEW a \in Accounts, a \in d.holders,
         NEW e, e = Matured(d, a)
  PROVE  Sound(e, b, s) /\ OnlyShares(d, e, a)
<1>1. d \in DbType /\ OwnShares(d, a)
  BY DEF Sound
<1>2. /\ OnlyShares(d, e, a) /\ e.rexbal[a].matured >= d.rexbal[a].matured
      /\ InTime(InBuckets(e, a))
      /\ e.rexbal[a].matured + Held(InBuckets(e, a))
           = d.rexbal[a].matured + Held(InBuckets(d, a))
  BY <1>1, SharesMature DEF OwnShares
<1>3. InOrder(d, a) <= e.rexbal[a].matured
  <2>1. e \in DbType
    BY <1>2 DEF OnlyShares
  <2>2. /\ e.rexbal[a].matured \in Nat /\ d.rexbal[a].matured \in Nat
        /\ d.order[a].requested \in Nat /\ InOrder(d, a) <= d.rexbal[a].matured
    BY <1>1, <2>1, ShareFields, DbFields DEF OwnShares
  <2>3. InOrder(d, a) \in Nat
    BY <2>2 DEF InOrder
  <2>4. QED  BY <1>2, <2>2, <2>3
<1>4. e.rexbal[a].rex = e.rexbal[a].matured + Held(InBuckets(e, a))
  BY <1>1, <1>2 DEF OwnShares, OnlyShares
<1>5. QED  BY <1>2, <1>3, <1>4, SharesMovedSound

-----------------------------------------------------------------------------
(* Division rounds down. It rounds the shares that a payment buys, and the *)
(* proceeds of a sale.                                                     *)
LEMMA Quotient ==
  ASSUME NEW x \in Nat, NEW y \in Nat \ {0}
  PROVE  /\ x \div y \in Nat /\ y * (x \div y) <= x
         /\ \A z \in Nat : z * y <= x => z <= x \div y
OBVIOUS

(* What a payment does to the pool: it grows, and no share loses value.    *)
LEMMA PoolBought ==
  ASSUME NEW d, NEW b, NEW s, Sound(d, b, s), NEW p \in Nat \ {0}, MayBuy(d),
         NEW e, e = AddedToPool(d, p)
  PROVE  /\ RexReceived(d, p) \in Nat /\ e = [d EXCEPT !.pool = e.pool]
         /\ e.pool \in PoolType
         /\ e.pool.rex = d.pool.rex + RexReceived(d, p) /\ e.pool.rex > 0
         /\ e.pool.lendable = d.pool.lendable + p /\ e.pool.lent = d.pool.lent
         /\ e.pool.lendable = e.pool.unlent + e.pool.lent
         /\ e.pool.open /\ e.pool.namebid = d.pool.namebid
         /\ e.pool.loan_num = d.pool.loan_num
         /\ Worth(d, e)
<1> DEFINE q == d.pool
<1>1. /\ d \in DbType /\ q \in PoolType
      /\ q.open \in BOOLEAN /\ q.lent \in Nat /\ q.unlent \in Nat
      /\ q.lendable \in Nat /\ q.rex \in Nat /\ q.namebid \in Nat
      /\ q.loan_num \in 0..MaxLoans
  BY DbFields DEF Sound
<1>2. /\ q.lendable = q.unlent + q.lent /\ (q.rex = 0) = (q.lendable = 0)
      /\ ~q.open => q.rex = 0
  BY DEF Sound, Totals
<1>3. CASE RexAvailable(d)
  <2> DEFINE S1 == q.lendable + p
             R1 == (S1 * q.rex) \div q.lendable
  <2>1. q.open /\ q.rex > 0 /\ q.lendable \in Nat \ {0} /\ q.rex \in Nat \ {0}
    BY <1>1, <1>2, <1>3 DEF RexAvailable
  <2>2. S1 \in Nat /\ S1 * q.rex \in Nat /\ q.rex * q.lendable <= S1 * q.rex
    <3>1. PICK l \in Nat, r \in Nat : l = q.lendable /\ r = q.rex
      BY <1>1
    <3>2. (l + p) * r = l * r + p * r /\ p * r \in Nat /\ l * r \in Nat /\ r * l = l * r
      OBVIOUS
    <3>3. l + p \in Nat /\ (l + p) * r \in Nat /\ r * l <= (l + p) * r
      BY <3>2
    <3>4. QED  BY <3>1, <3>3
  <2>3. R1 \in Nat /\ q.lendable * R1 <= S1 * q.rex /\ q.rex <= R1
    <3> HIDE DEF S1, q
    <3>1. QED  BY <2>1, <2>2, Quotient
  <2>4. RexReceived(d, p) = R1 - q.rex
    BY <1>3 DEF RexReceived
  <2>5. e = [d EXCEPT !.pool = [q EXCEPT !.lendable = S1, !.rex = q.rex + RexReceived(d, p),
                                         !.unlent = S1 - q.lent]]
    BY <1>1, <1>3 DEF AddedToPool, DbType, PoolType
  <2>6. RexReceived(d, p) \in Nat /\ q.rex + RexReceived(d, p) = R1 /\ S1 - q.lent \in Nat
    <3> HIDE DEF R1
    <3>1. QED  BY <1>1, <1>2, <2>3, <2>4
  <2> DEFINE u == S1 - q.lent
             t == [q EXCEPT !.lendable = S1, !.rex = R1, !.unlent = u]
  <2>7. /\ t \in PoolType /\ t.rex = R1 /\ t.lendable = S1 /\ t.lent = q.lent /\ t.unlent = u
        /\ t.open = q.open /\ t.namebid = q.namebid /\ t.loan_num = q.loan_num
    <3>1. u \in Nat /\ S1 \in Nat /\ R1 \in Nat
      BY <2>2, <2>3, <2>6
    <3> HIDE DEF u, S1, R1, q
    <3>2. QED  BY <1>1, <3>1 DEF PoolType
  <2>8. e = [d EXCEPT !.pool = t]
    BY <2>5, <2>6
  <2>9. e.pool = t
    <3> HIDE DEF t
    <3>1. QED  BY <1>1, <2>8 DEF DbType
  <2>10. R1 > 0 /\ S1 = u + q.lent
    <3> HIDE DEF R1
    <3>1. QED  BY <1>1, <2>1, <2>3
  <2>11. Worth(d, e)
    <3> HIDE DEF t, R1, S1
    <3>1. QED  BY <2>3, <2>7, <2>9 DEF Worth
  <2>12. QED
    <3> HIDE DEF t, R1, u
    <3>1. QED  BY <2>1, <2>6, <2>7, <2>8, <2>9, <2>10, <2>11
<1>4. CASE ~RexAvailable(d)
  <2>1. q.rex = 0 /\ q.lendable = 0 /\ q.lent = 0
    BY <1>1, <1>2, <1>4 DEF RexAvailable
  <2> DEFINE R1 == p * RexRatio
             t == [open |-> TRUE, lent |-> 0, unlent |-> p, lendable |-> p, rex |-> R1,
                   namebid |-> q.namebid, loan_num |-> q.loan_num]
  <2>2. R1 \in Nat /\ R1 > 0 /\ RexReceived(d, p) = R1
    <3>1. RexRatio \in Nat \ {0}
      BY RexConstants
    <3>2. RexReceived(d, p) = R1
      BY <1>4 DEF RexReceived
    <3>3. QED  BY <3>1, <3>2
  <2>3. e = [d EXCEPT !.pool = t]
    BY <1>4 DEF AddedToPool
  <2> HIDE DEF R1
  <2>4. t \in PoolType
    BY <1>1, <2>2 DEF PoolType
  <2>5. e.pool = t
    <3> HIDE DEF t
    <3>1. QED  BY <1>1, <2>3 DEF DbType
  <2>6. /\ t.rex = R1 /\ t.lendable = p /\ t.lent = 0 /\ t.unlent = p /\ t.open = TRUE
        /\ t.namebid = q.namebid /\ t.loan_num = q.loan_num
    OBVIOUS
  <2> HIDE DEF t
  <2>7. Worth(d, e)
    BY <2>1 DEF Worth
  <2>8. QED  BY <2>1, <2>2, <2>3, <2>4, <2>5, <2>6, <2>7
<1>5. QED  BY <1>3, <1>4

-----------------------------------------------------------------------------
(* add_to_rex_balance gives the account the shares, in the bucket that     *)
(* matures last.                                                           *)
LEMMA BalanceAdded ==
  ASSUME NEW d \in DbType, NEW a \in Accounts, InTime(InBuckets(d, a)), NEW x \in Nat,
         NEW e, e = AddedToBalance(d, a, x)
  PROVE  /\ e \in DbType
         /\ e.held = d.held /\ e.outside = d.outside /\ e.pool = d.pool /\ e.fund = d.fund
         /\ e.funded = d.funded /\ e.holders = d.holders \cup {a} /\ e.order = d.order
         /\ e.queue = d.queue /\ e.loans = d.loans /\ e.weight = d.weight
         /\ \A y \in Accounts : y # a => e.rexbal[y] = d.rexbal[y]
         /\ e.rexbal[a].rex = d.rexbal[a].rex + x
         /\ e.rexbal[a].matured >= d.rexbal[a].matured
         /\ e.rexbal[a].matured + Held(InBuckets(e, a))
              = d.rexbal[a].matured + Held(InBuckets(d, a)) + x
         /\ InTime(InBuckets(e, a))
<1> DEFINE d1 == [d EXCEPT !.holders = @ \cup {a}, !.rexbal[a].rex = @ + x]
           d2 == WithoutSavings(d1, a)
           d3 == Matured(d2, a)
           d4 == [d3 EXCEPT !.rexbal[a].maturities = AddedBucket(@, MaturityDays, x)]
           y == Savings(d, a)
<1>1. /\ d.rexbal[a].rex \in Nat /\ d.rexbal[a].matured \in Nat
      /\ InBuckets(d, a) \in Buckets /\ Held(InBuckets(d, a)) \in Nat
  BY ShareFields
<1>2. /\ d1 \in DbType
      /\ d1.held = d.held /\ d1.outside = d.outside /\ d1.pool = d.pool /\ d1.fund = d.fund
      /\ d1.funded = d.funded /\ d1.holders = d.holders \cup {a} /\ d1.order = d.order
      /\ d1.queue = d.queue /\ d1.loans = d.loans /\ d1.weight = d.weight
      /\ \A z \in Accounts : z # a => d1.rexbal[z] = d.rexbal[z]
      /\ d1.rexbal[a].rex = d.rexbal[a].rex + x
      /\ d1.rexbal[a].matured = d.rexbal[a].matured
      /\ InBuckets(d1, a) = InBuckets(d, a)
  <2> DEFINE R == [d.rexbal EXCEPT ![a].rex = @ + x]
             H == d.holders \cup {a}
  <2>1. d.rexbal \in [Accounts -> SharesType] /\ H \in SUBSET Accounts
    BY DbFields
  <2>2. /\ R \in [Accounts -> SharesType]
        /\ \A z \in Accounts : z # a => R[z] = d.rexbal[z]
        /\ R[a].rex = d.rexbal[a].rex + x /\ R[a].matured = d.rexbal[a].matured
        /\ R[a].maturities = d.rexbal[a].maturities
    BY <1>1, <2>1 DEF SharesType
  <2>3. d1 = [d EXCEPT !.holders = H, !.rexbal = R]
    BY DEF DbType
  <2> HIDE DEF d1, R
  <2>4. /\ d1 \in DbType /\ d1.rexbal = R /\ d1.holders = H
    BY <2>1, <2>2, <2>3 DEF DbType
  <2>5. /\ d1.held = d.held /\ d1.outside = d.outside /\ d1.pool = d.pool /\ d1.fund = d.fund
        /\ d1.funded = d.funded /\ d1.order = d.order
        /\ d1.queue = d.queue /\ d1.loans = d.loans /\ d1.weight = d.weight
    BY <2>3 DEF DbType
  <2>6. QED  BY <2>2, <2>4, <2>5 DEF InBuckets
<1> HIDE DEF d1
<1>3. Savings(d1, a) = y
  BY <1>2 DEF Savings, InBuckets
<1> HIDE DEF y
<1>4. /\ OnlyShares(d1, d2, a) /\ d2.rexbal[a].matured = d1.rexbal[a].matured
      /\ InTime(InBuckets(d2, a)) /\ ~HasSavings(InBuckets(d2, a)) /\ y \in Nat
      /\ Held(InBuckets(d2, a)) = Held(InBuckets(d1, a)) - y
  BY <1>2, <1>3, SavingsTaken
<1> HIDE DEF d2
<1>5. /\ OnlyShares(d2, d3, a) /\ d3.rexbal[a].matured >= d2.rexbal[a].matured
      /\ InTime(InBuckets(d3, a)) /\ ~HasSavings(InBuckets(d3, a))
      /\ d3.rexbal[a].matured + Held(InBuckets(d3, a))
           = d2.rexbal[a].matured + Held(InBuckets(d2, a))
  <2>1. d2 \in DbType
    BY <1>4 DEF OnlyShares
  <2>2. QED  BY <1>4, <2>1, SharesMature
<1> HIDE DEF d3
<1>6. /\ OnlyShares(d3, d4, a) /\ d4.rexbal[a].matured = d3.rexbal[a].matured
      /\ InTime(InBuckets(d4, a))
      /\ Held(InBuckets(d4, a)) = Held(InBuckets(d3, a)) + x
  <2>1. d3 \in DbType /\ MaturityDays \in 1..EndOfDays
    BY <1>5, RexConstants DEF OnlyShares
  <2>2. Until(InBuckets(d3, a), MaturityDays)
    BY <1>5, <2>1, ShareFields, LastBucket
  <2>3. QED  BY <1>5, <2>1, <2>2, SharesAdded
<1>7. /\ OnlyShares(d4, e, a) /\ e.rexbal[a].matured = d4.rexbal[a].matured
      /\ InTime(InBuckets(e, a))
      /\ Held(InBuckets(e, a)) = Held(InBuckets(d4, a)) + y
  <2>1. e = WithSavings(d4, a, y)
    BY DEF AddedToBalance, d1, d2, d3, y
  <2> HIDE DEF d4
  <2>2. d4 \in DbType
    BY <1>6 DEF OnlyShares
  <2>3. QED  BY <1>4, <1>6, <2>1, <2>2, SharesSaved
<1> HIDE DEF d4
<1>8. OnlyShares(d1, e, a)
  BY <1>4, <1>5, <1>6, <1>7, OnlySharesTwice
<1>9. /\ d2 \in DbType /\ d3 \in DbType /\ d4 \in DbType /\ e \in DbType
  BY <1>4, <1>5, <1>6, <1>7 DEF OnlyShares
<1>10. /\ d2.rexbal[a].matured \in Nat /\ d3.rexbal[a].matured \in Nat
       /\ Held(InBuckets(d2, a)) \in Nat /\ Held(InBuckets(d3, a)) \in Nat
       /\ Held(InBuckets(d4, a)) \in Nat
  BY <1>9, ShareFields
<1>11. /\ e.rexbal[a].matured >= d.rexbal[a].matured
       /\ e.rexbal[a].matured + Held(InBuckets(e, a))
            = d.rexbal[a].matured + Held(InBuckets(d, a)) + x
  BY <1>1, <1>2, <1>4, <1>5, <1>6, <1>7, <1>10
<1>12. QED  BY <1>2, <1>7, <1>8, <1>9, <1>11 DEF OnlyShares

(* A payment that is in celes.rex and in no account's books buys shares.   *)
LEMMA BoughtSound ==
  ASSUME NEW d, NEW b, NEW s, Sound(d, b, s), NEW a \in Accounts, NEW p \in Nat \ {0},
         MayBuy(d), NEW e, e = Bought(d, a, p)
  PROVE  /\ Sound(e, b, s - p) /\ Worth(d, e) /\ a \in e.holders
         /\ e.pool.lent = d.pool.lent /\ e.queue = d.queue /\ e.order = d.order
         /\ e.pool.open
<1> DEFINE d1 == AddedToPool(d, p)
           x == RexReceived(d, p)
<1>1. d \in DbType /\ b \in Stakes /\ s \in Int /\ OwnShares(d, a)
  BY DEF Sound
<1>2. /\ x \in Nat /\ d1 = [d EXCEPT !.pool = d1.pool] /\ d1.pool \in PoolType
      /\ d1.pool.rex = d.pool.rex + x /\ d1.pool.rex > 0
      /\ d1.pool.lendable = d.pool.lendable + p /\ d1.pool.lent = d.pool.lent
      /\ d1.pool.lendable = d1.pool.unlent + d1.pool.lent
      /\ d1.pool.open /\ d1.pool.namebid = d.pool.namebid
      /\ d1.pool.loan_num = d.pool.loan_num
      /\ Worth(d, d1)
  BY PoolBought
<1>3. e = AddedToBalance(d1, a, x)
  BY DEF Bought
<1> HIDE DEF d1, x
<1>4. /\ d1 \in DbType
      /\ d1.held = d.held /\ d1.outside = d.outside /\ d1.fund = d.fund
      /\ d1.funded = d.funded /\ d1.holders = d.holders /\ d1.order = d.order
      /\ d1.queue = d.queue /\ d1.loans = d.loans /\ d1.weight = d.weight
      /\ d1.rexbal = d.rexbal
  BY <1>1, <1>2 DEF DbType
<1>5. /\ e \in DbType
      /\ e.held = d1.held /\ e.outside = d1.outside /\ e.pool = d1.pool /\ e.fund = d1.fund
      /\ e.funded = d1.funded /\ e.holders = d1.holders \cup {a} /\ e.order = d1.order
      /\ e.queue = d1.queue /\ e.loans = d1.loans /\ e.weight = d1.weight
      /\ \A y \in Accounts : y # a => e.rexbal[y] = d1.rexbal[y]
      /\ e.rexbal[a].rex = d1.rexbal[a].rex + x
      /\ e.rexbal[a].matured >= d1.rexbal[a].matured
      /\ e.rexbal[a].matured + Held(InBuckets(e, a))
           = d1.rexbal[a].matured + Held(InBuckets(d1, a)) + x
      /\ InTime(InBuckets(e, a))
  <2>1. InTime(InBuckets(d1, a))
    BY <1>1, <1>4 DEF OwnShares, InBuckets
  <2>2. QED  BY <1>2, <1>3, <1>4, <2>1, BalanceAdded
<1>6. Books(e, s - p)
  <2>1. Books(d, s)
    BY DEF Sound
  <2>2. /\ AccountTotal(d.fund, N) \in Nat /\ LoanBalances(d.loans) \in Nat
        /\ AllProceeds(d.order) \in Nat /\ d.pool.lendable \in Nat
    BY <1>1, DbFields, LoanSums, FundChange, ProceedsChange
  <2>3. e.held = AccountTotal(e.fund, N) + LoanBalances(e.loans) + e.pool.lendable
                 + AllProceeds(e.order) + (s - p)
    <3>1. d.held = AccountTotal(d.fund, N) + LoanBalances(d.loans) + d.pool.lendable
                   + AllProceeds(d.order) + s
      BY <2>1 DEF Books
    <3>2. QED  BY <1>1, <1>2, <1>4, <1>5, <2>2, <3>1
  <2>4. QED  BY <1>2, <1>4, <1>5, <2>1, <2>3 DEF Books
<1>7. Totals(e)
  <2>1. Totals(d)
    BY DEF Sound
  <2>2. AllShares(e.rexbal) = AllShares(d.rexbal) + x
    <3>1. /\ d.rexbal \in [Accounts -> SharesType] /\ e.rexbal \in [Accounts -> SharesType]
          /\ d.rexbal[a].rex \in Nat /\ e.rexbal[a].rex = d.rexbal[a].rex + x
          /\ \A y \in Accounts : y # a => e.rexbal[y].rex = d.rexbal[y].rex
      BY <1>1, <1>4, <1>5, DbFields, ShareFields
    <3>2. /\ AllShares(e.rexbal) = AllShares(d.rexbal) - d.rexbal[a].rex + e.rexbal[a].rex
          /\ AllShares(d.rexbal) \in Nat
      BY <3>1, SharesChange
    <3>3. QED  BY <1>2, <3>1, <3>2
  <2>3. e.pool.lendable > 0 /\ e.pool.rex > 0
    <3>1. d.pool.lendable \in Nat
      BY <1>1, DbFields
    <3>2. QED  BY <1>2, <1>5, <3>1
  <2>4. QED  BY <1>2, <1>4, <1>5, <2>1, <2>2, <2>3 DEF Totals
<1>8. \A y \in Accounts : OwnShares(e, y)
  <2>1. ASSUME NEW y \in Accounts PROVE OwnShares(e, y)
    <3>1. OwnShares(d, y)
      BY DEF Sound
    <3>2. CASE y = a
      <4>1. /\ d.rexbal[a].matured \in Nat /\ Held(InBuckets(d, a)) \in Nat
            /\ e.rexbal[a].matured \in Nat /\ Held(InBuckets(e, a)) \in Nat
            /\ InOrder(d, a) \in Nat
        BY <1>1, <1>5, ShareFields, DbFields DEF InOrder
      <4>2. InBuckets(d1, a) = InBuckets(d, a) /\ InOrder(e, a) = InOrder(d, a)
        BY <1>4, <1>5 DEF InBuckets, InOrder
      <4>3. /\ d.rexbal[a].rex = d.rexbal[a].matured + Held(InBuckets(d, a))
            /\ InOrder(d, a) <= d.rexbal[a].matured
            /\ d.order[a].open => d.order[a].requested > 0 /\ d.order[a].proceeds = 0
        BY <1>1 DEF OwnShares
      <4>4. /\ e.rexbal[a].rex = e.rexbal[a].matured + Held(InBuckets(e, a))
            /\ InOrder(e, a) <= e.rexbal[a].matured
        BY <1>2, <1>4, <1>5, <4>1, <4>2, <4>3
      <4>5. QED  BY <1>4, <1>5, <3>2, <4>3, <4>4 DEF OwnShares
    <3>3. CASE y # a
      BY <1>4, <1>5, <3>1, <3>3 DEF OwnShares, InOrder, InBuckets
    <3>4. QED  BY <3>2, <3>3
  <2>2. QED  BY <2>1
<1>9. Queued(e) /\ LoansKept(e) /\ Rented(e, b)
  BY <1>2, <1>4, <1>5 DEF Sound, Queued, LoansKept, Rented
<1>10. Worth(d, e)
  BY <1>2, <1>5 DEF Worth
<1>11. s - p \in Int
  BY <1>1
<1>12. QED  BY <1>1, <1>2, <1>4, <1>5, <1>6, <1>7, <1>8, <1>9, <1>10, <1>11 DEF Sound

-----------------------------------------------------------------------------
(* The sums of tokens, and that no fund exceeds them.                      *)
LEMMA MoneySums ==
  ASSUME NEW d \in DbType
  PROVE  /\ AccountTotal(d.fund, N) \in Nat /\ LoanBalances(d.loans) \in Nat
         /\ AllProceeds(d.order) \in Nat /\ LoansLent(d.loans) \in Nat
         /\ \A a \in Accounts : d.fund[a] <= AccountTotal(d.fund, N)
<1>1. /\ N \in Nat /\ Accounts = 1..N
      /\ d.fund \in [Accounts -> Nat] /\ d.loans \in [1..MaxLoans -> AnyLoan]
      /\ \A a \in Accounts : d.order[a].proceeds \in Nat /\ d.fund[a] \in Nat
  BY DbFields, RexConstants
<1>2. AccountTotal(d.fund, N) \in Nat /\ \A a \in Accounts : d.fund[a] <= AccountTotal(d.fund, N)
  BY <1>1, AccountTotalNat
<1>3. AllProceeds(d.order) \in Nat
  <2> DEFINE p == [a \in Accounts |-> d.order[a].proceeds]
  <2>1. \A a \in 1..N : p[a] \in Nat
    BY <1>1
  <2>2. AccountTotal(p, N) \in Nat
    <3> HIDE DEF p
    <3>1. QED  BY <1>1, <2>1, AccountTotalNat
  <2>3. QED  BY <2>2 DEF AllProceeds
<1>4. QED  BY <1>1, <1>2, <1>3, LoanSums

(* What work on loans and name proceeds leaves alone: shares and orders.   *)
Loaned(d, e) ==
  /\ e.rexbal = d.rexbal /\ e.holders = d.holders /\ e.order = d.order /\ e.queue = d.queue
  /\ e.pool.open = d.pool.open /\ e.pool.rex = d.pool.rex
  /\ e.pool.lendable >= d.pool.lendable
  /\ d.queue # <<>> => e.pool.lent <= d.pool.lent

(* Two such pieces of work.                                                *)
LEMMA LoanedTwice ==
  ASSUME NEW d \in DbType, NEW e \in DbType, NEW f \in DbType, Loaned(d, e), Loaned(e, f)
  PROVE  Loaned(d, f)
<1>1. /\ d.pool.lendable \in Nat /\ e.pool.lendable \in Nat /\ f.pool.lendable \in Nat
      /\ d.pool.lent \in Nat /\ e.pool.lent \in Nat /\ f.pool.lent \in Nat
  BY DbFields
<1>2. QED  BY <1>1 DEF Loaned

(* Fees and proceeds that come from outside belong to the pool.            *)
LEMMA ChannelledSound ==
  ASSUME NEW d, NEW b, NEW s, Sound(d, b, s), NEW x \in Nat, NEW y \in Nat,
         x + y <= d.outside,
         NEW e, e = [ChannelledTo(d, x) EXCEPT !.pool.namebid = y]
  PROVE  Sound(e, b, s) /\ Loaned(d, e)
<1> DEFINE g == IF RexAvailable(d) THEN x ELSE 0
           q == [d.pool EXCEPT !.unlent = @ + g, !.lendable = @ + g, !.namebid = y]
<1>1. /\ d \in DbType /\ b \in Stakes /\ s \in Int
      /\ d.held \in Nat /\ d.outside \in Nat /\ d.pool \in PoolType
      /\ d.pool.lent \in Nat /\ d.pool.unlent \in Nat /\ d.pool.lendable \in Nat
      /\ d.pool.rex \in Nat
  BY DbFields DEF Sound
<1>2. g \in Nat /\ g + y <= d.outside /\ d.outside - g \in Nat /\ y <= d.outside - g
  BY <1>1
<1>3. e = [d EXCEPT !.pool = q, !.held = d.held + g, !.outside = d.outside - g]
  <2>1. CASE RexAvailable(d)
    <3> DEFINE p == [d.pool EXCEPT !.unlent = @ + x, !.lendable = @ + x]
    <3>1. ChannelledTo(d, x) = [d EXCEPT !.pool = p, !.held = @ + x, !.outside = @ - x]
      BY <1>1, <2>1 DEF ChannelledTo, DbType, PoolType
    <3>2. q = [p EXCEPT !.namebid = y] /\ g = x
      BY <1>1, <2>1 DEF PoolType
    <3> DEFINE c == ChannelledTo(d, x)
    <3>3. c.pool = p /\ c = [d EXCEPT !.pool = p, !.held = @ + x, !.outside = @ - x]
      <4> HIDE DEF p
      <4>1. QED  BY <1>1, <3>1 DEF DbType
    <3>4. e = [c EXCEPT !.pool = [c.pool EXCEPT !.namebid = y]]
      OBVIOUS
    <3>5. e = [c EXCEPT !.pool = q]
      BY <3>2, <3>3, <3>4, Zenon
    <3> HIDE DEF p, q, c, g
    <3>6. QED  BY <1>1, <3>2, <3>3, <3>5 DEF DbType
  <2>2. CASE ~RexAvailable(d)
    <3>1. ChannelledTo(d, x) = d /\ g = 0
      BY <2>2 DEF ChannelledTo
    <3>2. d.pool.unlent + g = d.pool.unlent /\ d.pool.lendable + g = d.pool.lendable
      <4> HIDE DEF g
      <4>1. QED  BY <1>1, <3>1
    <3>3. q = [d.pool EXCEPT !.unlent = d.pool.unlent + g, !.lendable = d.pool.lendable + g,
                             !.namebid = y]
      OBVIOUS
    <3> HIDE DEF q
    <3>4. q = [d.pool EXCEPT !.unlent = d.pool.unlent, !.lendable = d.pool.lendable,
                             !.namebid = y]
      <4> HIDE DEF g
      <4>1. QED  BY <3>2, <3>3
    <3>5. q = [d.pool EXCEPT !.namebid = y]
      BY <1>1, <3>4 DEF PoolType
    <3>6. e = [d EXCEPT !.pool = q]
      BY <3>1, <3>5
    <3>7. d.held + g = d.held /\ d.outside - g = d.outside
      <4> HIDE DEF g
      <4>1. QED  BY <1>1, <3>1
    <3> HIDE DEF g
    <3>8. e = [d EXCEPT !.pool = q, !.held = d.held, !.outside = d.outside]
      BY <1>1, <3>6 DEF DbType
    <3>9. QED  BY <3>7, <3>8
  <2>3. QED  BY <2>1, <2>2
<1>4. g > 0 => d.pool.rex > 0
  BY <1>1 DEF RexAvailable
<1> HIDE DEF g
<1>5. /\ q \in PoolType /\ q.unlent = d.pool.unlent + g /\ q.lendable = d.pool.lendable + g
      /\ q.namebid = y /\ q.open = d.pool.open /\ q.lent = d.pool.lent /\ q.rex = d.pool.rex
      /\ q.loan_num = d.pool.loan_num
  <2> DEFINE u == d.pool.unlent + g
             l == d.pool.lendable + g
  <2>1. u \in Nat /\ l \in Nat /\ q = [d.pool EXCEPT !.unlent = u, !.lendable = l, !.namebid = y]
    BY <1>1, <1>2
  <2> HIDE DEF u, l, q
  <2>2. /\ q \in PoolType /\ q.unlent = u /\ q.lendable = l
        /\ q.namebid = y /\ q.open = d.pool.open /\ q.lent = d.pool.lent
        /\ q.rex = d.pool.rex /\ q.loan_num = d.pool.loan_num
    BY <1>1, <2>1 DEF PoolType
  <2>3. QED  BY <2>2 DEF u, l
<1> HIDE DEF q
<1>6. /\ e \in DbType /\ e.pool = q /\ e.held = d.held + g /\ e.outside = d.outside - g
      /\ e.fund = d.fund /\ e.funded = d.funded /\ e.rexbal = d.rexbal
      /\ e.holders = d.holders /\ e.order = d.order /\ e.queue = d.queue
      /\ e.loans = d.loans /\ e.weight = d.weight
  <2> DEFINE h == d.held + g
             o == d.outside - g
  <2>1. h \in Nat /\ o \in Nat /\ e = [d EXCEPT !.pool = q, !.held = h, !.outside = o]
    <3>1. h \in Nat /\ o \in Nat
      BY <1>1, <1>2
    <3>2. QED  BY <1>3, <3>1, Zenon
  <2> HIDE DEF h, o
  <2>2. /\ e \in DbType /\ e.pool = q /\ e.held = h /\ e.outside = o
        /\ e.fund = d.fund /\ e.funded = d.funded /\ e.rexbal = d.rexbal
        /\ e.holders = d.holders /\ e.order = d.order /\ e.queue = d.queue
        /\ e.loans = d.loans /\ e.weight = d.weight
    BY <1>1, <1>5, <2>1 DEF DbType
  <2>3. QED  BY <2>2 DEF h, o
<1>7. Books(e, s)
  <2>1. Books(d, s)
    BY DEF Sound
  <2>2. /\ AccountTotal(d.fund, N) \in Nat /\ LoanBalances(d.loans) \in Nat
        /\ AllProceeds(d.order) \in Nat
    BY <1>1, MoneySums
  <2>3. e.held = AccountTotal(e.fund, N) + LoanBalances(e.loans) + e.pool.lendable
                 + AllProceeds(e.order) + s
    BY <1>1, <1>2, <1>5, <1>6, <2>1, <2>2 DEF Books
  <2>4. QED  BY <1>2, <1>5, <1>6, <2>1, <2>3 DEF Books
<1>8. Totals(e)
  <2>1. Totals(d)
    BY DEF Sound
  <2>2. (q.rex = 0) = (q.lendable = 0)
    BY <1>1, <1>2, <1>4, <1>5, <2>1 DEF Totals
  <2>3. q.lendable = q.unlent + q.lent
    BY <1>1, <1>2, <1>5, <2>1 DEF Totals
  <2>4. QED  BY <1>5, <1>6, <2>1, <2>2, <2>3 DEF Totals
<1>9. \A a \in Accounts : OwnShares(e, a)
  BY <1>6 DEF Sound, OwnShares, InOrder, InBuckets
<1>10. Queued(e) /\ LoansKept(e) /\ Rented(e, b)
  BY <1>5, <1>6 DEF Sound, Queued, LoansKept, Rented
<1>11. Loaned(d, e)
  <2>1. e.pool.lendable >= d.pool.lendable /\ e.pool.lent <= d.pool.lent
    BY <1>1, <1>2, <1>5, <1>6
  <2>2. QED  BY <1>5, <1>6, <2>1 DEF Loaned
<1>12. QED  BY <1>1, <1>6, <1>7, <1>8, <1>9, <1>10, <1>11 DEF Sound

(* ... which is what runrex does with the proceeds of name auctions.       *)
LEMMA NamesChannelledSound ==
  ASSUME NEW d, NEW b, NEW s, Sound(d, b, s), NEW e, e = NamesChannelled(d)
  PROVE  Sound(e, b, s) /\ Loaned(d, e)
<1>1. /\ d \in DbType /\ d.pool.namebid \in Nat /\ d.outside \in Nat
      /\ d.pool.lendable \in Nat /\ d.pool.lent \in Nat /\ d.pool.namebid <= d.outside
  BY DbFields DEF Sound, Books
<1>2. CASE d.pool.namebid = 0
  <2>1. e = d
    BY <1>2 DEF NamesChannelled
  <2>2. QED  BY <1>1, <2>1 DEF Loaned
<1>3. CASE d.pool.namebid # 0
  <2>1. e = [ChannelledTo(d, d.pool.namebid) EXCEPT !.pool.namebid = 0]
    BY <1>3 DEF NamesChannelled
  <2>2. 0 \in Nat /\ d.pool.namebid + 0 <= d.outside
    BY <1>1
  <2>3. QED  BY <1>1, <2>1, <2>2, ChannelledSound
<1>4. QED  BY <1>2, <1>3

(* One loan is made, changed or closed.                                    *)
OnlyLoan(d, e, n) ==
  /\ e.held = d.held /\ e.outside = d.outside /\ e.fund = d.fund /\ e.funded = d.funded
  /\ e.rexbal = d.rexbal /\ e.holders = d.holders /\ e.order = d.order /\ e.queue = d.queue
  /\ \A o \in 1..MaxLoans : o # n => e.loans[o] = d.loans[o]
  /\ e.pool.open = d.pool.open /\ e.pool.rex = d.pool.rex /\ e.pool.namebid = d.pool.namebid
  /\ d.pool.loan_num <= e.pool.loan_num
  /\ e.pool.lent = d.pool.lent - LentBy(d.loans[n]) + LentBy(e.loans[n])
  /\ e.pool.lendable = e.pool.unlent + e.pool.lent
  /\ (e.pool.lendable = 0) = (d.pool.lendable = 0)
  /\ \A r \in Accounts, k \in Kinds :
       e.weight[r][k] = d.weight[r][k] - RentedBy(d.loans[n], r, k) + RentedBy(e.loans[n], r, k)
  /\ e.loans[n] # NoLoan => n <= e.pool.loan_num /\ e.loans[n].from \in d.funded

(* The books stay sound when the tokens of the loan and of the pool are    *)
(* accounted for.                                                          *)
LEMMA LoanReplaced ==
  ASSUME NEW d, NEW b, NEW s, Sound(d, b, s), NEW e \in DbType, NEW n \in 1..MaxLoans,
         OnlyLoan(d, e, n), NEW t,
         t = s + BalanceOf(d.loans[n]) - BalanceOf(e.loans[n])
               + d.pool.lendable - e.pool.lendable
  PROVE  Sound(e, b, t)
<1>1. /\ d \in DbType /\ b \in Stakes /\ s \in Int
      /\ d.loans \in [1..MaxLoans -> AnyLoan] /\ e.loans \in [1..MaxLoans -> AnyLoan]
      /\ d.pool.lendable \in Nat /\ e.pool.lendable \in Nat
      /\ d.pool.lent \in Nat /\ d.held \in Nat
  BY DbFields DEF Sound
<1>2. /\ BalanceOf(d.loans[n]) \in Nat /\ BalanceOf(e.loans[n]) \in Nat
      /\ LentBy(d.loans[n]) \in Nat /\ LentBy(e.loans[n]) \in Nat
  <2>1. d.loans[n] \in AnyLoan /\ e.loans[n] \in AnyLoan
    BY <1>1
  <2>2. QED  BY <2>1, LoanParts
<1>3. \A o \in 1..MaxLoans : o # n => e.loans[o] = d.loans[o]
  BY DEF OnlyLoan
<1>4. /\ LoanBalances(e.loans) = LoanBalances(d.loans) - BalanceOf(d.loans[n]) + BalanceOf(e.loans[n])
      /\ LoansLent(e.loans) = LoansLent(d.loans) - LentBy(d.loans[n]) + LentBy(e.loans[n])
      /\ LoanBalances(d.loans) \in Nat /\ LoansLent(d.loans) \in Nat
  BY <1>1, <1>3, LoanChange, LoanSums
<1>5. t \in Int
  BY <1>1, <1>2
<1>6. Books(e, t)
  <2>1. Books(d, s)
    BY DEF Sound
  <2>2. /\ AccountTotal(d.fund, N) \in Nat /\ AllProceeds(d.order) \in Nat
    BY <1>1, MoneySums
  <2>3. d.held = AccountTotal(d.fund, N) + LoanBalances(d.loans) + d.pool.lendable
                 + AllProceeds(d.order) + s
    BY <2>1 DEF Books
  <2>4. e.held = AccountTotal(e.fund, N) + LoanBalances(e.loans) + e.pool.lendable
                 + AllProceeds(e.order) + t
    <3>1. e.held = d.held /\ e.fund = d.fund /\ e.order = d.order
      BY DEF OnlyLoan
    <3>2. PICK f \in Int, g \in Int, p \in Int :
            f = AccountTotal(d.fund, N) /\ g = LoanBalances(d.loans) /\ p = AllProceeds(d.order)
      BY <1>4, <2>2
    <3>3. d.held = f + g + d.pool.lendable + p + s
      BY <2>3, <3>2
    <3>4. LoanBalances(e.loans) = g - BalanceOf(d.loans[n]) + BalanceOf(e.loans[n])
      BY <1>4, <3>2
    <3>5. d.held = f + LoanBalances(e.loans) + e.pool.lendable + p + t
      <4>1. PICK x \in Int, y \in Int, l \in Int, k \in Int, u \in Int :
              /\ x = BalanceOf(d.loans[n]) /\ y = BalanceOf(e.loans[n])
              /\ l = d.pool.lendable /\ k = e.pool.lendable /\ u = s
        BY <1>1, <1>2
      <4>2. t = u + x - y + l - k
        BY <4>1
      <4>3. LoanBalances(e.loans) = g - x + y
        BY <3>4, <4>1
      <4>4. d.held = f + g + l + p + u
        BY <3>3, <4>1
      <4>5. d.held = f + (g - x + y) + k + p + t
        BY <4>2, <4>4
      <4>6. QED  BY <4>1, <4>3, <4>5
    <3>6. QED  BY <3>1, <3>2, <3>5
  <2>5. QED  BY <2>1, <2>4 DEF Books, OnlyLoan
<1>7. Totals(e)
  BY <1>4 DEF Sound, Totals, OnlyLoan
<1>8. \A a \in Accounts : OwnShares(e, a)
  BY DEF Sound, OwnShares, InOrder, InBuckets, OnlyLoan
<1>9. Queued(e)
  BY DEF Sound, Queued, OnlyLoan
<1>10. LoansKept(e)
  <2>1. SUFFICES ASSUME NEW o \in 1..MaxLoans, e.loans[o] # NoLoan
                 PROVE  o <= e.pool.loan_num /\ e.loans[o].from \in e.funded
    BY DEF LoansKept
  <2>2. CASE o = n
    BY <2>1, <2>2 DEF OnlyLoan
  <2>3. CASE o # n
    <3>1. o <= d.pool.loan_num /\ d.loans[o].from \in d.funded
      BY <1>3, <2>1, <2>3 DEF Sound, LoansKept
    <3>2. d.pool.loan_num \in Nat /\ e.pool.loan_num \in Nat
      BY <1>1, DbFields
    <3>3. e.loans[o] = d.loans[o] /\ d.pool.loan_num <= e.pool.loan_num /\ e.funded = d.funded
      BY <2>3 DEF OnlyLoan
    <3>4. QED  BY <3>1, <3>2, <3>3
  <2>4. QED  BY <2>2, <2>3
<1>11. Rented(e, b)
  <2>1. SUFFICES ASSUME NEW r \in Accounts, NEW k \in Kinds
                 PROVE  e.weight[r][k] = StakedFor(b, r, k) + LoansRented(e.loans, r, k)
    BY DEF Rented
  <2>2. /\ LoansRented(e.loans, r, k) = LoansRented(d.loans, r, k)
             - RentedBy(d.loans[n], r, k) + RentedBy(e.loans[n], r, k)
        /\ LoansRented(d.loans, r, k) \in Nat /\ StakedFor(b, r, k) \in Nat
    <3>1. LoansRented(e.loans, r, k) = LoansRented(d.loans, r, k)
             - RentedBy(d.loans[n], r, k) + RentedBy(e.loans[n], r, k)
      BY <1>1, <1>3, LoanChange
    <3>2. LoansRented(d.loans, r, k) \in Nat
      BY <1>1, LoanSums
    <3>3. StakedFor(b, r, k) \in Nat
      BY <1>1, StakeSums
    <3>4. QED  BY <3>1, <3>2, <3>3
  <2>3. RentedBy(d.loans[n], r, k) \in Nat /\ RentedBy(e.loans[n], r, k) \in Nat
    <3>1. d.loans[n] \in AnyLoan /\ e.loans[n] \in AnyLoan
      BY <1>1
    <3>2. QED  BY <3>1, LoanParts
  <2>4. d.weight[r][k] = StakedFor(b, r, k) + LoansRented(d.loans, r, k)
    BY DEF Sound, Rented
  <2>5. e.weight[r][k] = d.weight[r][k] - RentedBy(d.loans[n], r, k) + RentedBy(e.loans[n], r, k)
    BY DEF OnlyLoan
  <2>6. QED  BY <2>2, <2>3, <2>4, <2>5
<1>12. QED  BY <1>1, <1>5, <1>6, <1>7, <1>8, <1>9, <1>10, <1>11 DEF Sound

-----------------------------------------------------------------------------
(* A database with a loan, the pool and one weight replaced.               *)
LoanDb(d, n, q, l, r, k, w) ==
  [d EXCEPT !.pool = q, !.loans = [d.loans EXCEPT ![n] = l],
            !.weight = [d.weight EXCEPT ![r] = [d.weight[r] EXCEPT ![k] = w]]]

(* ... its fields.                                                         *)
LEMMA LoanPut ==
  ASSUME NEW d \in DbType, NEW n \in 1..MaxLoans, NEW q \in PoolType, NEW l \in AnyLoan,
         NEW r \in Accounts, NEW k \in Kinds, NEW w \in Nat,
         NEW e, e = LoanDb(d, n, q, l, r, k, w)
  PROVE  /\ e \in DbType /\ e.pool = q /\ e.loans[n] = l
         /\ \A o \in 1..MaxLoans : o # n => e.loans[o] = d.loans[o]
         /\ e.weight[r][k] = w
         /\ \A x \in Accounts, y \in Kinds :
              ~(x = r /\ y = k) => e.weight[x][y] = d.weight[x][y]
         /\ e.held = d.held /\ e.outside = d.outside /\ e.fund = d.fund
         /\ e.funded = d.funded /\ e.rexbal = d.rexbal /\ e.holders = d.holders
         /\ e.order = d.order /\ e.queue = d.queue
<1> DEFINE L == [d.loans EXCEPT ![n] = l]
           W == [d.weight EXCEPT ![r] = [d.weight[r] EXCEPT ![k] = w]]
<1>1. d.loans \in [1..MaxLoans -> AnyLoan] /\ d.weight \in [Accounts -> [Kinds -> Nat]]
  BY DbFields
<1>2. /\ L \in [1..MaxLoans -> AnyLoan] /\ L[n] = l
      /\ \A o \in 1..MaxLoans : o # n => L[o] = d.loans[o]
  <2> HIDE DEF AnyLoan
  <2>1. QED  BY <1>1
<1>3. /\ W \in [Accounts -> [Kinds -> Nat]] /\ W[r][k] = w
      /\ \A x \in Accounts, y \in Kinds : ~(x = r /\ y = k) => W[x][y] = d.weight[x][y]
  BY <1>1
<1>4. e = [d EXCEPT !.pool = q, !.loans = L, !.weight = W]
  BY DEF LoanDb
<1> HIDE DEF L, W, AnyLoan
<1>5. /\ e \in DbType /\ e.pool = q /\ e.loans = L /\ e.weight = W
      /\ e.held = d.held /\ e.outside = d.outside /\ e.fund = d.fund
      /\ e.funded = d.funded /\ e.rexbal = d.rexbal /\ e.holders = d.holders
      /\ e.order = d.order /\ e.queue = d.queue
  BY <1>2, <1>3, <1>4 DEF DbType
<1>6. QED  BY <1>2, <1>3, <1>5

(* What is known of a loan in sound books.                                 *)
LEMMA LoanKnown ==
  ASSUME NEW d, NEW b, NEW s, Sound(d, b, s), NEW n \in 1..MaxLoans, d.loans[n] # NoLoan,
         NEW l, l = d.loans[n]
  PROVE  /\ l \in LoanType /\ l.from \in d.funded /\ n <= d.pool.loan_num
         /\ l.staked <= d.pool.lent /\ l.staked <= d.weight[l.receiver][l.kind]
         /\ BalanceOf(l) = l.balance /\ LentBy(l) = l.staked
         /\ \A r \in Accounts, k \in Kinds :
              RentedBy(l, r, k) = IF r = l.receiver /\ k = l.kind THEN l.staked ELSE 0
<1>1. d \in DbType /\ b \in Stakes /\ d.loans \in [1..MaxLoans -> AnyLoan]
  BY DbFields DEF Sound
<1>2. l \in LoanType
  BY <1>1 DEF AnyLoan
<1>3. /\ BalanceOf(l) = l.balance /\ LentBy(l) = l.staked
      /\ \A r \in Accounts, k \in Kinds :
           RentedBy(l, r, k) = IF r = l.receiver /\ k = l.kind THEN l.staked ELSE 0
  BY DEF BalanceOf, LentBy, RentedBy
<1>4. l.from \in d.funded /\ n <= d.pool.loan_num
  BY DEF Sound, LoansKept
<1>5. l.staked <= d.pool.lent
  BY <1>1, <1>3, LoanSums DEF Sound, Totals
<1>6. l.staked <= d.weight[l.receiver][l.kind]
  <2>1. l.receiver \in Accounts /\ l.kind \in Kinds /\ l.staked \in Nat
    BY <1>2, LoanFields
  <2>2. RentedBy(l, l.receiver, l.kind) = l.staked
    BY <1>3, <2>1
  <2>3. /\ l.staked <= LoansRented(d.loans, l.receiver, l.kind)
        /\ LoansRented(d.loans, l.receiver, l.kind) \in Nat
    BY <1>1, <2>2, LoanSums
  <2>4. StakedFor(b, l.receiver, l.kind) \in Nat
    BY <1>1, <2>1, StakeSums
  <2>5. d.weight[l.receiver][l.kind]
          = StakedFor(b, l.receiver, l.kind) + LoansRented(d.loans, l.receiver, l.kind)
    BY <2>1 DEF Sound, Rented
  <2>6. QED  BY <2>1, <2>3, <2>4, <2>5
<1>7. QED  BY <1>2, <1>3, <1>4, <1>5, <1>6

(* A loan can always be closed.                                            *)
LEMMA ClosingsSound ==
  ASSUME NEW d, NEW b, NEW s, Sound(d, b, s), NEW n \in 1..MaxLoans, d.loans[n] # NoLoan
  PROVE  /\ Closings(d, n) # {}
         /\ \A e \in Closings(d, n) : Sound(e, b, s) /\ Loaned(d, e)
<1> DEFINE l == d.loans[n]
           q == [d.pool EXCEPT !.unlent = @ + l.staked, !.lent = @ - l.staked,
                               !.lendable = d.pool.unlent + d.pool.lent]
           w == d.weight[l.receiver][l.kind] + (0 - l.staked)
           d1 == Weighted([Removed(d, l.staked) EXCEPT !.loans[n] = NoLoan],
                          l.receiver, l.kind, 0 - l.staked)
<1>1. /\ l \in LoanType /\ l.from \in d.funded /\ n <= d.pool.loan_num
      /\ l.staked <= d.pool.lent /\ l.staked <= d.weight[l.receiver][l.kind]
      /\ BalanceOf(l) = l.balance /\ LentBy(l) = l.staked
      /\ \A r \in Accounts, k \in Kinds :
           RentedBy(l, r, k) = IF r = l.receiver /\ k = l.kind THEN l.staked ELSE 0
  BY LoanKnown
<1>2. /\ l.from \in Accounts /\ l.receiver \in Accounts /\ l.kind \in Kinds
      /\ l.balance \in Nat /\ l.staked \in Nat \ {0}
  BY <1>1, LoanFields
<1>3. /\ d \in DbType /\ s \in Int /\ d.pool \in PoolType
      /\ d.pool.lent \in Nat /\ d.pool.unlent \in Nat /\ d.pool.lendable \in Nat
      /\ d.pool.lendable = d.pool.unlent + d.pool.lent
      /\ d.weight[l.receiver][l.kind] \in Nat /\ d.pool.loan_num \in Nat
  <2>1. /\ d \in DbType /\ d.pool \in PoolType
        /\ d.pool.lent \in Nat /\ d.pool.unlent \in Nat /\ d.pool.lendable \in Nat
        /\ d.weight \in [Accounts -> [Kinds -> Nat]] /\ d.pool.loan_num \in Nat
    BY DbFields DEF Sound
  <2>2. d.weight[l.receiver][l.kind] \in Nat
    BY <1>2, <2>1
  <2>3. QED  BY <2>1, <2>2 DEF Sound, Totals
<1>4. w \in Nat
  BY <1>1, <1>2, <1>3
<1>5. /\ q \in PoolType /\ q.unlent = d.pool.unlent + l.staked /\ q.lent = d.pool.lent - l.staked
      /\ q.lendable = d.pool.lendable
      /\ q.open = d.pool.open /\ q.rex = d.pool.rex /\ q.namebid = d.pool.namebid
      /\ q.loan_num = d.pool.loan_num
  <2> DEFINE u == d.pool.unlent + l.staked
             v == d.pool.lent - l.staked
  <2>1. u \in Nat /\ v \in Nat
    BY <1>1, <1>2, <1>3
  <2>2. q = [d.pool EXCEPT !.unlent = u, !.lent = v, !.lendable = d.pool.lendable]
    BY <1>3
  <2> HIDE DEF u, v, q, l
  <2>3. /\ q \in PoolType /\ q.unlent = u /\ q.lent = v /\ q.lendable = d.pool.lendable
        /\ q.open = d.pool.open /\ q.rex = d.pool.rex /\ q.namebid = d.pool.namebid
        /\ q.loan_num = d.pool.loan_num
    BY <1>3, <2>1, <2>2 DEF PoolType
  <2>4. QED  BY <2>3 DEF u, v
<1>6. d1 = LoanDb(d, n, q, NoLoan, l.receiver, l.kind, w)
  <2> DEFINE c == Removed(d, l.staked)
  <2>1. c = [d EXCEPT !.pool = q]
    <3> HIDE DEF l
    <3>1. QED  BY <1>3 DEF Removed, DbType, PoolType
  <2> HIDE DEF q, l
  <2>2. [c EXCEPT !.loans[n] = NoLoan] = [d EXCEPT !.pool = q, !.loans = [d.loans EXCEPT ![n] = NoLoan]]
    <3> HIDE DEF c
    <3>1. QED  BY <1>3, <2>1 DEF DbType
  <2>3. QED
    BY <1>3, <2>2 DEF Weighted, LoanDb, DbType, w
<1>7. NoLoan \in AnyLoan
  BY DEF AnyLoan
<1> HIDE DEF q, l, w, d1
<1>8. /\ d1 \in DbType /\ d1.pool = q /\ d1.loans[n] = NoLoan
      /\ \A o \in 1..MaxLoans : o # n => d1.loans[o] = d.loans[o]
      /\ d1.weight[l.receiver][l.kind] = w
      /\ \A x \in Accounts, y \in Kinds :
           ~(x = l.receiver /\ y = l.kind) => d1.weight[x][y] = d.weight[x][y]
      /\ d1.held = d.held /\ d1.outside = d.outside /\ d1.fund = d.fund
      /\ d1.funded = d.funded /\ d1.rexbal = d.rexbal /\ d1.holders = d.holders
      /\ d1.order = d.order /\ d1.queue = d.queue
  <2>1. PICK r \in Accounts, k \in Kinds : r = l.receiver /\ k = l.kind
    BY <1>2
  <2>2. d \in DbType /\ q \in PoolType /\ w \in Nat /\ d1 = LoanDb(d, n, q, NoLoan, r, k, w)
    BY <1>3, <1>4, <1>5, <1>6, <2>1
  <2> HIDE DEF AnyLoan, DbType, PoolType
  <2>3. /\ d1 \in DbType /\ d1.pool = q /\ d1.loans[n] = NoLoan
        /\ \A o \in 1..MaxLoans : o # n => d1.loans[o] = d.loans[o]
        /\ d1.weight[r][k] = w
        /\ \A x \in Accounts, y \in Kinds :
             ~(x = r /\ y = k) => d1.weight[x][y] = d.weight[x][y]
        /\ d1.held = d.held /\ d1.outside = d.outside /\ d1.fund = d.fund
        /\ d1.funded = d.funded /\ d1.rexbal = d.rexbal /\ d1.holders = d.holders
        /\ d1.order = d.order /\ d1.queue = d.queue
    BY <1>7, <2>2, LoanPut
  <2>4. QED  BY <2>1, <2>3
<1>9. Sound(d1, b, s + l.balance)
  <2>1. /\ BalanceOf(d1.loans[n]) = 0 /\ LentBy(d1.loans[n]) = 0
        /\ \A r, k : RentedBy(d1.loans[n], r, k) = 0
    BY <1>8 DEF BalanceOf, LentBy, RentedBy
  <2>2. \A r \in Accounts, k \in Kinds :
          d1.weight[r][k] = d.weight[r][k] - RentedBy(d.loans[n], r, k) + RentedBy(d1.loans[n], r, k)
    <3>1. ASSUME NEW r \in Accounts, NEW k \in Kinds
          PROVE  d1.weight[r][k] = d.weight[r][k] - RentedBy(l, r, k) + 0
      <4>1. d.weight[r][k] \in Nat
        BY <1>3, DbFields
      <4>2. CASE r = l.receiver /\ k = l.kind
        BY <1>1, <1>2, <1>3, <1>8, <4>2 DEF w
      <4>3. CASE ~(r = l.receiver /\ k = l.kind)
        BY <1>1, <1>8, <4>1, <4>3
      <4>4. QED  BY <4>2, <4>3
    <3>2. QED  BY <2>1, <3>1 DEF l
  <2>3. OnlyLoan(d, d1, n)
    <3>1. d1.pool.lent = d.pool.lent - LentBy(d.loans[n]) + LentBy(d1.loans[n])
      <4>1. d1.pool.lent = d.pool.lent - LentBy(l) + 0
        BY <1>1, <1>2, <1>3, <1>5, <1>8
      <4>2. QED  BY <2>1, <4>1 DEF l
    <3>2. d1.pool.lendable = d1.pool.unlent + d1.pool.lent
      BY <1>2, <1>3, <1>5, <1>8
    <3>3. QED  BY <1>3, <1>5, <1>8, <2>2, <3>1, <3>2 DEF OnlyLoan
  <2>4. s + l.balance = s + BalanceOf(d.loans[n]) - BalanceOf(d1.loans[n])
                          + d.pool.lendable - d1.pool.lendable
    <3>1. s + l.balance = s + BalanceOf(l) - 0 + d.pool.lendable - d1.pool.lendable
      BY <1>1, <1>2, <1>3, <1>5, <1>8
    <3>2. QED  BY <2>1, <3>1 DEF l
  <2>5. QED  BY <1>8, <2>3, <2>4, LoanReplaced
<1>10. Loaned(d, d1)
  BY <1>1, <1>2, <1>3, <1>5, <1>8 DEF Loaned
<1>11. Closings(d, n) = {IF l.balance > 0 THEN ToFund(d1, l.from, l.balance) ELSE d1}
  <2>1. HasWeight(d, l.receiver, l.kind, 0 - l.staked)
    BY <1>1, <1>2, <1>3 DEF HasWeight
  <2>2. QED  BY <1>1, <2>1 DEF Closings, l, d1
<1>12. ASSUME NEW e, e = IF l.balance > 0 THEN ToFund(d1, l.from, l.balance) ELSE d1
       PROVE  Sound(e, b, s) /\ Loaned(d, e)
  <2>1. CASE l.balance > 0
    <3>1. Sound(e, b, (s + l.balance) - l.balance) /\ OnlyFunds(d1, e)
      BY <1>2, <1>9, <1>12, <2>1, ToFundSound
    <3>2. (s + l.balance) - l.balance = s
      BY <1>2, <1>3
    <3>3. Loaned(d, e)
      BY <1>10, <3>1 DEF Loaned, OnlyFunds
    <3>4. QED  BY <3>1, <3>2, <3>3
  <2>2. CASE ~(l.balance > 0)
    <3>1. e = d1 /\ s + l.balance = s
      BY <1>2, <1>3, <1>12, <2>2
    <3>2. QED  BY <1>9, <1>10, <3>1
  <2>3. QED  BY <2>1, <2>2
<1>13. QED  BY <1>11, <1>12

-----------------------------------------------------------------------------
(* A renewed loan is paid for with its balance and takes the place of the  *)
(* old one.                                                                *)
LEMMA RenewalsSound ==
  ASSUME NEW d, NEW b, NEW s, Sound(d, b, s), NEW n \in 1..MaxLoans, d.loans[n] # NoLoan,
         d.loans[n].days <= 0, NEW e \in Renewals(d, n)
  PROVE  Sound(e, b, s) /\ Loaned(d, e)
<1> DEFINE l == d.loans[n]
           d1 == Removed(d, l.staked)
           Renewal(rented) == [l EXCEPT !.staked = rented, !.days = @ + LoanDays,
                                        !.balance = @ - l.payment]
           Renewed(rented) == Weighted([Lent(d1, l.payment, rented) EXCEPT
                                          !.loans[n] = Renewal(rented)],
                                       l.receiver, l.kind, DeltaStake(l, rented))
<1>1. /\ l \in LoanType /\ l.from \in d.funded /\ n <= d.pool.loan_num
      /\ l.staked <= d.pool.lent /\ l.staked <= d.weight[l.receiver][l.kind]
      /\ BalanceOf(l) = l.balance /\ LentBy(l) = l.staked
      /\ \A r \in Accounts, k \in Kinds :
           RentedBy(l, r, k) = IF r = l.receiver /\ k = l.kind THEN l.staked ELSE 0
  BY LoanKnown
<1>2. /\ l.from \in Accounts /\ l.receiver \in Accounts /\ l.kind \in Kinds
      /\ l.balance \in Nat /\ l.staked \in Nat \ {0} /\ l.payment \in Nat \ {0}
      /\ l.days \in Int /\ 0 - MaxOverdue <= l.days /\ l.days <= 0
  BY <1>1, LoanFields
<1>3. /\ d \in DbType /\ s \in Int /\ d.pool \in PoolType
      /\ d.pool.lent \in Nat /\ d.pool.unlent \in Nat /\ d.pool.lendable \in Nat
      /\ d.pool.lendable = d.pool.unlent + d.pool.lent
      /\ d.weight[l.receiver][l.kind] \in Nat /\ d.pool.loan_num \in Nat
      /\ (d.pool.rex = 0) = (d.pool.lendable = 0) /\ d.pool.rex \in Nat
  <2>1. /\ d \in DbType /\ d.pool \in PoolType
        /\ d.pool.lent \in Nat /\ d.pool.unlent \in Nat /\ d.pool.lendable \in Nat
        /\ d.weight \in [Accounts -> [Kinds -> Nat]] /\ d.pool.loan_num \in Nat
        /\ d.pool.rex \in Nat
    BY DbFields DEF Sound
  <2>2. d.weight[l.receiver][l.kind] \in Nat
    BY <1>2, <2>1
  <2>3. QED  BY <2>1, <2>2 DEF Sound, Totals
<1>4. /\ l.payment <= l.balance /\ RexLoansAvailable(d)
      /\ \E rented \in l.payment + 1..d1.pool.unlent :
           HasWeight(d, l.receiver, l.kind, DeltaStake(l, rented)) /\ e = Renewed(rented)
  <2>1. CASE ~(l.payment <= l.balance /\ RexLoansAvailable(d))
    <3>1. Renewals(d, n) = {}
      BY <2>1 DEF Renewals
    <3>2. QED  BY <3>1
  <2>2. CASE l.payment <= l.balance /\ RexLoansAvailable(d)
    <3>1. e \in {Renewed(rented) : rented \in {r \in l.payment + 1..d1.pool.unlent :
                               HasWeight(d, l.receiver, l.kind, DeltaStake(l, r))}}
      BY <2>2, Zenon DEF Renewals
    <3> HIDE DEF Renewed, d1, l
    <3>2. QED  BY <2>2, <3>1
  <2>3. QED  BY <2>1, <2>2
<1>5. d1.pool.unlent = d.pool.unlent + l.staked
  BY <1>3 DEF Removed, DbType, PoolType
<1>6. PICK rented \in l.payment + 1..d1.pool.unlent :
        HasWeight(d, l.receiver, l.kind, DeltaStake(l, rented)) /\ e = Renewed(rented)
  BY <1>4
<1>7. /\ rented \in Nat \ {0} /\ rented <= d.pool.unlent + l.staked
      /\ d.weight[l.receiver][l.kind] + (rented - l.staked) >= 0
  BY <1>2, <1>3, <1>5, <1>6 DEF HasWeight, DeltaStake
<1> DEFINE u == d.pool.unlent + l.staked - rented + l.payment
           v == d.pool.lent - l.staked + rented
           t == d.pool.lendable + l.payment
           q == [d.pool EXCEPT !.unlent = u, !.lent = v, !.lendable = t]
           w == d.weight[l.receiver][l.kind] + (rented - l.staked)
           m == Renewal(rented)
<1>8. u \in Nat /\ v \in Nat /\ t \in Nat /\ w \in Nat /\ t = u + v
  BY <1>1, <1>2, <1>3, <1>7
<1>9. /\ m \in LoanType /\ m.receiver = l.receiver /\ m.kind = l.kind /\ m.from = l.from
      /\ m.staked = rented /\ m.balance = l.balance - l.payment
  <2>1. MaxOverdue \in Nat /\ LoanDays \in Nat
    BY RexConstants
  <2> DEFINE x == l.days + LoanDays
             y == l.balance - l.payment
  <2>2. x \in (0 - MaxOverdue)..LoanDays /\ y \in Nat
    <3> HIDE DEF l
    <3>1. QED  BY <1>2, <1>4, <2>1
  <2>3. m = [l EXCEPT !.staked = rented, !.days = x, !.balance = y]
    OBVIOUS
  <2> HIDE DEF x, y, m, l
  <2>4. /\ m \in LoanType /\ m.receiver = l.receiver /\ m.kind = l.kind /\ m.from = l.from
        /\ m.staked = rented /\ m.balance = y
    BY <1>1, <1>7, <2>2, <2>3 DEF LoanType
  <2>5. QED  BY <2>4 DEF y
<1>10. e = LoanDb(d, n, q, m, l.receiver, l.kind, w)
  <2> DEFINE p == [d.pool EXCEPT !.unlent = d.pool.unlent + l.staked,
                                 !.lent = d.pool.lent - l.staked,
                                 !.lendable = d.pool.lendable]
  <2>1. d1 = [d EXCEPT !.pool = p] /\ p.unlent = d.pool.unlent + l.staked
        /\ p.lent = d.pool.lent - l.staked /\ p.lendable = d.pool.lendable
    <3> HIDE DEF l
    <3>1. QED  BY <1>3 DEF Removed, DbType, PoolType
  <2> DEFINE c == Lent(d1, l.payment, rented)
  <2>2. c = [d1 EXCEPT !.pool = [p EXCEPT !.unlent = p.unlent - rented + l.payment,
                                          !.lent = p.lent + rented,
                                          !.lendable = p.unlent + p.lent + l.payment]]
    <3>1. d1.pool = p
      <4> HIDE DEF p, d1
      <4>1. QED  BY <1>3, <2>1 DEF DbType
    <3> HIDE DEF p, d1, l
    <3>2. QED  BY <3>1 DEF Lent
  <2>3. [p EXCEPT !.unlent = p.unlent - rented + l.payment, !.lent = p.lent + rented,
                  !.lendable = p.unlent + p.lent + l.payment] = q
    <3>1. /\ p.unlent - rented + l.payment = u /\ p.lent + rented = v
          /\ p.unlent + p.lent + l.payment = t
      <4> HIDE DEF p, l
      <4>1. QED  BY <1>2, <1>3, <1>7, <2>1
    <3>2. [p EXCEPT !.unlent = u, !.lent = v, !.lendable = t] = q
      <4> HIDE DEF u, v, t, l
      <4>1. QED  BY <1>3 DEF PoolType
    <3> HIDE DEF p, q, u, v, t, l
    <3>3. QED  BY <3>1, <3>2
  <2>4. c = [d EXCEPT !.pool = q]
    <3> HIDE DEF c, p, q, d1, l
    <3>1. QED  BY <1>3, <2>1, <2>2, <2>3 DEF DbType
  <2>5. e = Weighted([c EXCEPT !.loans[n] = m], l.receiver, l.kind, DeltaStake(l, rented))
    BY <1>6
  <2> HIDE DEF c, q, m, l
  <2>6. [c EXCEPT !.loans[n] = m] = [d EXCEPT !.pool = q, !.loans = [d.loans EXCEPT ![n] = m]]
    BY <1>3, <2>4 DEF DbType
  <2>7. QED
    BY <1>3, <2>5, <2>6 DEF Weighted, LoanDb, DbType, DeltaStake, w
<1>11. /\ q \in PoolType /\ q.unlent = u /\ q.lent = v /\ q.lendable = t
       /\ q.open = d.pool.open /\ q.rex = d.pool.rex /\ q.namebid = d.pool.namebid
       /\ q.loan_num = d.pool.loan_num
  <2> HIDE DEF u, v, t, l
  <2>1. QED  BY <1>3, <1>8 DEF PoolType
<1> HIDE DEF q, m, w, d1, Renewal, Renewed
<1>12. /\ e \in DbType /\ e.pool = q /\ e.loans[n] = m
       /\ \A o \in 1..MaxLoans : o # n => e.loans[o] = d.loans[o]
       /\ e.weight[l.receiver][l.kind] = w
       /\ \A x \in Accounts, y \in Kinds :
            ~(x = l.receiver /\ y = l.kind) => e.weight[x][y] = d.weight[x][y]
       /\ e.held = d.held /\ e.outside = d.outside /\ e.fund = d.fund
       /\ e.funded = d.funded /\ e.rexbal = d.rexbal /\ e.holders = d.holders
       /\ e.order = d.order /\ e.queue = d.queue
  <2>1. PICK r \in Accounts, k \in Kinds : r = l.receiver /\ k = l.kind
    BY <1>2
  <2>2. /\ d \in DbType /\ q \in PoolType /\ w \in Nat /\ e = LoanDb(d, n, q, m, r, k, w)
        /\ m \in AnyLoan
    BY <1>3, <1>8, <1>9, <1>10, <1>11, <2>1 DEF AnyLoan, w
  <2> HIDE DEF AnyLoan, DbType, PoolType, l, u, v, t
  <2>3. /\ e \in DbType /\ e.pool = q /\ e.loans[n] = m
        /\ \A o \in 1..MaxLoans : o # n => e.loans[o] = d.loans[o]
        /\ e.weight[r][k] = w
        /\ \A x \in Accounts, y \in Kinds :
             ~(x = r /\ y = k) => e.weight[x][y] = d.weight[x][y]
        /\ e.held = d.held /\ e.outside = d.outside /\ e.fund = d.fund
        /\ e.funded = d.funded /\ e.rexbal = d.rexbal /\ e.holders = d.holders
        /\ e.order = d.order /\ e.queue = d.queue
    BY <2>2, LoanPut
  <2>4. QED  BY <2>1, <2>3
<1>13. /\ BalanceOf(m) = l.balance - l.payment /\ LentBy(m) = rented
       /\ \A r, k : RentedBy(m, r, k) = IF m.receiver = r /\ m.kind = k THEN rented ELSE 0
  <2>1. m # NoLoan
    BY <1>9, LoanFields
  <2>2. QED  BY <1>9, <2>1 DEF BalanceOf, LentBy, RentedBy
<1>14. OnlyLoan(d, e, n)
  <2>1. \A r \in Accounts, k \in Kinds :
          e.weight[r][k] = d.weight[r][k] - RentedBy(d.loans[n], r, k) + RentedBy(e.loans[n], r, k)
    <3>1. ASSUME NEW r \in Accounts, NEW k \in Kinds
          PROVE  e.weight[r][k] = d.weight[r][k] - RentedBy(l, r, k) + RentedBy(m, r, k)
      <4>1. d.weight[r][k] \in Nat
        BY <1>3, DbFields
      <4>2. CASE r = l.receiver /\ k = l.kind
        <5>1. RentedBy(l, r, k) = l.staked /\ RentedBy(m, r, k) = rented
          BY <1>1, <1>9, <1>13, <4>2
        <5>2. e.weight[r][k] = w /\ w = d.weight[r][k] + (rented - l.staked)
          BY <1>12, <4>2 DEF w
        <5> HIDE DEF l
        <5>3. QED  BY <1>2, <1>7, <4>1, <5>1, <5>2
      <4>3. CASE ~(r = l.receiver /\ k = l.kind)
        <5>1. RentedBy(l, r, k) = 0 /\ RentedBy(m, r, k) = 0
          BY <1>1, <1>9, <1>13, <4>3
        <5>2. QED  BY <1>12, <4>1, <4>3, <5>1
      <4>4. QED  BY <4>2, <4>3
    <3>2. QED  BY <1>12, <3>1
  <2>2. e.pool.lent = d.pool.lent - LentBy(d.loans[n]) + LentBy(e.loans[n])
    <3>1. e.pool.lent = d.pool.lent - LentBy(l) + LentBy(m)
      BY <1>1, <1>11, <1>12, <1>13
    <3>2. QED  BY <1>12, <3>1
  <2>3. e.pool.lendable = e.pool.unlent + e.pool.lent
    BY <1>8, <1>11, <1>12
  <2>4. (e.pool.lendable = 0) = (d.pool.lendable = 0)
    <3>1. d.pool.rex > 0
      BY <1>4 DEF RexLoansAvailable, RexAvailable
    <3>2. d.pool.lendable > 0
      BY <1>3, <3>1
    <3>3. t > 0
      BY <1>2, <1>3, <3>2
    <3>4. QED  BY <1>3, <1>11, <1>12, <3>2, <3>3
  <2>5. e.loans[n] # NoLoan => n <= e.pool.loan_num /\ e.loans[n].from \in d.funded
    BY <1>1, <1>9, <1>11, <1>12
  <2>6. d.pool.loan_num <= e.pool.loan_num
    BY <1>3, <1>11, <1>12
  <2>7. QED  BY <1>11, <1>12, <2>1, <2>2, <2>3, <2>4, <2>5, <2>6 DEF OnlyLoan
<1>15. Sound(e, b, s)
  <2>1. s = s + BalanceOf(d.loans[n]) - BalanceOf(e.loans[n])
                          + d.pool.lendable - e.pool.lendable
    <3>1. s = s + BalanceOf(l) - BalanceOf(m) + d.pool.lendable - e.pool.lendable
      BY <1>1, <1>2, <1>3, <1>11, <1>12, <1>13
    <3>2. QED  BY <1>12, <3>1
  <2>2. QED  BY <1>12, <1>14, <2>1, LoanReplaced
<1>16. Loaned(d, e)
  <2>1. d.queue = <<>>
    BY <1>4 DEF RexLoansAvailable
  <2>2. e.pool.lendable >= d.pool.lendable
    BY <1>2, <1>3, <1>11, <1>12
  <2>3. QED  BY <1>11, <1>12, <2>1, <2>2 DEF Loaned
<1>17. QED  BY <1>15, <1>16

-----------------------------------------------------------------------------
(* The first loan of a kind is closed or renewed if it has expired.        *)
LEMMA LoanProcessedSound ==
  ASSUME NEW d, NEW b, NEW s, Sound(d, b, s), NEW k
  PROVE  /\ LoanProcessed(d, k) # {}
         /\ \A e \in LoanProcessed(d, k) : Sound(e, b, s) /\ Loaned(d, e)
<1>1. /\ d \in DbType /\ d.pool.lendable \in Nat /\ d.pool.lent \in Nat
  BY DbFields DEF Sound
<1>2. CASE Expired(d, k) = {}
  <2>1. LoanProcessed(d, k) = {d}
    BY <1>2 DEF LoanProcessed
  <2>2. Loaned(d, d)
    BY <1>1 DEF Loaned
  <2>3. QED  BY <2>1, <2>2
<1>3. CASE Expired(d, k) # {}
  <2>1. LoanProcessed(d, k) = UNION {Closings(d, n) \cup Renewals(d, n) : n \in Expired(d, k)}
    BY <1>3 DEF LoanProcessed
  <2>2. \A n \in Expired(d, k) : n \in 1..MaxLoans /\ d.loans[n] # NoLoan /\ d.loans[n].days <= 0
    BY DEF Expired, LoansMade
  <2>3. \A n \in Expired(d, k) :
          /\ Closings(d, n) # {}
          /\ \A e \in Closings(d, n) : Sound(e, b, s) /\ Loaned(d, e)
    BY <2>2, ClosingsSound
  <2>4. \A n \in Expired(d, k) : \A e \in Renewals(d, n) : Sound(e, b, s) /\ Loaned(d, e)
    BY <2>2, RenewalsSound
  <2>5. LoanProcessed(d, k) # {}
    BY <1>3, <2>1, <2>3
  <2>6. ASSUME NEW e \in LoanProcessed(d, k) PROVE Sound(e, b, s) /\ Loaned(d, e)
    <3>1. PICK n \in Expired(d, k) : e \in Closings(d, n) \cup Renewals(d, n)
      BY <2>1, <2>6
    <3>2. QED  BY <2>3, <2>4, <3>1
  <2>7. QED  BY <2>5, <2>6
<1>4. QED  BY <1>2, <1>3

(* The outcomes of one more loan.                                          *)
Further(D, k) == UNION {LoanProcessed(d, k) : d \in D}

(* LoansProcessed is what its defining equation says it is.                *)
LEMMA LoansProcessedDef ==
  ASSUME NEW D, NEW k, NEW max \in Nat
  PROVE  \E t : /\ t[0] = D
                /\ \A i \in 1..max : t[i] = Further(t[i-1], k)
                /\ LoansProcessed(D, k, max) = t[max]
<1> DEFINE Solves(t, m) == t = [i \in 0..m |-> IF i = 0 THEN D ELSE Further(t[i-1], k)]
           Solvable == {m \in 0..max : \E t : Solves(t, m)}
<1>1. 0 \in Solvable
  <2>1. Solves([i \in 0..0 |-> D], 0)
    OBVIOUS
  <2>2. QED
    <3> HIDE DEF Solves
    <3>1. QED  BY <2>1
<1>2. ASSUME NEW m \in 1..max, m-1 \in Solvable
      PROVE  m \in Solvable
  <2>1. PICK t : Solves(t, m-1)
    BY <1>2
  <2> DEFINE u == [i \in 0..m |-> IF i = m THEN Further(t[m-1], k) ELSE t[i]]
  <2>2. \A i \in 0..m : u[i] = IF i = 0 THEN D ELSE Further(u[i-1], k)
    <3>1. ASSUME NEW i \in 0..m PROVE u[i] = IF i = 0 THEN D ELSE Further(u[i-1], k)
      <4>1. CASE i = m
        <5>1. u[i] = Further(t[m-1], k) /\ u[i-1] = t[m-1] /\ i # 0
          BY <4>1
        <5>2. QED  BY <5>1
      <4>2. CASE i # m
        <5>1. i \in 0..(m-1) /\ u[i] = t[i]
          BY <4>2
        <5>2. t[i] = IF i = 0 THEN D ELSE Further(t[i-1], k)
          BY <2>1, <5>1
        <5>3. i # 0 => u[i-1] = t[i-1]
          BY <5>1
        <5>4. QED  BY <5>1, <5>2, <5>3
      <4>3. QED  BY <4>1, <4>2
    <3>2. QED  BY <3>1
  <2>3. u = [i \in 0..m |-> IF i = 0 THEN D ELSE Further(u[i-1], k)]
    BY <2>2
  <2>4. Solves(u, m)
    BY <2>3
  <2>5. QED
    <3> HIDE DEF Solves, u
    <3>1. QED  BY <2>4
<1>3. max \in Solvable
  <2>1. \A i \in 0..max : i \in Solvable
    <3> HIDE DEF Solvable
    <3>1. QED  BY <1>1, <1>2, SegmentInduction
  <2>2. max \in 0..max
    OBVIOUS
  <2>3. QED
    <3> HIDE DEF Solvable
    <3>1. QED  BY <2>1, <2>2
<1> DEFINE upTo == CHOOSE t : t = [i \in 0..max |-> IF i = 0 THEN D ELSE Further(t[i-1], k)]
<1>4. upTo = [i \in 0..max |-> IF i = 0 THEN D ELSE Further(upTo[i-1], k)]
  <2>1. \E t : t = [i \in 0..max |-> IF i = 0 THEN D ELSE Further(t[i-1], k)]
    BY <1>3
  <2>2. QED  BY <2>1
<1>5. LoansProcessed(D, k, max) = upTo[max]
  BY Zenon DEF LoansProcessed, Further
<1>6. upTo[0] = D /\ \A i \in 1..max : upTo[i] = Further(upTo[i-1], k)
  <2> HIDE DEF upTo
  <2>1. QED  BY <1>4
<1>7. QED
  <2> HIDE DEF upTo
  <2>1. QED  BY <1>5, <1>6

(* Whatever loans of a kind runrex closes and renews, the books stay       *)
(* sound, and it gets that far.                                            *)
LEMMA LoansProcessedSound ==
  ASSUME NEW b, NEW s, NEW d \in DbType, NEW D, D # {},
         \A e \in D : Sound(e, b, s) /\ Loaned(d, e), NEW k, NEW max \in Nat
  PROVE  /\ LoansProcessed(D, k, max) # {}
         /\ \A e \in LoansProcessed(D, k, max) : Sound(e, b, s) /\ Loaned(d, e)
<1>1. PICK t : /\ t[0] = D
               /\ \A i \in 1..max : t[i] = Further(t[i-1], k)
               /\ LoansProcessed(D, k, max) = t[max]
  BY LoansProcessedDef
<1> DEFINE Good == {i \in 0..max : /\ t[i] # {}
                                   /\ \A e \in t[i] : Sound(e, b, s) /\ Loaned(d, e)}
<1>2. 0 \in Good
  BY <1>1
<1>3. ASSUME NEW i \in 1..max, i-1 \in Good PROVE i \in Good
  <2>1. t[i-1] # {} /\ \A e \in t[i-1] : Sound(e, b, s) /\ Loaned(d, e)
    BY <1>3
  <2>2. t[i] = UNION {LoanProcessed(e, k) : e \in t[i-1]}
    BY <1>1 DEF Further
  <2>3. t[i] # {}
    BY <2>1, <2>2, LoanProcessedSound
  <2>4. ASSUME NEW f \in t[i] PROVE Sound(f, b, s) /\ Loaned(d, f)
    <3>1. PICK e \in t[i-1] : f \in LoanProcessed(e, k)
      BY <2>2
    <3>2. Sound(f, b, s) /\ Loaned(e, f)
      BY <2>1, <3>1, LoanProcessedSound
    <3>3. e \in DbType /\ f \in DbType
      BY <2>1, <3>2 DEF Sound
    <3>4. QED  BY <2>1, <3>2, <3>3, LoanedTwice
  <2>5. QED  BY <2>3, <2>4
<1>4. \A i \in 0..max : i \in Good
  <2> HIDE DEF Good
  <2>1. QED  BY <1>2, <1>3, SegmentInduction
<1>5. QED  BY <1>1, <1>4

-----------------------------------------------------------------------------
(* A queue in two pieces.                                                  *)
LEMMA Pieces ==
  ASSUME NEW q \in Seq(Accounts), NEW n \in 0..Len(q), NEW g, g = SubSeq(q, 1, n),
         NEW h, h = SubSeq(q, n + 1, Len(q))
  PROVE  /\ g \in Seq(Accounts) /\ Len(g) = n /\ \A i \in 1..n : g[i] = q[i]
         /\ h \in Seq(Accounts) /\ Len(h) = Len(q) - n
         /\ \A i \in 1..(Len(q) - n) : h[i] = q[i+n]
<1>1. /\ Len(q) \in Nat /\ n \in Nat /\ n \in Int /\ n + 1 \in Int /\ Len(q) \in Int /\ 1 \in Int
      /\ \A i \in 1..n : q[i] \in Accounts
      /\ \A i \in (n+1)..Len(q) : q[i] \in Accounts
  OBVIOUS
<1>2. /\ g \in Seq(Accounts) /\ Len(g) = (IF 1 <= n THEN n - 1 + 1 ELSE 0)
      /\ \A i \in 1..(n - 1 + 1) : g[i] = q[1 + i - 1]
  BY <1>1, SubSeqProperties
<1>3. /\ h \in Seq(Accounts)
      /\ Len(h) = (IF n + 1 <= Len(q) THEN Len(q) - (n + 1) + 1 ELSE 0)
      /\ \A i \in 1..(Len(q) - (n + 1) + 1) : h[i] = q[(n + 1) + i - 1]
  BY <1>1, SubSeqProperties
<1>4. Len(g) = n /\ \A i \in 1..n : g[i] = q[i]
  BY <1>1, <1>2
<1>5. Len(h) = Len(q) - n
  BY <1>1, <1>3
<1>6. \A i \in 1..(Len(q) - n) : i \in 1..(Len(q) - (n + 1) + 1) /\ (n + 1) + i - 1 = i+n
  BY <1>1
<1>7. QED  BY <1>2, <1>3, <1>4, <1>5, <1>6

(* The owners in a queue.                                                  *)
Owners(q) == {q[i] : i \in 1..Len(q)}
(* No owner is in a queue twice.                                           *)
Distinct(q) == \A i, j \in 1..Len(q) : q[i] = q[j] => i = j

(* An order that is closed leaves the queue.                               *)
LEMMA OwnerDequeued ==
  ASSUME NEW q \in Seq(Accounts), Distinct(q), NEW a \in Owners(q), NEW k, k = Dequeued(q, a)
  PROVE  k \in Seq(Accounts) /\ Distinct(k) /\ Owners(k) = Owners(q) \ {a}
<1> DEFINE n == CHOOSE i \in 1..Len(q) : q[i] = a
           g == SubSeq(q, 1, n - 1)
           h == SubSeq(q, n + 1, Len(q))
<1>1. Len(q) \in Nat /\ n \in 1..Len(q) /\ q[n] = a
  BY DEF Owners
<1>2. k = g \o h
  BY DEF Dequeued
<1> HIDE DEF n
<1>3. n \in Nat /\ n >= 1 /\ n <= Len(q) /\ n - 1 \in 0..Len(q) /\ n \in 0..Len(q)
  BY <1>1
<1>4. /\ g \in Seq(Accounts) /\ Len(g) = n - 1 /\ \A i \in 1..(n-1) : g[i] = q[i]
      /\ h \in Seq(Accounts) /\ Len(h) = Len(q) - n
      /\ \A i \in 1..(Len(q) - n) : h[i] = q[i+n]
  <2> HIDE DEF g, h
  <2>1. g = SubSeq(q, 1, n - 1) /\ h = SubSeq(q, n + 1, Len(q))
    BY DEF g, h
  <2>2. g \in Seq(Accounts) /\ Len(g) = n - 1 /\ \A i \in 1..(n-1) : g[i] = q[i]
    BY <1>3, <2>1, Pieces
  <2>3. /\ h \in Seq(Accounts) /\ Len(h) = Len(q) - n
        /\ \A i \in 1..(Len(q) - n) : h[i] = q[i+n]
    BY <1>3, <2>1, Pieces
  <2>4. QED  BY <2>2, <2>3
<1> HIDE DEF g, h
<1>5. /\ k \in Seq(Accounts) /\ Len(k) = Len(q) - 1
      /\ \A i \in 1..(Len(q) - 1) : k[i] = IF i <= n - 1 THEN q[i] ELSE q[i+1]
  <2>1. /\ k \in Seq(Accounts) /\ Len(k) = Len(g) + Len(h)
        /\ \A i \in 1..(Len(g) + Len(h)) : k[i] = IF i <= Len(g) THEN g[i] ELSE h[i - Len(g)]
    <3> DEFINE c == g \o h
    <3>1. /\ c \in Seq(Accounts) /\ Len(c) = Len(g) + Len(h)
          /\ \A i \in 1..(Len(g) + Len(h)) : c[i] = IF i <= Len(g) THEN g[i] ELSE h[i - Len(g)]
      BY <1>4, ConcatProperties
    <3> HIDE DEF c
    <3>2. k = c
      BY <1>2 DEF c
    <3>3. QED  BY <3>1, <3>2
  <2>2. Len(g) + Len(h) = Len(q) - 1
    BY <1>1, <1>3, <1>4
  <2>3. ASSUME NEW i \in 1..(Len(q) - 1) PROVE k[i] = IF i <= n - 1 THEN q[i] ELSE q[i+1]
    <3>1. CASE i <= n - 1
      BY <1>3, <1>4, <2>1, <2>2, <2>3, <3>1
    <3>2. CASE ~(i <= n - 1)
      <4>1. /\ i - (n - 1) \in 1..(Len(q) - n) /\ (i - (n - 1)) + n = i+1
        BY <1>1, <1>3, <2>3, <3>2
      <4>2. k[i] = h[i - (n - 1)]
        BY <1>4, <2>1, <2>2, <2>3, <3>2
      <4>3. QED  BY <1>4, <3>2, <4>1, <4>2
    <3>3. QED  BY <3>1, <3>2
  <2>4. QED  BY <2>1, <2>2, <2>3
<1> DEFINE At(i) == IF i <= n - 1 THEN i ELSE i+1
<1>6. \A i \in 1..Len(k) : /\ At(i) \in 1..Len(q) /\ At(i) # n /\ k[i] = q[At(i)]
                           /\ \A j \in 1..Len(k) : At(i) = At(j) => i = j
  BY <1>1, <1>3, <1>5
<1>7. Distinct(k)
  <2> HIDE DEF At
  <2>1. QED  BY <1>6 DEF Distinct
<1>8. Owners(k) = Owners(q) \ {a}
  <2>1. ASSUME NEW x \in Owners(k) PROVE x \in Owners(q) \ {a}
    <3>1. PICK i \in 1..Len(k) : x = k[i]
      BY DEF Owners
    <3> HIDE DEF At
    <3>2. x = q[At(i)] /\ At(i) \in 1..Len(q) /\ At(i) # n
      BY <1>6, <3>1
    <3>3. QED  BY <1>1, <3>2 DEF Owners, Distinct
  <2>2. ASSUME NEW x \in Owners(q) \ {a} PROVE x \in Owners(k)
    <3>1. PICK i \in 1..Len(q) : x = q[i]
      BY DEF Owners
    <3>2. i # n
      BY <1>1, <2>2, <3>1
    <3>3. CASE i < n
      <4>1. i \in 1..Len(k) /\ k[i] = q[i]
        BY <1>1, <1>3, <1>5, <3>1, <3>3
      <4>2. QED  BY <3>1, <4>1 DEF Owners
    <3>4. CASE ~(i < n)
      <4>1. i - 1 \in 1..Len(k) /\ k[i-1] = q[i]
        BY <1>1, <1>3, <1>5, <3>1, <3>2, <3>4
      <4>2. QED  BY <3>1, <4>1 DEF Owners
    <3>5. QED  BY <3>3, <3>4
  <2>3. QED  BY <2>1, <2>2
<1>9. QED  BY <1>5, <1>7, <1>8

(* An account that is in no queue joins one at any place.                  *)
Behind(q, n, a) == SubSeq(q, 1, n) \o <<a>> \o SubSeq(q, n + 1, Len(q))

(* ... which is how an order enters it: by its time, then by its owner.    *)
LEMMA OwnerQueued ==
  ASSUME NEW q \in Seq(Accounts), Distinct(q), NEW a \in Accounts, a \notin Owners(q),
         NEW n \in 0..Len(q), NEW k, k = Behind(q, n, a)
  PROVE  k \in Seq(Accounts) /\ Distinct(k) /\ Owners(k) = Owners(q) \cup {a}
<1> DEFINE g == SubSeq(q, 1, n)
           h == SubSeq(q, n + 1, Len(q))
           ga == g \o <<a>>
<1>1. Len(q) \in Nat /\ n \in Nat /\ n <= Len(q)
  OBVIOUS
<1>2. k = ga \o h
  BY DEF Behind
<1>3. /\ g \in Seq(Accounts) /\ Len(g) = n /\ \A i \in 1..n : g[i] = q[i]
      /\ h \in Seq(Accounts) /\ Len(h) = Len(q) - n
      /\ \A i \in 1..(Len(q) - n) : h[i] = q[i+n]
  <2>1. g = SubSeq(q, 1, n) /\ h = SubSeq(q, n + 1, Len(q))
    OBVIOUS
  <2> HIDE DEF g, h
  <2>2. QED  BY <2>1, Pieces
<1> HIDE DEF g, h
<1>4. /\ ga \in Seq(Accounts) /\ Len(ga) = n + 1 /\ ga[n+1] = a
      /\ \A i \in 1..n : ga[i] = q[i]
  <2>1. <<a>> \in Seq(Accounts) /\ Len(<<a>>) = 1 /\ <<a>>[1] = a
    OBVIOUS
  <2>2. /\ ga \in Seq(Accounts) /\ Len(ga) = Len(g) + Len(<<a>>)
        /\ \A i \in 1..(Len(g) + Len(<<a>>)) : ga[i] = IF i <= Len(g) THEN g[i] ELSE <<a>>[i - Len(g)]
    <3> DEFINE one == <<a>>
    <3>1. g \in Seq(Accounts) /\ one \in Seq(Accounts)
      BY <1>3
    <3> HIDE DEF one
    <3>2. /\ g \o one \in Seq(Accounts) /\ Len(g \o one) = Len(g) + Len(one)
          /\ \A i \in 1..(Len(g) + Len(one)) :
               (g \o one)[i] = IF i <= Len(g) THEN g[i] ELSE one[i - Len(g)]
      BY <3>1, ConcatProperties
    <3>3. QED  BY <3>2 DEF one
  <2>3. n + 1 \in 1..(n+1) /\ ~(n + 1 <= n) /\ (n + 1) - n = 1 /\ \A i \in 1..n : i \in 1..(n+1) /\ i <= n
    BY <1>1
  <2>4. QED  BY <1>3, <2>1, <2>2, <2>3
<1> HIDE DEF ga
<1>5. /\ k \in Seq(Accounts) /\ Len(k) = Len(q) + 1 /\ k[n+1] = a
      /\ \A i \in 1..n : k[i] = q[i]
      /\ \A i \in (n+2)..(Len(q) + 1) : k[i] = q[i-1]
  <2>1. /\ k \in Seq(Accounts) /\ Len(k) = Len(ga) + Len(h)
        /\ \A i \in 1..(Len(ga) + Len(h)) : k[i] = IF i <= Len(ga) THEN ga[i] ELSE h[i - Len(ga)]
    <3>1. ga \in Seq(Accounts) /\ h \in Seq(Accounts)
      BY <1>3, <1>4
    <3>2. /\ ga \o h \in Seq(Accounts) /\ Len(ga \o h) = Len(ga) + Len(h)
          /\ \A i \in 1..(Len(ga) + Len(h)) :
               (ga \o h)[i] = IF i <= Len(ga) THEN ga[i] ELSE h[i - Len(ga)]
      BY <3>1, ConcatProperties
    <3>3. QED  BY <1>2, <3>2, Zenon
  <2>2. Len(ga) + Len(h) = Len(q) + 1
    BY <1>1, <1>3, <1>4
  <2>3. \A i \in 1..(n+1) : k[i] = ga[i]
    BY <1>1, <1>4, <2>1, <2>2
  <2>4. ASSUME NEW i \in (n+2)..(Len(q) + 1) PROVE k[i] = q[i-1]
    <3>1. i \in 1..(Len(q) + 1) /\ ~(i <= n + 1)
      BY <1>1, <2>4
    <3>2. i - (n + 1) \in 1..(Len(q) - n) /\ (i - (n + 1)) + n = i-1
      BY <1>1, <2>4
    <3>3. k[i] = h[i - (n + 1)]
      BY <1>4, <2>1, <2>2, <3>1
    <3>4. QED  BY <1>3, <3>2, <3>3
  <2>5. n + 1 \in 1..(n+1) /\ \A i \in 1..n : i \in 1..(n+1)
    BY <1>1
  <2>6. QED  BY <1>4, <2>1, <2>2, <2>3, <2>4, <2>5
<1>6. \A i \in 1..Len(k) : \/ i = n + 1
                           \/ i \in 1..n /\ k[i] = q[i] /\ i \in 1..Len(q)
                           \/ i \in (n+2)..(Len(q) + 1) /\ k[i] = q[i-1] /\ i-1 \in 1..Len(q)
  BY <1>1, <1>5
<1>7. \A i \in 1..Len(q) : q[i] # a
  BY DEF Owners
<1> DEFINE At(i) == IF i <= n THEN i ELSE i-1
<1>8. \A i \in 1..Len(k) : i # n + 1 => /\ At(i) \in 1..Len(q) /\ k[i] = q[At(i)] /\ k[i] # a
                                        /\ \A j \in 1..Len(k) : j # n + 1 /\ At(i) = At(j) => i = j
  BY <1>1, <1>5, <1>6, <1>7
<1>9. Distinct(k)
  <2> HIDE DEF At
  <2>1. SUFFICES ASSUME NEW i \in 1..Len(k), NEW j \in 1..Len(k), k[i] = k[j] PROVE i = j
    BY DEF Distinct
  <2>2. CASE i = n + 1 \/ j = n + 1
    BY <1>5, <1>8, <2>1, <2>2
  <2>3. CASE i # n + 1 /\ j # n + 1
    <3>1. At(i) \in 1..Len(q) /\ At(j) \in 1..Len(q) /\ q[At(i)] = q[At(j)]
      BY <1>8, <2>1, <2>3
    <3>2. At(i) = At(j)
      BY <3>1 DEF Distinct
    <3>3. QED  BY <1>8, <2>3, <3>2
  <2>4. QED  BY <2>2, <2>3
<1>10. Owners(k) = Owners(q) \cup {a}
  <2>1. ASSUME NEW x \in Owners(k) PROVE x \in Owners(q) \cup {a}
    <3>1. PICK i \in 1..Len(k) : x = k[i]
      BY DEF Owners
    <3> HIDE DEF At
    <3>2. QED  BY <1>5, <1>8, <3>1 DEF Owners
  <2>2. a \in Owners(k)
    <3>1. n + 1 \in 1..Len(k)
      BY <1>1, <1>5
    <3>2. QED  BY <1>5, <3>1 DEF Owners
  <2>3. ASSUME NEW x \in Owners(q) PROVE x \in Owners(k)
    <3>1. PICK i \in 1..Len(q) : x = q[i]
      BY DEF Owners
    <3>2. CASE i <= n
      <4>1. i \in 1..Len(k) /\ k[i] = q[i]
        BY <1>1, <1>5, <3>2
      <4>2. QED  BY <3>1, <4>1 DEF Owners
    <3>3. CASE ~(i <= n)
      <4>1. i+1 \in (n+2)..(Len(q) + 1) /\ (i+1)-1 = i /\ i+1 \in 1..Len(k)
        BY <1>1, <1>5, <3>3
      <4>2. k[i+1] = q[i]
        BY <1>5, <4>1
      <4>3. QED  BY <3>1, <4>1, <4>2 DEF Owners
    <3>4. QED  BY <3>2, <3>3
  <2>4. QED  BY <2>1, <2>2, <2>3
<1>11. QED  BY <1>5, <1>9, <1>10

-----------------------------------------------------------------------------
(* What must hold of an account's shares whatever its order asks for.      *)
OwnBuckets(d, a) ==
  /\ d.rexbal[a].rex = d.rexbal[a].matured + Held(InBuckets(d, a))
  /\ InTime(InBuckets(d, a))
  /\ d.order[a].open => /\ a \in d.holders /\ d.order[a].requested > 0
                        /\ d.order[a].proceeds = 0
  /\ a \notin d.holders => d.rexbal[a] = NoShares

(* The order of a may ask for more than is matured, all else is sound.     *)
SoundBut(d, b, s, a) ==
  /\ d \in DbType /\ b \in Stakes /\ s \in Int
  /\ Books(d, s) /\ Totals(d)
  /\ \A x \in Accounts : IF x = a THEN OwnBuckets(d, x) ELSE OwnShares(d, x)
  /\ Queued(d) /\ LoansKept(d) /\ Rented(d, b)

(* Once it does not, all is sound again.                                   *)
LEMMA SoundAgain ==
  ASSUME NEW d, NEW b, NEW s, NEW a \in Accounts, SoundBut(d, b, s, a),
         InOrder(d, a) <= d.rexbal[a].matured
  PROVE  Sound(d, b, s)
<1>1. \A x \in Accounts : OwnShares(d, x)
  BY DEF SoundBut, OwnShares, OwnBuckets
<1>2. QED  BY <1>1 DEF SoundBut, Sound

(* What is left alone while orders are filled, and what only falls.        *)
Sold(d, e) ==
  /\ e.pool.open = d.pool.open /\ e.pool.lent = d.pool.lent /\ e.holders = d.holders
  /\ Worth(d, e) /\ (e.pool.rex > 0 => d.pool.rex > 0)
  /\ \A x \in Accounts : e.order[x].open => d.order[x].open

(* The value of a share does not fall in two steps either, when there are  *)
(* shares between them.                                                    *)
LEMMA WorthTwice ==
  ASSUME NEW d \in DbType, NEW e \in DbType, NEW f \in DbType, Worth(d, e), Worth(e, f),
         f.pool.rex > 0 => e.pool.rex > 0
  PROVE  Worth(d, f)
<1>1. PICK dl \in Nat, dr \in Nat, el \in Nat, er \in Nat, fl \in Nat, fr \in Nat :
        /\ dl = d.pool.lendable /\ dr = d.pool.rex /\ el = e.pool.lendable
        /\ er = e.pool.rex /\ fl = f.pool.lendable /\ fr = f.pool.rex
  BY DbFields
<1>2. SUFFICES ASSUME dr > 0, fr > 0 PROVE fl * dr >= dl * fr
  BY <1>1 DEF Worth
<1>3. er > 0 /\ el * dr >= dl * er /\ fl * er >= el * fr
  BY <1>1, <1>2 DEF Worth
<1>4. \A x \in Nat, y \in Nat, z \in Nat : x >= y => x * z >= y * z
  OBVIOUS
<1>5. (fl * er) * dr >= (el * fr) * dr /\ (el * dr) * fr >= (dl * er) * fr
  BY <1>3, <1>4
<1>6. (fl * dr) * er >= (dl * fr) * er
  <2>1. (fl * er) * dr = (fl * dr) * er /\ (el * fr) * dr = (el * dr) * fr
        /\ (dl * er) * fr = (dl * fr) * er
    OBVIOUS
  <2> DEFINE p == (fl * er) * dr
             q == (el * fr) * dr
             r == (dl * er) * fr
  <2>2. p \in Nat /\ q \in Nat /\ r \in Nat /\ p >= q /\ q >= r
    BY <1>5, <2>1
  <2>3. p >= r
    <3> HIDE DEF p, q, r
    <3>1. QED  BY <2>2
  <2>4. QED  BY <2>1, <2>3
<1>7. \A x \in Nat, y \in Nat, z \in Nat : z > 0 /\ x * z >= y * z => x >= y
  <2>1. ASSUME NEW x \in Nat, NEW y \in Nat, NEW z \in Nat, z > 0, x < y PROVE x * z < y * z
    <3>1. y - x \in Nat \ {0} /\ y = x + (y - x)
      BY <2>1
    <3>2. PICK k \in Nat \ {0} : y = x + k
      BY <3>1
    <3>3. y * z = x * z + k * z /\ k * z > 0 /\ x * z \in Nat /\ k * z \in Nat
      BY <2>1, <3>2
    <3>4. QED  BY <3>3
  <2>2. QED  BY <2>1
<1>8. QED
  <2> DEFINE p == fl * dr
             q == dl * fr
  <2>1. p \in Nat /\ q \in Nat /\ p * er >= q * er
    BY <1>6
  <2>2. p >= q
    <3> HIDE DEF p, q
    <3>1. QED  BY <1>3, <1>7, <2>1
  <2>3. QED  BY <2>2

(* Two orders tried.                                                       *)
LEMMA SoldTwice ==
  ASSUME NEW d \in DbType, NEW e \in DbType, NEW f \in DbType, Sold(d, e), Sold(e, f)
  PROVE  Sold(d, f)
<1>1. Worth(d, f)
  BY WorthTwice DEF Sold
<1>2. QED  BY <1>1 DEF Sold

(* The arithmetic of a sale: x of r shares are paid p of l tokens.         *)
LEMMA SaleArithmetic ==
  ASSUME NEW x \in Nat \ {0}, NEW r \in Nat, x <= r, NEW l \in Nat, l > 0,
         NEW p, p = (x * l) \div r
  PROVE  /\ p \in Nat /\ p <= l
         /\ (r - x = 0) = (l - p = 0)
         /\ (l - p) * r >= l * (r - x)
<1>1. r \in Nat \ {0} /\ x * l \in Nat /\ x * l <= r * l
  <2>1. PICK y \in Nat : r = x + y
    <3>1. r - x \in Nat /\ r = x + (r - x)
      OBVIOUS
    <3>2. QED  BY <3>1
  <2>2. r * l = x * l + y * l /\ x * l \in Nat /\ y * l \in Nat
    BY <2>1
  <2>3. QED  BY <2>2
<1>2. p \in Nat /\ r * p <= x * l /\ \A z \in Nat : z * r <= x * l => z <= p
  BY <1>1, Quotient
<1>3. \A y \in Nat, z \in Nat : r * y <= r * z => y <= z
  <2>1. ASSUME NEW y \in Nat, NEW z \in Nat, y > z PROVE r * y > r * z
    <3>1. y - z \in Nat \ {0} /\ y = z + (y - z)
      BY <2>1
    <3>2. PICK k \in Nat \ {0} : y = z + k
      BY <3>1
    <3>3. r * y = r * z + r * k /\ r * k > 0 /\ r * z \in Nat /\ r * k \in Nat
      BY <1>1, <3>2
    <3>4. QED  BY <3>3
  <2>2. QED  BY <2>1
<1>4. p <= l
  <2>1. r * p \in Nat /\ r * l \in Nat /\ x * l \in Nat
    BY <1>1, <1>2
  <2>2. r * p <= r * l
    BY <1>1, <1>2, <2>1
  <2>3. QED  BY <1>2, <1>3, <2>2
<1>5. CASE x = r
  <2>1. l * r <= x * l
    BY <1>5
  <2>2. p = l
    BY <1>2, <1>4, <2>1
  <2>3. r - x = 0 /\ l - p = 0
    BY <1>5, <2>2
  <2>4. QED  BY <1>2, <1>4, <2>3
<1>6. CASE x # r
  <2>1. PICK y \in Nat \ {0} : r = x + y
    <3>1. r - x \in Nat \ {0} /\ r = x + (r - x)
      BY <1>6
    <3>2. QED  BY <3>1
  <2>2. r - x = y
    BY <2>1
  <2>3. r * l = x * l + y * l /\ y * l > 0 /\ y * l \in Nat /\ x * l \in Nat
    BY <2>1
  <2>4. PICK k \in Nat : l = p + k
    <3>1. l - p \in Nat /\ l = p + (l - p)
      BY <1>2, <1>4
    <3>2. QED  BY <3>1
  <2>5. l - p = k
    BY <1>2, <2>4
  <2>6. r * l = r * p + k * r /\ r * p \in Nat /\ k * r \in Nat
    <3>1. \A u \in Nat, v \in Nat, z \in Nat :
            /\ z * (u + v) = z * u + v * z /\ z * u \in Nat /\ v * z \in Nat
      OBVIOUS
    <3>2. QED  BY <1>2, <2>4, <3>1
  <2>7. k * r >= y * l
    BY <1>2, <2>3, <2>6
  <2>8. y * l = l * y
    OBVIOUS
  <2>9. k # 0
    BY <2>3, <2>7
  <2>10. QED  BY <1>2, <1>4, <2>2, <2>5, <2>7, <2>8, <2>9
<1>7. QED  BY <1>5, <1>6

-----------------------------------------------------------------------------
(* fill_rex_order takes the shares from the pool and the account, with     *)
(* proceeds that are in nobody's books until the order or the fund has     *)
(* them. Its order still asks for them.                                    *)
LEMMA FilledSound ==
  ASSUME NEW d, NEW b, NEW s, Sound(d, b, s), NEW a \in Accounts, a \in d.holders,
         NEW x \in Nat \ {0}, x <= d.rexbal[a].matured, CanFill(d, x),
         NEW e, e = Filled(d, a, x), NEW p, p = Proceeds(d, x)
  PROVE  /\ p \in Nat /\ SoundBut(e, b, s + p, a) /\ Sold(d, e)
         /\ e.order = d.order /\ e.queue = d.queue
         /\ e.rexbal[a].matured = d.rexbal[a].matured - x
<1> DEFINE S1 == d.pool.lendable - p
           u == S1 - d.pool.lent
           v == d.pool.rex - x
           y == d.rexbal[a].rex - x
           z == d.rexbal[a].matured - x
           q == [d.pool EXCEPT !.rex = v, !.lendable = S1, !.unlent = u]
           h == [d.rexbal[a] EXCEPT !.rex = y, !.matured = z]
           R == [d.rexbal EXCEPT ![a] = h]
<1>1. /\ d \in DbType /\ b \in Stakes /\ s \in Int /\ d.pool \in PoolType
      /\ d.pool.lent \in Nat /\ d.pool.unlent \in Nat /\ d.pool.lendable \in Nat
      /\ d.pool.rex \in Nat /\ d.rexbal \in [Accounts -> SharesType]
      /\ d.rexbal[a] \in SharesType /\ d.rexbal[a].rex \in Nat /\ d.rexbal[a].matured \in Nat
      /\ Held(InBuckets(d, a)) \in Nat
  BY DbFields, ShareFields DEF Sound
<1>2. /\ d.rexbal[a].rex = d.rexbal[a].matured + Held(InBuckets(d, a))
      /\ InTime(InBuckets(d, a))
      /\ d.order[a].open => /\ a \in d.holders /\ d.order[a].requested > 0
                            /\ d.order[a].proceeds = 0
  BY DEF Sound, OwnShares
<1>3. /\ d.pool.lendable = d.pool.unlent + d.pool.lent /\ d.pool.lent = LoansLent(d.loans)
      /\ d.pool.rex = AllShares(d.rexbal) /\ (d.pool.rex = 0) = (d.pool.lendable = 0)
      /\ ~d.pool.open => d.pool.rex = 0
  BY DEF Sound, Totals
<1>4. x <= d.rexbal[a].rex /\ x <= d.pool.rex /\ d.pool.rex > 0 /\ d.pool.lendable > 0
  <2>1. d.rexbal[a].rex <= AllShares(d.rexbal) /\ AllShares(d.rexbal) \in Nat
    BY <1>1, ShareSums
  <2>2. x <= d.rexbal[a].rex
    BY <1>1, <1>2
  <2>3. QED  BY <1>1, <1>3, <2>1, <2>2
<1>5. /\ p \in Nat /\ p <= d.pool.lendable /\ (v = 0) = (S1 = 0)
      /\ S1 * d.pool.rex >= d.pool.lendable * v
  <2>1. p = (x * d.pool.lendable) \div d.pool.rex
    BY DEF Proceeds
  <2>2. QED  BY <1>1, <1>4, <2>1, SaleArithmetic
<1>6. p <= d.pool.unlent - d.pool.lent \div ReserveShare
  BY DEF CanFill
<1>7. S1 \in Nat /\ u \in Nat /\ v \in Nat /\ y \in Nat /\ z \in Nat /\ S1 = u + d.pool.lent
  <2>1. d.pool.lent \div ReserveShare \in Nat
    BY <1>1, RexConstants, Quotient
  <2>2. p <= d.pool.unlent
    BY <1>1, <1>5, <1>6, <2>1
  <2>3. QED  BY <1>1, <1>3, <1>4, <1>5, <2>2
<1>8. e = [d EXCEPT !.pool = q, !.rexbal = R]
  <2> DEFINE c1 == [d EXCEPT !.pool.rex = @ - x, !.pool.lendable = S1, !.pool.unlent = u]
             c2 == [c1 EXCEPT !.rexbal[a].rex = @ - x]
             g == [d.rexbal[a] EXCEPT !.rex = y]
  <2>1. e = [c2 EXCEPT !.rexbal[a].matured = @ - x]
    <3> DEFINE T == d.pool.lendable - Proceeds(d, x)
    <3>1. T = S1
      OBVIOUS
    <3>2. e = [d EXCEPT !.pool.rex = @ - x, !.pool.lendable = T, !.pool.unlent = T - d.pool.lent,
                        !.rexbal[a].rex = @ - x, !.rexbal[a].matured = @ - x]
      BY DEF Filled
    <3> HIDE DEF T, S1
    <3>3. e = [d EXCEPT !.pool.rex = @ - x, !.pool.lendable = S1, !.pool.unlent = S1 - d.pool.lent,
                        !.rexbal[a].rex = @ - x, !.rexbal[a].matured = @ - x]
      BY <3>1, <3>2
    <3>4. QED
      <4> HIDE DEF y
      <4>1. u = S1 - d.pool.lent
        OBVIOUS
      <4> HIDE DEF u
      <4>2. e = [d EXCEPT !.pool.rex = @ - x, !.pool.lendable = S1, !.pool.unlent = u,
                          !.rexbal[a].rex = @ - x, !.rexbal[a].matured = @ - x]
        BY <3>3, <4>1
      <4>3. QED  BY <1>1, <4>2, SMTT(60) DEF DbType
  <2>2. c1 = [d EXCEPT !.pool = q]
    <3>1. c1 = [d EXCEPT !.pool.rex = v, !.pool.lendable = S1, !.pool.unlent = u]
      OBVIOUS
    <3> HIDE DEF S1, u, v, c1
    <3>2. QED  BY <1>1, <3>1 DEF DbType, PoolType
  <2> HIDE DEF c1, q, S1, u, v
  <2>3. c1.rexbal = d.rexbal
    BY <1>1, <2>2 DEF DbType
  <2>4. c2 = [c1 EXCEPT !.rexbal = [d.rexbal EXCEPT ![a] = g]]
    BY <2>3
  <2> HIDE DEF c2
  <2>5. c2 = [d EXCEPT !.pool = q, !.rexbal = [d.rexbal EXCEPT ![a] = g]]
    <3> DEFINE G == [d.rexbal EXCEPT ![a] = g]
    <3> HIDE DEF G, g
    <3>1. c2 = [c1 EXCEPT !.rexbal = G]
      BY <2>4 DEF G
    <3>2. c2 = [d EXCEPT !.pool = q, !.rexbal = G]
      BY <1>1, <2>2, <3>1 DEF DbType
    <3>3. QED  BY <3>2 DEF G
  <2>6. c2.rexbal = [d.rexbal EXCEPT ![a] = g]
    <3> DEFINE G == [d.rexbal EXCEPT ![a] = g]
    <3> HIDE DEF G, g
    <3>1. c2 = [d EXCEPT !.pool = q, !.rexbal = G]
      BY <2>5 DEF G
    <3>2. c2.rexbal = G
      BY <1>1, <3>1 DEF DbType
    <3>3. QED  BY <3>2 DEF G
  <2>7. c2.rexbal[a].matured = d.rexbal[a].matured
    <3> HIDE DEF y
    <3>1. QED  BY <1>1, <2>6 DEF SharesType
  <2>8. e = [c2 EXCEPT !.rexbal[a].matured = z]
    BY <2>1, <2>7
  <2>9. [c2.rexbal EXCEPT ![a].matured = z] = R
    <3> HIDE DEF y, z
    <3>1. QED  BY <1>1, <2>6 DEF SharesType
  <2>10. e = [c2 EXCEPT !.rexbal = R]
    BY <2>8, <2>9
  <2> DEFINE G == [d.rexbal EXCEPT ![a] = g]
  <2>11. c2 = [d EXCEPT !.pool = q, !.rexbal = G]
    BY <2>5
  <2> HIDE DEF G, R, g
  <2>12. QED  BY <1>1, <2>10, <2>11 DEF DbType
<1>9. /\ q \in PoolType /\ q.rex = v /\ q.lendable = S1 /\ q.unlent = u /\ q.lent = d.pool.lent
      /\ q.open = d.pool.open /\ q.namebid = d.pool.namebid /\ q.loan_num = d.pool.loan_num
  <2> HIDE DEF S1, u, v
  <2>1. QED  BY <1>1, <1>7 DEF PoolType
<1>10. /\ h \in SharesType /\ h.rex = y /\ h.matured = z /\ h.maturities = InBuckets(d, a)
  <2> HIDE DEF y, z
  <2>1. QED  BY <1>1, <1>7 DEF SharesType, InBuckets
<1>11. R \in [Accounts -> SharesType] /\ R[a] = h /\ \A w \in Accounts : w # a => R[w] = d.rexbal[w]
  <2> HIDE DEF h, SharesType
  <2>1. QED  BY <1>1, <1>10
<1> HIDE DEF q, R, h
<1>12. /\ e \in DbType /\ e.pool = q /\ e.rexbal = R /\ e.held = d.held /\ e.outside = d.outside
       /\ e.fund = d.fund /\ e.funded = d.funded /\ e.holders = d.holders
       /\ e.order = d.order /\ e.queue = d.queue /\ e.loans = d.loans /\ e.weight = d.weight
  BY <1>1, <1>8, <1>9, <1>11 DEF DbType
<1>13. InBuckets(e, a) = InBuckets(d, a)
  BY <1>10, <1>11, <1>12 DEF InBuckets
<1> HIDE DEF u, v, y, z, S1
<1>14. Books(e, s + p)
  <2>1. Books(d, s)
    BY DEF Sound
  <2>2. PICK f \in Int, g \in Int, o \in Int :
          /\ f = AccountTotal(d.fund, N) /\ g = LoanBalances(d.loans) /\ o = AllProceeds(d.order)
    BY <1>1, MoneySums
  <2>3. d.held = f + g + d.pool.lendable + o + s
    BY <2>1, <2>2 DEF Books
  <2>4. d.held = f + g + S1 + o + (s + p)
    BY <1>1, <1>5, <2>3 DEF S1
  <2>5. e.held = AccountTotal(e.fund, N) + LoanBalances(e.loans) + e.pool.lendable
                 + AllProceeds(e.order) + (s + p)
    BY <1>9, <1>12, <2>2, <2>4
  <2>6. QED  BY <1>9, <1>12, <2>1, <2>5 DEF Books
<1>15. Totals(e)
  <2>1. AllShares(R) = AllShares(d.rexbal) - d.rexbal[a].rex + R[a].rex
    BY <1>1, <1>11, SharesChange
  <2>2. AllShares(R) = v
    BY <1>1, <1>3, <1>10, <1>11, <2>1 DEF v, y
  <2>3. ~d.pool.open => v = 0
    BY <1>1, <1>3, <1>4
  <2>4. QED  BY <1>3, <1>5, <1>7, <1>9, <1>12, <2>2, <2>3 DEF Totals
<1>16. ASSUME NEW w \in Accounts PROVE IF w = a THEN OwnBuckets(e, w) ELSE OwnShares(e, w)
  <2>1. CASE w = a
    <3>1. e.rexbal[a].rex = e.rexbal[a].matured + Held(InBuckets(e, a))
      BY <1>1, <1>2, <1>10, <1>11, <1>12, <1>13 DEF y, z
    <3>2. QED  BY <1>2, <1>12, <1>13, <2>1, <3>1 DEF OwnBuckets
  <2>2. CASE w # a
    <3>1. OwnShares(d, w)
      BY DEF Sound
    <3>2. e.rexbal[w] = d.rexbal[w]
      BY <1>11, <1>12, <2>2
    <3>3. QED  BY <1>12, <2>2, <3>1, <3>2 DEF OwnShares, InOrder, InBuckets
  <2>3. QED  BY <2>1, <2>2
<1>17. Queued(e) /\ LoansKept(e) /\ Rented(e, b)
  BY <1>9, <1>12 DEF Sound, Queued, LoansKept, Rented
<1>18. s + p \in Int
  BY <1>1, <1>5
<1>19. SoundBut(e, b, s + p, a)
  BY <1>1, <1>12, <1>14, <1>15, <1>16, <1>17, <1>18 DEF SoundBut
<1>20. Sold(d, e)
  <2>1. Worth(d, e)
    BY <1>5, <1>9, <1>12 DEF Worth
  <2>2. QED  BY <1>4, <1>9, <1>12, <2>1 DEF Sold
<1>21. QED  BY <1>5, <1>10, <1>11, <1>12, <1>19, <1>20 DEF z

(* An order is closed and leaves the queue.                                *)
OrderClosed(d, a, o) == [d EXCEPT !.order[a] = o, !.queue = Dequeued(@, a)]

(* ... with its proceeds.                                                  *)
LEMMA OrderClosedSound ==
  ASSUME NEW d, NEW b, NEW s, NEW a \in Accounts, SoundBut(d, b, s, a), d.order[a].open,
         NEW o \in OrderType, ~o.open, NEW e, e = OrderClosed(d, a, o)
  PROVE  /\ Sound(e, b, s - o.proceeds) /\ e.pool = d.pool /\ e.holders = d.holders
         /\ ~e.order[a].open /\ \A x \in Accounts : x # a => e.order[x] = d.order[x]
<1> DEFINE O == [d.order EXCEPT ![a] = o]
           k == Dequeued(d.queue, a)
<1>1. /\ d \in DbType /\ b \in Stakes /\ s \in Int /\ d.order \in [Accounts -> OrderType]
      /\ d.queue \in Seq(Accounts) /\ o.proceeds \in Nat /\ Queued(d)
      /\ d.rexbal[a].matured \in Nat
  BY DbFields, ShareFields DEF SoundBut, OrderType
<1>2. k \in Seq(Accounts) /\ Distinct(k) /\ Owners(k) = Owners(d.queue) \ {a}
  <2>1. Distinct(d.queue) /\ a \in Owners(d.queue)
    BY <1>1 DEF Queued, Distinct, Owners
  <2> HIDE DEF k
  <2>2. k = Dequeued(d.queue, a)
    BY DEF k
  <2>3. QED  BY <1>1, <2>1, <2>2, OwnerDequeued
<1>3. /\ O \in [Accounts -> OrderType] /\ O[a] = o
      /\ \A x \in Accounts : x # a => O[x] = d.order[x]
  <2> HIDE DEF OrderType
  <2>1. QED  BY <1>1
<1>4. e = [d EXCEPT !.order = O, !.queue = k]
  BY <1>1 DEF OrderClosed, DbType
<1> HIDE DEF O, k
<1>5. /\ e \in DbType /\ e.order = O /\ e.queue = k /\ e.pool = d.pool /\ e.rexbal = d.rexbal
      /\ e.held = d.held /\ e.outside = d.outside /\ e.fund = d.fund /\ e.funded = d.funded
      /\ e.holders = d.holders /\ e.loans = d.loans /\ e.weight = d.weight
  BY <1>1, <1>2, <1>3, <1>4 DEF DbType
<1>6. Books(e, s - o.proceeds)
  <2>1. Books(d, s)
    BY DEF SoundBut
  <2>2. PICK f \in Int, g \in Int, p \in Int, l \in Int, y \in Int :
          /\ f = AccountTotal(d.fund, N) /\ g = LoanBalances(d.loans) /\ p = AllProceeds(d.order)
          /\ l = d.pool.lendable /\ y = o.proceeds
    <3>1. /\ AccountTotal(d.fund, N) \in Int /\ LoanBalances(d.loans) \in Int
          /\ AllProceeds(d.order) \in Int
      BY <1>1, MoneySums
    <3>2. d.pool.lendable \in Int
      BY <1>1, DbFields
    <3>3. o.proceeds \in Int
      BY <1>1
    <3>4. QED  BY <3>1, <3>2, <3>3
  <2>3. d.held = f + g + l + p + s
    BY <2>1, <2>2 DEF Books
  <2>4. d.order[a].proceeds = 0
    BY DEF SoundBut, OwnBuckets
  <2>5. AllProceeds(O) = p + y
    <3>1. AllProceeds(O) = AllProceeds(d.order) - d.order[a].proceeds + O[a].proceeds
      BY <1>1, <1>3, ProceedsChange
    <3>2. QED  BY <1>3, <2>2, <2>4, <3>1
  <2>6. d.held = f + g + l + (p + y) + (s - y)
    BY <1>1, <2>3
  <2>7. e.held = AccountTotal(e.fund, N) + LoanBalances(e.loans) + e.pool.lendable
                 + AllProceeds(e.order) + (s - o.proceeds)
    BY <1>5, <2>2, <2>5, <2>6
  <2>8. QED  BY <1>5, <2>1, <2>7 DEF Books
<1>7. \A x \in Accounts : OwnShares(e, x)
  <2>1. ASSUME NEW x \in Accounts PROVE OwnShares(e, x)
    <3>1. CASE x = a
      <4>1. OwnBuckets(d, a)
        BY DEF SoundBut
      <4>2. InOrder(e, a) <= e.rexbal[a].matured
        BY <1>1, <1>3, <1>5 DEF InOrder
      <4>3. QED  BY <1>3, <1>5, <3>1, <4>1, <4>2 DEF OwnShares, OwnBuckets, InBuckets
    <3>2. CASE x # a
      <4>1. OwnShares(d, x)
        BY <3>2 DEF SoundBut
      <4>2. QED  BY <1>3, <1>5, <3>2, <4>1 DEF OwnShares, InOrder, InBuckets
    <3>3. QED  BY <3>1, <3>2
  <2>2. QED  BY <2>1
<1>8. Queued(e)
  <2>1. {x \in Accounts : e.order[x].open} = {x \in Accounts : d.order[x].open} \ {a}
    BY <1>3, <1>5
  <2>2. Owners(d.queue) = {x \in Accounts : d.order[x].open}
    BY <1>1 DEF Queued, Owners
  <2>3. Owners(e.queue) = {x \in Accounts : e.order[x].open} /\ Distinct(e.queue)
    BY <1>2, <1>5, <2>1, <2>2
  <2>4. QED  BY <2>3 DEF Queued, Owners, Distinct
<1>9. Totals(e) /\ LoansKept(e) /\ Rented(e, b)
  BY <1>5 DEF SoundBut, Totals, LoansKept, Rented
<1>10. s - o.proceeds \in Int
  BY <1>1
<1>11. QED  BY <1>1, <1>3, <1>5, <1>6, <1>7, <1>8, <1>9, <1>10 DEF Sound

-----------------------------------------------------------------------------
(* The order of a is filled if the pool has enough unlent, and waits       *)
(* otherwise.                                                              *)
LEMMA OrderTriedSound ==
  ASSUME NEW d, NEW b, NEW s, Sound(d, b, s), NEW a \in Accounts, d.order[a].open,
         NEW e, e = OrderTried(d, a)
  PROVE  /\ Sound(e, b, s) /\ Sold(d, e)
         /\ \A y \in Accounts : y # a => e.order[y] = d.order[y]
<1> DEFINE x == d.order[a].requested
<1>1. /\ d \in DbType /\ s \in Int /\ x \in Nat \ {0} /\ a \in d.holders
      /\ x <= d.rexbal[a].matured
  <2>1. d \in DbType /\ s \in Int /\ OwnShares(d, a)
    BY DEF Sound
  <2>2. x \in Nat /\ x > 0 /\ a \in d.holders
    BY <2>1, DbFields DEF OwnShares
  <2>3. x <= d.rexbal[a].matured
    BY <2>1 DEF OwnShares, InOrder
  <2>4. QED  BY <2>1, <2>2, <2>3
<1>2. CASE ~CanFill(d, x)
  <2>1. e = d
    BY <1>2 DEF OrderTried
  <2>2. Worth(d, d)
    <3>1. \A y \in Nat, z \in Nat : y * z >= y * z
      OBVIOUS
    <3>2. d.pool.lendable \in Nat /\ d.pool.rex \in Nat
      BY <1>1, DbFields
    <3>3. QED  BY <3>1, <3>2 DEF Worth
  <2>3. Sold(d, d)
    BY <2>2 DEF Sold
  <2>4. QED  BY <2>1, <2>3
<1>3. CASE CanFill(d, x)
  <2> DEFINE p == Proceeds(d, x)
             c == Filled(d, a, x)
             o == [open |-> FALSE, requested |-> x, proceeds |-> p]
  <2>1. e = OrderClosed(c, a, o)
    BY <1>3 DEF OrderTried, OrderClosed
  <2>2. p = Proceeds(d, x) /\ c = Filled(d, a, x)
    OBVIOUS
  <2> HIDE DEF x, c, p
  <2>3. /\ p \in Nat /\ SoundBut(c, b, s + p, a) /\ Sold(d, c) /\ c.order = d.order
    BY <1>1, <1>3, <2>2, FilledSound
  <2>4. o \in OrderType /\ ~o.open /\ o.proceeds = p /\ c.order[a].open
    BY <1>1, <2>3 DEF OrderType
  <2> HIDE DEF o
  <2>5. /\ Sound(e, b, (s + p) - o.proceeds) /\ e.pool = c.pool /\ e.holders = c.holders
        /\ ~e.order[a].open /\ \A y \in Accounts : y # a => e.order[y] = c.order[y]
    BY <2>1, <2>3, <2>4, OrderClosedSound
  <2>6. (s + p) - o.proceeds = s
    BY <1>1, <2>3, <2>4
  <2>7. Sold(d, e)
    BY <2>3, <2>5 DEF Sold, Worth
  <2>8. QED  BY <2>3, <2>5, <2>6, <2>7
<1>4. QED  BY <1>2, <1>3

(* The queue's i-th order is tried, if there is one.                       *)
TriedAt(d, c, i) == IF i > Len(d.queue) THEN c ELSE OrderTried(c, d.queue[i])

(* OrdersTried is what its defining equation says it is.                   *)
LEMMA OrdersTriedDef ==
  ASSUME NEW d, NEW max \in Nat
  PROVE  \E t : /\ t[0] = d
                /\ \A i \in 1..max : t[i] = TriedAt(d, t[i-1], i)
                /\ OrdersTried(d, max) = t[max]
<1> DEFINE Solves(t, m) == t = [i \in 0..m |-> IF i = 0 THEN d ELSE TriedAt(d, t[i-1], i)]
           Solvable == {m \in 0..max : \E t : Solves(t, m)}
<1>1. 0 \in Solvable
  <2>1. Solves([i \in 0..0 |-> d], 0)
    OBVIOUS
  <2>2. QED
    <3> HIDE DEF Solves
    <3>1. QED  BY <2>1
<1>2. ASSUME NEW m \in 1..max, m-1 \in Solvable
      PROVE  m \in Solvable
  <2>1. PICK t : Solves(t, m-1)
    BY <1>2
  <2> DEFINE u == [i \in 0..m |-> IF i = m THEN TriedAt(d, t[m-1], m) ELSE t[i]]
  <2>2. \A i \in 0..m : u[i] = IF i = 0 THEN d ELSE TriedAt(d, u[i-1], i)
    <3>1. ASSUME NEW i \in 0..m PROVE u[i] = IF i = 0 THEN d ELSE TriedAt(d, u[i-1], i)
      <4>1. CASE i = m
        <5>1. u[i] = TriedAt(d, t[m-1], m) /\ u[i-1] = t[m-1] /\ i # 0
          BY <4>1
        <5>2. QED  BY <4>1, <5>1
      <4>2. CASE i # m
        <5>1. i \in 0..(m-1) /\ u[i] = t[i]
          BY <4>2
        <5>2. t[i] = IF i = 0 THEN d ELSE TriedAt(d, t[i-1], i)
          BY <2>1, <5>1
        <5>3. i # 0 => u[i-1] = t[i-1]
          BY <5>1
        <5>4. QED  BY <5>1, <5>2, <5>3
      <4>3. QED  BY <4>1, <4>2
    <3>2. QED  BY <3>1
  <2>3. u = [i \in 0..m |-> IF i = 0 THEN d ELSE TriedAt(d, u[i-1], i)]
    BY <2>2
  <2>4. Solves(u, m)
    BY <2>3
  <2>5. QED
    <3> HIDE DEF Solves, u
    <3>1. QED  BY <2>4
<1>3. max \in Solvable
  <2>1. \A i \in 0..max : i \in Solvable
    <3> HIDE DEF Solvable
    <3>1. QED  BY <1>1, <1>2, SegmentInduction
  <2>2. max \in 0..max
    OBVIOUS
  <2>3. QED
    <3> HIDE DEF Solvable
    <3>1. QED  BY <2>1, <2>2
<1> DEFINE upTo == CHOOSE t : t = [i \in 0..max |-> IF i = 0 THEN d ELSE TriedAt(d, t[i-1], i)]
<1>4. upTo = [i \in 0..max |-> IF i = 0 THEN d ELSE TriedAt(d, upTo[i-1], i)]
  <2>1. \E t : t = [i \in 0..max |-> IF i = 0 THEN d ELSE TriedAt(d, t[i-1], i)]
    BY <1>3
  <2>2. QED  BY <2>1
<1>5. OrdersTried(d, max) = upTo[max]
  BY Zenon DEF OrdersTried, TriedAt
<1>6. upTo[0] = d /\ \A i \in 1..max : upTo[i] = TriedAt(d, upTo[i-1], i)
  <2> HIDE DEF upTo
  <2>1. QED  BY <1>4
<1>7. QED
  <2> HIDE DEF upTo
  <2>1. QED  BY <1>5, <1>6

(* The orders runrex tries, one after the other: the first ones of the     *)
(* queue it began with.                                                    *)
LEMMA OrdersTriedSound ==
  ASSUME NEW d, NEW b, NEW s, Sound(d, b, s), NEW max \in Nat, NEW e, e = OrdersTried(d, max)
  PROVE  Sound(e, b, s) /\ Sold(d, e)
<1>1. PICK t : /\ t[0] = d
               /\ \A i \in 1..max : t[i] = TriedAt(d, t[i-1], i)
               /\ OrdersTried(d, max) = t[max]
  BY OrdersTriedDef
<1>2. d \in DbType /\ d.queue \in Seq(Accounts) /\ Queued(d) /\ Len(d.queue) \in Nat
  BY DbFields DEF Sound
<1> DEFINE Good == {i \in 0..max :
             /\ Sound(t[i], b, s) /\ Sold(d, t[i])
             /\ \A j \in 1..Len(d.queue) : j > i => t[i].order[d.queue[j]] = d.order[d.queue[j]]}
<1>3. 0 \in Good
  <2>1. Worth(d, d)
    <3>1. \A y \in Nat, z \in Nat : y * z >= y * z
      OBVIOUS
    <3>2. d.pool.lendable \in Nat /\ d.pool.rex \in Nat
      BY <1>2, DbFields
    <3>3. QED  BY <3>1, <3>2 DEF Worth
  <2>2. Sold(d, d)
    BY <2>1 DEF Sold
  <2>3. QED  BY <1>1, <2>2
<1>4. ASSUME NEW i \in 1..max, i-1 \in Good PROVE i \in Good
  <2> DEFINE c == t[i-1]
  <2>1. /\ Sound(c, b, s) /\ Sold(d, c)
        /\ \A j \in 1..Len(d.queue) : j > i-1 => c.order[d.queue[j]] = d.order[d.queue[j]]
        /\ i \in 0..max
    BY <1>4
  <2>2. t[i] = TriedAt(d, c, i)
    BY <1>1
  <2> HIDE DEF c
  <2>3. CASE i > Len(d.queue)
    <3>1. t[i] = c
      BY <2>2, <2>3 DEF TriedAt
    <3>2. \A j \in 1..Len(d.queue) : j > i => j > i-1
      BY <1>2
    <3>3. QED  BY <2>1, <3>1, <3>2
  <2>4. CASE ~(i > Len(d.queue))
    <3> DEFINE a == d.queue[i]
    <3>1. i \in 1..Len(d.queue) /\ a \in Accounts /\ d.order[a].open
      BY <1>2, <2>4 DEF Queued
    <3>2. c.order[a] = d.order[a]
      BY <2>1, <3>1
    <3>3. t[i] = OrderTried(c, a)
      BY <2>2, <2>4 DEF TriedAt
    <3>4. /\ Sound(t[i], b, s) /\ Sold(c, t[i])
          /\ \A y \in Accounts : y # a => t[i].order[y] = c.order[y]
      <4> HIDE DEF a
      <4>1. QED  BY <2>1, <3>1, <3>2, <3>3, OrderTriedSound
    <3>5. c \in DbType /\ t[i] \in DbType
      BY <2>1, <3>4 DEF Sound
    <3>6. Sold(d, t[i])
      BY <1>2, <2>1, <3>4, <3>5, SoldTwice
    <3>7. ASSUME NEW j \in 1..Len(d.queue), j > i PROVE t[i].order[d.queue[j]] = d.order[d.queue[j]]
      <4>1. d.queue[j] # a /\ d.queue[j] \in Accounts /\ j > i-1
        BY <1>2, <3>1, <3>7 DEF Queued
      <4>2. QED  BY <2>1, <3>4, <4>1
    <3>8. QED  BY <2>1, <3>4, <3>6, <3>7
  <2>5. QED  BY <2>3, <2>4
<1>5. \A i \in 0..max : i \in Good
  <2> HIDE DEF Good
  <2>1. QED  BY <1>3, <1>4, SegmentInduction
<1>6. max \in Good
  <2> HIDE DEF Good
  <2>1. QED  BY <1>5
<1>7. QED  BY <1>1, <1>6

(* What runrex may do: it opens no order and devalues no share, and while  *)
(* an order waits it lends no more.                                        *)
Ran(d, e) ==
  /\ e.pool.open = d.pool.open /\ e.holders = d.holders
  /\ Worth(d, e) /\ (e.pool.rex > 0 => d.pool.rex > 0)
  /\ \A x \in Accounts : e.order[x].open => d.order[x].open
  /\ d.queue # <<>> => e.pool.lent <= d.pool.lent

(* runrex never fails on sound books, and leaves them sound: the name      *)
(* proceeds first, then the loans for cpu and for net, then the orders.    *)
LEMMA RunRexSound ==
  ASSUME NEW d, NEW b, NEW s, Sound(d, b, s), NEW max \in Nat, d.pool.open
  PROVE  /\ RunRex(d, max) # {}
         /\ \A e \in RunRex(d, max) : Sound(e, b, s) /\ Ran(d, e)
<1> DEFINE C == {NamesChannelled(d)}
           F == LoansProcessed(C, "cpu", max)
           G == LoansProcessed(F, "net", max)
<1>1. d \in DbType
  BY DEF Sound
<1>2. C # {} /\ \A e \in C : Sound(e, b, s) /\ Loaned(d, e)
  BY NamesChannelledSound
<1>3. F # {} /\ \A e \in F : Sound(e, b, s) /\ Loaned(d, e)
  <2> DEFINE k == "cpu"
  <2>1. F = LoansProcessed(C, k, max)
    OBVIOUS
  <2> HIDE DEF C, F, k
  <2>2. QED  BY <1>1, <1>2, <2>1, LoansProcessedSound
<1>4. G # {} /\ \A e \in G : Sound(e, b, s) /\ Loaned(d, e)
  <2> DEFINE k == "net"
  <2>1. G = LoansProcessed(F, k, max)
    OBVIOUS
  <2> HIDE DEF C, F, G, k
  <2>2. QED  BY <1>1, <1>3, <2>1, LoansProcessedSound
<1>5. RunRex(d, max) = {OrdersTried(e, max) : e \in G}
  BY DEF RunRex
<1> HIDE DEF C, F, G
<1>6. ASSUME NEW c \in G, NEW e, e = OrdersTried(c, max)
      PROVE  Sound(e, b, s) /\ Ran(d, e)
  <2>1. Sound(c, b, s) /\ Loaned(d, c)
    BY <1>4
  <2>2. Sound(e, b, s) /\ Sold(c, e)
    BY <1>6, <2>1, OrdersTriedSound
  <2>3. c \in DbType /\ e \in DbType
    BY <2>1, <2>2 DEF Sound
  <2>4. Worth(d, c)
    <3>1. c.pool.rex = d.pool.rex /\ c.pool.lendable >= d.pool.lendable
      BY <2>1 DEF Loaned
    <3>2. /\ c.pool.lendable \in Nat /\ d.pool.lendable \in Nat /\ d.pool.rex \in Nat
      BY <1>1, <2>3, DbFields
    <3>3. \A x \in Nat, y \in Nat, z \in Nat : x >= y => x * z >= y * z
      OBVIOUS
    <3>4. QED  BY <3>1, <3>2, <3>3 DEF Worth
  <2>5. e.pool.rex > 0 => c.pool.rex > 0
    BY <2>2 DEF Sold
  <2>6. Worth(d, e)
    BY <1>1, <2>2, <2>3, <2>4, <2>5, WorthTwice DEF Sold
  <2>7. e.pool.lent = c.pool.lent
    BY <2>2 DEF Sold
  <2>8. QED  BY <2>1, <2>2, <2>6, <2>7 DEF Ran, Loaned, Sold
<1>7. QED  BY <1>4, <1>5, <1>6

-----------------------------------------------------------------------------
(* The database after an action.                                           *)
LEMMA Committed ==
  ASSUME NEW d \in DbType, Commit(d)
  PROVE  Db' = d
BY DEF Commit, Db, DbType

(* What every action keeps to.                                             *)
Steps(d, e) ==
  /\ Worth(d, e)
  /\ \A a \in Accounts : d.order[a].open /\ e.order[a].open => e.pool.lent <= d.pool.lent

(* An action that leaves the pool as it is keeps to that.                  *)
LEMMA SamePool ==
  ASSUME NEW d \in DbType, NEW e, e.pool = d.pool
  PROVE  Steps(d, e) /\ Worth(d, e)
<1>1. d.pool.lendable \in Nat /\ d.pool.rex \in Nat /\ d.pool.lent \in Nat
  BY DbFields
<1>2. \A x \in Nat, y \in Nat : x * y >= x * y
  OBVIOUS
<1>3. QED  BY <1>1, <1>2 DEF Steps, Worth

(* What is done between an action's own work before and after runrex.      *)
LEMMA RanBetween ==
  ASSUME NEW d, NEW b, NEW s, Sound(d, b, s), NEW c \in DbType, NEW e \in DbType, NEW f,
         Worth(d, c), c.order = d.order, c.queue = d.queue, c.pool.lent = d.pool.lent,
         Ran(c, e), f.pool = e.pool
  PROVE  Steps(d, f)
<1>1. d \in DbType /\ Queued(d)
  BY DEF Sound
<1>2. Worth(d, e)
  BY <1>1, WorthTwice DEF Ran
<1>3. Worth(d, f)
  BY <1>2 DEF Worth
<1>4. ASSUME NEW a \in Accounts, d.order[a].open PROVE f.pool.lent <= d.pool.lent
  <2>1. d.queue # <<>>
    <3>1. \E i \in 1..Len(d.queue) : d.queue[i] = a
      BY <1>1, <1>4 DEF Queued
    <3>2. QED  BY <3>1
  <2>2. QED  BY <2>1 DEF Ran
<1>5. QED  BY <1>3, <1>4 DEF Steps

(* Sound books are sound but for any account's order.                      *)
LEMMA SoundToBut ==
  ASSUME NEW d, NEW b, NEW s, Sound(d, b, s), NEW a \in Accounts
  PROVE  SoundBut(d, b, s, a)
BY DEF Sound, SoundBut, OwnShares, OwnBuckets

(* Tokens that come to celes.rex or leave it are at first in nobody's      *)
(* books.                                                                  *)
LEMMA HeldMoved ==
  ASSUME NEW d, NEW b, NEW s, Sound(d, b, s), NEW x \in Int, d.held + x \in Nat,
         NEW e, e = [d EXCEPT !.held = d.held + x]
  PROVE  Sound(e, b, s + x) /\ e.pool = d.pool
<1>1. d \in DbType /\ b \in Stakes /\ s \in Int /\ d.held \in Nat
  BY DbFields DEF Sound
<1> DEFINE h == d.held + x
<1>2. h \in Nat /\ e = [d EXCEPT !.held = h]
  OBVIOUS
<1> HIDE DEF h
<1>3. /\ e \in DbType /\ e.held = h
      /\ e.order = d.order /\ e.queue = d.queue /\ e.pool = d.pool /\ e.rexbal = d.rexbal
      /\ e.outside = d.outside /\ e.fund = d.fund /\ e.funded = d.funded
      /\ e.holders = d.holders /\ e.loans = d.loans /\ e.weight = d.weight
  BY <1>1, <1>2 DEF DbType
<1>4. Books(e, s + x)
  <2>1. Books(d, s)
    BY DEF Sound
  <2>2. PICK f \in Int, g \in Int, p \in Int, l \in Int :
          /\ f = AccountTotal(d.fund, N) /\ g = LoanBalances(d.loans) /\ p = AllProceeds(d.order)
          /\ l = d.pool.lendable
    BY <1>1, MoneySums, DbFields
  <2>3. d.held = f + g + l + p + s
    BY <2>1, <2>2 DEF Books
  <2>4. h = f + g + l + p + (s + x)
    BY <1>1, <2>3 DEF h
  <2>5. e.held = AccountTotal(e.fund, N) + LoanBalances(e.loans) + e.pool.lendable
                 + AllProceeds(e.order) + (s + x)
    BY <1>3, <2>2, <2>4
  <2>6. QED  BY <1>3, <2>1, <2>5 DEF Books
<1>5. /\ Totals(e) /\ \A a \in Accounts : OwnShares(e, a)
  BY <1>3 DEF Sound, Totals, OwnShares, InOrder, InBuckets
<1>6. Queued(e) /\ LoansKept(e) /\ Rented(e, b)
  BY <1>3 DEF Sound, Queued, LoansKept, Rented
<1>7. s + x \in Int
  BY <1>1
<1>8. QED  BY <1>1, <1>3, <1>4, <1>5, <1>6, <1>7 DEF Sound

(* ... and it has them.                                                    *)
LEMMA HeldCovers ==
  ASSUME NEW d, NEW b, NEW s, Sound(d, b, s)
  PROVE  s <= d.held /\ s \in Int /\ d.held \in Nat
<1>1. d \in DbType /\ s \in Int
  BY DEF Sound
<1>2. PICK f \in Nat, g \in Nat, p \in Nat, l \in Nat :
        /\ f = AccountTotal(d.fund, N) /\ g = LoanBalances(d.loans) /\ p = AllProceeds(d.order)
        /\ l = d.pool.lendable
  BY <1>1, MoneySums, DbFields
<1>3. d.held = f + g + l + p + s
  BY <1>2 DEF Sound, Books
<1>4. QED  BY <1>1, <1>3, DbFields

(* The invariant, and what an action is to do.                             *)
RexInv == liquid \in [Accounts -> Nat] /\ Sound(Db, delband, 0)

(* deposit: into celes.rex and into the fund.                              *)
LEMMA DepositSound ==
  ASSUME RexInv, NEW a, NEW x \in Nat, Deposit(a, x)
  PROVE  RexInv' /\ Steps(Db, Db')
<1> DEFINE c == [Db EXCEPT !.held = Db.held + x]
           e == ToFund(c, a, x)
<1>1. /\ Sound(Db, delband, 0) /\ liquid \in [Accounts -> Nat] /\ Db \in DbType /\ Db.held \in Nat
  BY DbFields DEF RexInv, Sound
<1>2. a \in Accounts /\ 0 < x /\ x <= liquid[a] /\ liquid' = [liquid EXCEPT ![a] = @ - x]
      /\ Commit(e) /\ delband' = delband
  <2>1. a \in Buyers \cup Renters
    BY DEF Deposit
  <2>2. QED  BY <2>1, RexConstants DEF Deposit
<1>3. Sound(c, delband, 0 + x) /\ c.pool = Db.pool
  <2> HIDE DEF c
  <2>1. c = [Db EXCEPT !.held = Db.held + x]
    BY DEF c
  <2>2. Db.held + x \in Nat
    BY <1>1
  <2>3. QED  BY <1>1, <2>1, <2>2, HeldMoved
<1> HIDE DEF c
<1>4. Sound(e, delband, (0 + x) - x) /\ OnlyFunds(c, e)
  BY <1>2, <1>3, ToFundSound
<1>5. (0 + x) - x = 0
  OBVIOUS
<1> HIDE DEF e
<1>6. Sound(e, delband, 0) /\ e \in DbType /\ e.pool = Db.pool
  BY <1>3, <1>4, <1>5 DEF Sound, OnlyFunds
<1>7. Db' = e
  BY <1>2, <1>6, Committed
<1>8. liquid' \in [Accounts -> Nat]
  BY <1>1, <1>2
<1>9. Steps(Db, Db')
  BY <1>1, <1>6, <1>7, SamePool
<1>10. QED  BY <1>2, <1>6, <1>7, <1>8, <1>9 DEF RexInv

(* withdraw: out of both.                                                  *)
LEMMA WithdrawSound ==
  ASSUME RexInv, NEW a \in Accounts, NEW x \in Nat, Withdraw(a, x)
  PROVE  RexInv' /\ Steps(Db, Db')
<1> DEFINE d == Settled(Db, a, 0)
           c == FromFund(d, a, x)
           e == [c EXCEPT !.held = c.held + (0 - x)]
<1>1. /\ Sound(Db, delband, 0) /\ liquid \in [Accounts -> Nat] /\ Db \in DbType
  BY DEF RexInv, Sound
<1>2. /\ InFund(d, a, x) /\ liquid' = [liquid EXCEPT ![a] = @ + x] /\ delband' = delband
      /\ Commit([c EXCEPT !.held = @ - x])
  BY DEF Withdraw
<1>3. Sound(d, delband, 0 - 0) /\ OnlyDue(Db, d, a)
  BY <1>1, SettledSound
<1> HIDE DEF d
<1>4. Sound(d, delband, 0)
  BY <1>3
<1>5. Sound(c, delband, 0 + x) /\ OnlyFunds(d, c)
  BY <1>2, <1>4, FromFundSound
<1> HIDE DEF c
<1>6. x <= c.held /\ c.held \in Nat
  BY <1>5, HeldCovers
<1>7. c.held + (0 - x) \in Nat /\ c.held + (0 - x) = c.held - x /\ (0 + x) + (0 - x) = 0
  BY <1>6
<1>8. Sound(e, delband, (0 + x) + (0 - x)) /\ e.pool = c.pool
  <2> HIDE DEF e
  <2>1. e = [c EXCEPT !.held = c.held + (0 - x)] /\ 0 - x \in Int
    BY DEF e
  <2>2. QED  BY <1>5, <1>7, <2>1, HeldMoved
<1>9. Commit(e)
  BY <1>2, <1>7
<1> HIDE DEF e
<1>10. Sound(e, delband, 0) /\ e \in DbType /\ e.pool = Db.pool
  BY <1>3, <1>5, <1>7, <1>8 DEF Sound, OnlyFunds, OnlyDue
<1>11. Db' = e
  BY <1>9, <1>10, Committed
<1>12. liquid' \in [Accounts -> Nat]
  BY <1>1, <1>2
<1>13. Steps(Db, Db')
  BY <1>1, <1>10, <1>11, SamePool
<1>14. QED  BY <1>2, <1>10, <1>11, <1>12, <1>13 DEF RexInv

(* buyrex: the fund pays the pool, runrex, the rest of update_rex_account. *)
LEMMA BuyRexSound ==
  ASSUME RexInv, NEW a \in Accounts, NEW x \in Nat, BuyRex(a, x)
  PROVE  RexInv' /\ Steps(Db, Db')
<1> DEFINE c == FromFund(Db, a, x)
           f == Bought(c, a, x)
<1>1. /\ Sound(Db, delband, 0) /\ liquid \in [Accounts -> Nat] /\ Db \in DbType
  BY DEF RexInv, Sound
<1>2. /\ InFund(Db, a, x) /\ MayBuy(Db) /\ liquid' = liquid /\ delband' = delband
      /\ \E d \in RunRex(f, RunMax) : Commit(Settled(d, a, 0))
  BY DEF BuyRex
<1>3. x \in Nat \ {0}
  BY <1>2 DEF InFund
<1>4. Sound(c, delband, 0 + x) /\ OnlyFunds(Db, c)
  BY <1>1, <1>2, FromFundSound
<1> HIDE DEF c
<1>5. MayBuy(c) /\ 0 + x = x /\ x - x = 0
  BY <1>2, <1>4 DEF MayBuy, RexAvailable, OnlyFunds
<1>6. /\ Sound(f, delband, x - x) /\ Worth(c, f) /\ f.pool.lent = c.pool.lent
      /\ f.queue = c.queue /\ f.order = c.order /\ f.pool.open
  BY <1>3, <1>4, <1>5, BoughtSound
<1> HIDE DEF f
<1>7. Sound(f, delband, 0) /\ f \in DbType
  BY <1>5, <1>6 DEF Sound
<1>8. /\ Worth(Db, f) /\ f.pool.lent = Db.pool.lent /\ f.queue = Db.queue /\ f.order = Db.order
  BY <1>4, <1>6 DEF OnlyFunds, Worth
<1>9. PICK d \in RunRex(f, RunMax) : Commit(Settled(d, a, 0))
  BY <1>2
<1>10. Sound(d, delband, 0) /\ Ran(f, d) /\ d \in DbType
  BY <1>6, <1>7, RexConstants, RunRexSound DEF Sound
<1> DEFINE e == Settled(d, a, 0)
<1>11. Sound(e, delband, 0 - 0) /\ OnlyDue(d, e, a)
  BY <1>10, SettledSound
<1> HIDE DEF e
<1>12. Sound(e, delband, 0) /\ e \in DbType /\ e.pool = d.pool /\ Commit(e)
  BY <1>9, <1>11 DEF Sound, OnlyDue, e
<1>13. Db' = e
  BY <1>12, Committed
<1>14. Steps(Db, e)
  BY <1>1, <1>7, <1>8, <1>10, <1>12, RanBetween
<1>15. QED  BY <1>1, <1>2, <1>12, <1>13, <1>14 DEF RexInv

(* cnclrexorder.                                                           *)
LEMMA CancelSound ==
  ASSUME RexInv, NEW a \in Accounts, CnclRexOrder(a)
  PROVE  RexInv' /\ Steps(Db, Db')
<1> DEFINE e == OrderClosed(Db, a, NoOrder)
<1>1. /\ Sound(Db, delband, 0) /\ liquid \in [Accounts -> Nat] /\ Db \in DbType
  BY DEF RexInv, Sound
<1>2. Db.order[a].open /\ Commit(e) /\ liquid' = liquid /\ delband' = delband
  BY DEF CnclRexOrder, OrderClosed, Db
<1>3. NoOrder \in OrderType /\ ~NoOrder.open /\ NoOrder.proceeds = 0
  BY DEF NoOrder, OrderType
<1>4. SoundBut(Db, delband, 0, a)
  BY <1>1, SoundToBut
<1>5. Sound(e, delband, 0 - NoOrder.proceeds) /\ e.pool = Db.pool
  BY <1>2, <1>3, <1>4, OrderClosedSound
<1> HIDE DEF e
<1>6. Sound(e, delband, 0) /\ e \in DbType
  BY <1>3, <1>5 DEF Sound
<1>7. Db' = e
  BY <1>2, <1>6, Committed
<1>8. Steps(Db, e)
  BY <1>1, <1>5, SamePool
<1>9. QED  BY <1>1, <1>2, <1>6, <1>7, <1>8 DEF RexInv

(* Where an action begins with runrex.                                     *)
LEMMA RunFirst ==
  ASSUME RexInv, NEW max \in Nat, NEW d \in RunRex(Db, max)
  PROVE  Sound(d, delband, 0) /\ d \in DbType /\ Ran(Db, d)
         /\ \A f : f.pool = d.pool => Steps(Db, f)
<1>1. Sound(Db, delband, 0) /\ Db \in DbType
  BY DEF RexInv, Sound
<1>2. Db.pool.open
  BY DEF RunRex
<1>3. Sound(d, delband, 0) /\ Ran(Db, d)
  BY <1>1, <1>2, RunRexSound
<1>4. d \in DbType
  BY <1>3 DEF Sound
<1>5. Worth(Db, Db)
  BY <1>1, SamePool
<1>6. QED  BY <1>1, <1>3, <1>4, <1>5, RanBetween

(* Where an action ends.                                                   *)
LEMMA ActionDone ==
  ASSUME NEW e, NEW b, Sound(e, b, 0), Commit(e), delband' = b, liquid' \in [Accounts -> Nat],
         Steps(Db, e)
  PROVE  RexInv' /\ Steps(Db, Db')
<1>1. e \in DbType
  BY DEF Sound
<1>2. Db' = e
  BY <1>1, Committed
<1>3. QED  BY <1>2 DEF RexInv

(* rexexec.                                                                *)
LEMMA RexExecSound ==
  ASSUME RexInv, NEW max \in Nat, RexExec(max)
  PROVE  RexInv' /\ Steps(Db, Db')
<1>1. PICK d \in RunRex(Db, max) : Commit(d)
  BY DEF RexExec
<1>2. delband' = delband /\ liquid' \in [Accounts -> Nat]
  BY DEF RexExec, RexInv
<1>3. QED  BY <1>1, <1>2, RunFirst, ActionDone

(* updaterex.                                                              *)
LEMMA UpdateRexSound ==
  ASSUME RexInv, NEW a \in Accounts, UpdateRex(a)
  PROVE  RexInv' /\ Steps(Db, Db')
<1>1. PICK d \in RunRex(Db, RunMax) : a \in d.holders /\ Commit(Matured(Settled(d, a, 0), a))
  BY DEF UpdateRex
<1>2. delband' = delband /\ liquid' \in [Accounts -> Nat]
  BY DEF UpdateRex, RexInv
<1>3. Sound(d, delband, 0) /\ \A f : f.pool = d.pool => Steps(Db, f)
  BY RunFirst, RexConstants
<1> DEFINE c == Settled(d, a, 0)
           e == Matured(c, a)
<1>4. Sound(c, delband, 0 - 0) /\ OnlyDue(d, c, a)
  BY <1>3, SettledSound
<1> HIDE DEF c
<1>5. Sound(c, delband, 0) /\ a \in c.holders /\ c.pool = d.pool
  BY <1>1, <1>4 DEF OnlyDue
<1>6. Sound(e, delband, 0) /\ OnlyShares(c, e, a)
  BY <1>5, MaturedSound
<1>7. Commit(e)
  BY <1>1 DEF c
<1> HIDE DEF e
<1>8. Steps(Db, e)
  BY <1>3, <1>5, <1>6 DEF OnlyShares
<1>9. QED  BY <1>2, <1>6, <1>7, <1>8, ActionDone

-----------------------------------------------------------------------------
(* update_rex_account changes no shares and nothing that an open order     *)
(* asks for.                                                               *)
LEMMA SettledKeeps ==
  ASSUME NEW d \in DbType, NEW a \in Accounts, NEW x, NEW e, e = Settled(d, a, x)
  PROVE  e.rexbal = d.rexbal /\ InOrder(e, a) = InOrder(d, a)
<1> DEFINE d1 == IF d.order[a].open THEN d ELSE [d EXCEPT !.order[a] = NoOrder]
           y == x + d.order[a].proceeds
<1>1. /\ d1.rexbal = d.rexbal /\ InOrder(d1, a) = InOrder(d, a)
      /\ ToFund(d1, a, y).rexbal = d1.rexbal /\ ToFund(d1, a, y).order = d1.order
  <2>1. CASE d.order[a].open
    <3>1. d1 = d
      BY <2>1
    <3> HIDE DEF d1, y
    <3>2. QED  BY <3>1 DEF ToFund, DbType
  <2>2. CASE ~d.order[a].open
    <3>1. d1 = [d EXCEPT !.order[a] = NoOrder]
      BY <2>2
    <3>2. d.order \in [Accounts -> OrderType]
      BY DbFields
    <3> DEFINE O == [d.order EXCEPT ![a] = NoOrder]
    <3>3. O[a] = NoOrder
      BY <3>2
    <3>4. d1 = [d EXCEPT !.order = O]
      BY <3>1
    <3> HIDE DEF d1, O, y
    <3>5. d1.order = O /\ d1.rexbal = d.rexbal
      BY <3>4 DEF DbType
    <3>6. InOrder(d1, a) = 0 /\ InOrder(d, a) = 0
      BY <2>2, <3>3, <3>5 DEF InOrder, NoOrder
    <3>7. ToFund(d1, a, y).rexbal = d1.rexbal /\ ToFund(d1, a, y).order = d1.order
      BY <3>4 DEF ToFund, DbType
    <3>8. QED  BY <3>5, <3>6, <3>7
  <2>3. QED  BY <2>1, <2>2
<1>2. e = IF y > 0 THEN ToFund(d1, a, y) ELSE d1
  BY DEF Settled
<1> HIDE DEF d1, y
<1>3. QED  BY <1>1, <1>2 DEF InOrder

(* sellrex when the pool has enough unlent and nobody waits.               *)
LEMMA SoldAtOnceSound ==
  ASSUME RexInv, NEW a \in Accounts, NEW x \in Nat \ {0}, NEW d \in RunRex(Db, RunMax),
         a \in d.holders, x <= Matured(d, a).rexbal[a].matured,
         SoldAtOnce(Matured(d, a), a, x), UNCHANGED <<liquid, delband>>
  PROVE  RexInv' /\ Steps(Db, Db')
<1> DEFINE d1 == Matured(d, a)
           c == Filled(d1, a, x)
           p == Proceeds(d1, x)
           e == Settled(c, a, p)
<1>1. Sound(d, delband, 0) /\ d \in DbType /\ Ran(Db, d) /\ Db \in DbType
  BY RunFirst, RexConstants DEF RexInv, Sound
<1>2. Sound(d1, delband, 0) /\ OnlyShares(d, d1, a)
  BY <1>1, MaturedSound
<1>3. /\ CanFill(d1, x) /\ InOrder(e, a) <= e.rexbal[a].matured /\ Commit(e)
      /\ x <= d1.rexbal[a].matured
  BY DEF SoldAtOnce
<1> HIDE DEF d1
<1>4. a \in d1.holders /\ d1.pool = d.pool /\ d1.order = d.order /\ d1 \in DbType
  BY <1>2 DEF OnlyShares
<1>5. /\ p \in Nat /\ SoundBut(c, delband, 0 + p, a) /\ Sold(d1, c)
      /\ c.order = d1.order /\ c.queue = d1.queue
  BY <1>2, <1>3, <1>4, FilledSound
<1> HIDE DEF c, p
<1>6. c \in DbType
  BY <1>5 DEF SoundBut
<1>7. InOrder(c, a) <= c.rexbal[a].matured
  <2>1. e.rexbal = c.rexbal /\ InOrder(e, a) = InOrder(c, a)
    BY <1>6, SettledKeeps
  <2>2. QED  BY <1>3, <2>1
<1>8. Sound(c, delband, 0 + p)
  BY <1>5, <1>7, SoundAgain
<1>9. Sound(e, delband, (0 + p) - p) /\ OnlyDue(c, e, a)
  BY <1>5, <1>8, SettledSound
<1> HIDE DEF e
<1>10. (0 + p) - p = 0
  BY <1>5
<1>11. Sound(e, delband, 0) /\ e.pool = c.pool
  BY <1>9, <1>10 DEF OnlyDue
<1>12. Steps(Db, e)
  <2>1. Worth(d, c) /\ (c.pool.rex > 0 => d.pool.rex > 0) /\ c.pool.lent = d.pool.lent
    BY <1>4, <1>5 DEF Sold, Worth
  <2>2. Worth(Db, c)
    BY <1>1, <1>6, <2>1, WorthTwice DEF Ran
  <2>3. Worth(Db, e)
    BY <1>11, <2>2 DEF Worth
  <2>4. Steps(Db, d)
    BY RunFirst, RexConstants
  <2>5. ASSUME NEW y \in Accounts, Db.order[y].open, e.order[y].open
        PROVE  e.pool.lent <= Db.pool.lent
    <3>1. d.order[y].open
      BY <1>4, <1>5, <1>9, <2>5 DEF OnlyDue
    <3>2. d.pool.lent <= Db.pool.lent
      BY <2>4, <2>5, <3>1 DEF Steps
    <3>3. QED  BY <1>11, <2>1, <3>2
  <2>6. QED  BY <2>3, <2>5 DEF Steps
<1>13. delband' = delband /\ liquid' \in [Accounts -> Nat]
  BY DEF RexInv
<1>14. QED  BY <1>3, <1>11, <1>12, <1>13, ActionDone

(* An order waits, be it new or grown.                                     *)
OrderIn(d, a, o, k) == [d EXCEPT !.order = [d.order EXCEPT ![a] = o], !.queue = k]

(* It asks for no more than is matured.                                    *)
LEMMA OrderInSound ==
  ASSUME NEW d, NEW b, NEW s, Sound(d, b, s), NEW a \in Accounts, a \in d.holders,
         d.order[a].proceeds = 0, NEW o \in OrderType, o.open, o.proceeds = 0,
         o.requested > 0, o.requested <= d.rexbal[a].matured,
         NEW k \in Seq(Accounts), Distinct(k), Owners(k) = Owners(d.queue) \cup {a},
         NEW e, e = OrderIn(d, a, o, k)
  PROVE  Sound(e, b, s) /\ e.pool = d.pool
<1> DEFINE O == [d.order EXCEPT ![a] = o]
<1>1. /\ d \in DbType /\ b \in Stakes /\ s \in Int /\ d.order \in [Accounts -> OrderType]
      /\ Queued(d)
  BY DbFields DEF Sound
<1>2. /\ O \in [Accounts -> OrderType] /\ O[a] = o
      /\ \A x \in Accounts : x # a => O[x] = d.order[x]
  <2> HIDE DEF OrderType
  <2>1. QED  BY <1>1
<1>3. e = [d EXCEPT !.order = O, !.queue = k]
  BY DEF OrderIn
<1> HIDE DEF O
<1>4. /\ e \in DbType /\ e.order = O /\ e.queue = k /\ e.pool = d.pool /\ e.rexbal = d.rexbal
      /\ e.held = d.held /\ e.outside = d.outside /\ e.fund = d.fund /\ e.funded = d.funded
      /\ e.holders = d.holders /\ e.loans = d.loans /\ e.weight = d.weight
  BY <1>1, <1>2, <1>3 DEF DbType
<1>5. Books(e, s)
  <2>1. /\ AllProceeds(O) = AllProceeds(d.order) - d.order[a].proceeds + O[a].proceeds
        /\ AllProceeds(d.order) \in Nat
    BY <1>1, <1>2, ProceedsChange
  <2>2. AllProceeds(O) = AllProceeds(d.order)
    BY <1>2, <2>1
  <2>3. QED  BY <1>4, <2>2 DEF Sound, Books
<1>6. \A x \in Accounts : OwnShares(e, x)
  <2>1. ASSUME NEW x \in Accounts PROVE OwnShares(e, x)
    <3>1. OwnShares(d, x)
      BY DEF Sound
    <3>2. CASE x = a
      <4>1. e.order[x] = o
        BY <1>2, <1>4, <3>2
      <4>2. QED  BY <1>4, <3>1, <3>2, <4>1 DEF OwnShares, InOrder, InBuckets
    <3>3. CASE x # a
      BY <1>2, <1>4, <3>1, <3>3 DEF OwnShares, InOrder, InBuckets
    <3>4. QED  BY <3>2, <3>3
  <2>2. QED  BY <2>1
<1>7. Queued(e)
  <2>1. {x \in Accounts : e.order[x].open} = {x \in Accounts : d.order[x].open} \cup {a}
    BY <1>2, <1>4
  <2>2. Owners(d.queue) = {x \in Accounts : d.order[x].open}
    BY <1>1 DEF Queued, Owners
  <2>3. Owners(e.queue) = {x \in Accounts : e.order[x].open} /\ Distinct(e.queue)
    BY <1>4, <2>1, <2>2
  <2>4. QED  BY <2>3 DEF Queued, Owners, Distinct
<1>8. Totals(e) /\ LoansKept(e) /\ Rented(e, b)
  BY <1>4 DEF Sound, Totals, LoansKept, Rented
<1>9. QED  BY <1>1, <1>4, <1>5, <1>6, <1>7, <1>8 DEF Sound

(* sellrex when the order has to wait, or joins one that does.             *)
LEMMA SoldLaterSound ==
  ASSUME RexInv, NEW a \in Accounts, NEW x \in Nat \ {0}, NEW d \in RunRex(Db, RunMax),
         a \in d.holders, SoldLater(Matured(d, a), a, x), UNCHANGED <<liquid, delband>>
  PROVE  RexInv' /\ Steps(Db, Db')
<1> DEFINE d1 == Matured(d, a)
           f == Settled(d1, a, 0)
           o == [open |-> TRUE, requested |-> InOrder(f, a) + x, proceeds |-> 0]
           placed == [f EXCEPT !.order[a] = o]
           n == Len(f.queue)
<1>1. Sound(d, delband, 0) /\ \A g : g.pool = d.pool => Steps(Db, g)
  BY RunFirst, RexConstants
<1>2. Sound(d1, delband, 0) /\ OnlyShares(d, d1, a)
  BY <1>1, MaturedSound
<1>3. /\ o.requested <= f.rexbal[a].matured
      /\ IF f.order[a].open
         THEN Commit(placed)
         ELSE \E i \in 0..n : Commit([placed EXCEPT !.queue =
                                        SubSeq(@, 1, i) \o <<a>> \o SubSeq(@, i + 1, n)])
  BY DEF SoldLater
<1> HIDE DEF d1
<1>4. Sound(f, delband, 0 - 0) /\ OnlyDue(d1, f, a)
  BY <1>2, SettledSound
<1> HIDE DEF f
<1>5. /\ Sound(f, delband, 0) /\ f \in DbType /\ a \in f.holders /\ f.order[a].proceeds = 0
      /\ f.pool = d.pool /\ f.queue \in Seq(Accounts) /\ Queued(f)
      /\ f.order[a].requested \in Nat
  <2>1. Sound(f, delband, 0)
    BY <1>4
  <2>2. f \in DbType /\ Queued(f)
    BY <2>1 DEF Sound
  <2>3. QED  BY <1>2, <1>4, <2>1, <2>2, DbFields DEF OnlyDue, OnlyShares
<1>6. o \in OrderType /\ o.open /\ o.proceeds = 0 /\ o.requested > 0
  <2>1. InOrder(f, a) \in Nat
    BY <1>5 DEF InOrder
  <2>2. InOrder(f, a) + x \in Nat /\ InOrder(f, a) + x > 0
    BY <2>1
  <2>3. QED  BY <2>2 DEF OrderType
<1>7. delband' = delband /\ liquid' \in [Accounts -> Nat]
  BY DEF RexInv
<1> HIDE DEF o
<1>8. placed = [f EXCEPT !.order = [f.order EXCEPT ![a] = o]]
  OBVIOUS
<1>9. Distinct(f.queue) /\ Owners(f.queue) = {y \in Accounts : f.order[y].open}
  BY <1>5 DEF Queued, Owners, Distinct
<1>10. \E k \in Seq(Accounts) : /\ Distinct(k) /\ Owners(k) = Owners(f.queue) \cup {a}
                                /\ Commit(OrderIn(f, a, o, k))
  <2>1. CASE f.order[a].open
    <3>1. Owners(f.queue) = Owners(f.queue) \cup {a}
      BY <1>9, <2>1
    <3>2. Commit(placed)
      BY <1>3, <2>1
    <3>3. placed = OrderIn(f, a, o, f.queue)
      <4> DEFINE O == [f.order EXCEPT ![a] = o]
      <4> HIDE DEF O, placed
      <4>1. placed = [f EXCEPT !.order = O]
        BY <1>8 DEF O
      <4>2. placed = [f EXCEPT !.order = O, !.queue = f.queue]
        BY <1>5, <4>1 DEF DbType
      <4>3. QED  BY <4>2 DEF OrderIn, O
    <3>4. QED  BY <1>5, <1>9, <3>1, <3>2, <3>3
  <2>2. CASE ~f.order[a].open
    <3>1. PICK i \in 0..n : Commit([placed EXCEPT !.queue =
                                        SubSeq(@, 1, i) \o <<a>> \o SubSeq(@, i + 1, n)])
      BY <1>3, <2>2
    <3> DEFINE k == Behind(f.queue, i, a)
    <3>2. [placed EXCEPT !.queue = SubSeq(@, 1, i) \o <<a>> \o SubSeq(@, i + 1, n)]
            = OrderIn(f, a, o, k)
      <4> DEFINE O == [f.order EXCEPT ![a] = o]
      <4>1. placed.queue = f.queue /\ placed = [f EXCEPT !.order = O]
        <5> HIDE DEF O, placed
        <5>1. placed = [f EXCEPT !.order = O]
          BY <1>8 DEF O
        <5>2. QED  BY <1>5, <5>1 DEF DbType
      <4> HIDE DEF O, placed
      <4>2. [placed EXCEPT !.queue = SubSeq(@, 1, i) \o <<a>> \o SubSeq(@, i + 1, n)]
              = [placed EXCEPT !.queue = k]
        BY <4>1 DEF Behind
      <4> HIDE DEF k
      <4>3. [placed EXCEPT !.queue = k] = [f EXCEPT !.order = O, !.queue = k]
        BY <1>5, <4>1 DEF DbType
      <4>4. QED  BY <4>2, <4>3 DEF OrderIn, O
    <3>3. k \in Seq(Accounts) /\ Distinct(k) /\ Owners(k) = Owners(f.queue) \cup {a}
      <4>1. a \notin Owners(f.queue) /\ i \in 0..Len(f.queue)
        BY <1>9, <2>2
      <4>2. k = Behind(f.queue, i, a)
        OBVIOUS
      <4> HIDE DEF k
      <4>3. QED  BY <1>5, <1>9, <4>1, <4>2, OwnerQueued
    <3>4. Commit(OrderIn(f, a, o, k))
      <4> HIDE DEF k
      <4>1. QED  BY <3>1, <3>2
    <3> HIDE DEF k
    <3>5. QED  BY <3>3, <3>4
  <2>3. QED  BY <2>1, <2>2
<1>11. PICK k \in Seq(Accounts) : /\ Distinct(k) /\ Owners(k) = Owners(f.queue) \cup {a}
                                  /\ Commit(OrderIn(f, a, o, k))
  BY <1>10
<1> DEFINE e == OrderIn(f, a, o, k)
<1>12. Sound(e, delband, 0) /\ e.pool = f.pool
  BY <1>3, <1>5, <1>6, <1>11, OrderInSound
<1> HIDE DEF e
<1>13. Steps(Db, e) /\ Commit(e)
  BY <1>1, <1>5, <1>11, <1>12 DEF e
<1>14. QED  BY <1>7, <1>12, <1>13, ActionDone

(* sellrex.                                                                *)
LEMMA SellRexSound ==
  ASSUME RexInv, NEW a \in Accounts, NEW x \in Nat, SellRex(a, x)
  PROVE  RexInv' /\ Steps(Db, Db')
<1>1. PICK d \in RunRex(Db, RunMax) :
        /\ a \in d.holders
        /\ 0 < x /\ x <= Matured(d, a).rexbal[a].matured
        /\ \/ SoldAtOnce(Matured(d, a), a, x)
           \/ SoldLater(Matured(d, a), a, x)
  BY DEF SellRex
<1>2. UNCHANGED <<liquid, delband>> /\ x \in Nat \ {0}
  BY <1>1 DEF SellRex
<1>3. CASE SoldAtOnce(Matured(d, a), a, x)
  BY <1>1, <1>2, <1>3, SoldAtOnceSound
<1>4. CASE SoldLater(Matured(d, a), a, x)
  BY <1>1, <1>2, <1>4, SoldLaterSound
<1>5. QED  BY <1>1, <1>3, <1>4

-----------------------------------------------------------------------------
(* What sound books say of one account's shares.                           *)
LEMMA OwnFacts ==
  ASSUME NEW d, NEW b, NEW s, Sound(d, b, s), NEW a \in Accounts
  PROVE  /\ d \in DbType /\ InTime(InBuckets(d, a)) /\ InBuckets(d, a) \in Buckets
         /\ d.rexbal[a].rex = d.rexbal[a].matured + Held(InBuckets(d, a))
         /\ d.rexbal[a].rex \in Nat /\ d.rexbal[a].matured \in Nat
         /\ Held(InBuckets(d, a)) \in Nat
         /\ InOrder(d, a) \in Nat /\ InOrder(d, a) <= d.rexbal[a].matured
<1>1. d \in DbType /\ OwnShares(d, a)
  BY DEF Sound
<1>2. InOrder(d, a) \in Nat
  BY <1>1, DbFields DEF InOrder
<1>3. QED  BY <1>1, <1>2, ShareFields DEF OwnShares

(* consolidate: all buckets become the one that matures last.              *)
LEMMA ConsolidateSound ==
  ASSUME RexInv, NEW a \in Accounts, Consolidate(a)
  PROVE  RexInv' /\ Steps(Db, Db')
<1>1. PICK d \in RunRex(Db, RunMax) : a \in d.holders /\ Commit(Consolidated(Settled(d, a, 0), a))
  BY DEF Consolidate
<1>2. delband' = delband /\ liquid' \in [Accounts -> Nat]
  BY DEF Consolidate, RexInv
<1>3. Sound(d, delband, 0) /\ \A f : f.pool = d.pool => Steps(Db, f)
  BY RunFirst, RexConstants
<1> DEFINE c == Settled(d, a, 0)
           d1 == WithoutSavings(c, a)
           m == InBuckets(d1, a)
           total == d1.rexbal[a].matured - InOrder(c, a) + Held(m)
           k == IF total > 0 THEN <<<<MaturityDays, total>>>> ELSE <<>>
           x == InOrder(c, a)
           d2 == Reshared(d1, a, x, k)
           e == WithSavings(d2, a, Savings(c, a))
<1>4. Sound(c, delband, 0 - 0) /\ OnlyDue(d, c, a)
  BY <1>3, SettledSound
<1> HIDE DEF c
<1>5. Sound(c, delband, 0) /\ a \in c.holders /\ c.pool = d.pool
  BY <1>1, <1>4 DEF OnlyDue
<1>6. Commit(e)
  <2>1. e = Consolidated(c, a)
    BY DEF Consolidated, Reshared, InBuckets, Held
  <2>2. QED  BY <1>1, <2>1 DEF c
<1>7. /\ c \in DbType /\ InTime(InBuckets(c, a))
      /\ c.rexbal[a].rex = c.rexbal[a].matured + Held(InBuckets(c, a))
      /\ c.rexbal[a].rex \in Nat /\ c.rexbal[a].matured \in Nat
      /\ Held(InBuckets(c, a)) \in Nat /\ x \in Nat /\ x <= c.rexbal[a].matured
  BY <1>5, OwnFacts
<1>8. /\ OnlyShares(c, d1, a) /\ d1.rexbal[a].matured = c.rexbal[a].matured
      /\ Savings(c, a) \in Nat
      /\ Held(m) = Held(InBuckets(c, a)) - Savings(c, a)
      /\ d1 \in DbType
  <2>1. d1 = WithoutSavings(c, a)
    OBVIOUS
  <2> HIDE DEF d1
  <2>2. QED  BY <1>7, <2>1, SavingsTaken DEF OnlyShares
<1> HIDE DEF d1
<1>9. m \in Buckets /\ Held(m) \in Nat
  BY <1>8, ShareFields
<1> HIDE DEF x
<1>10. total \in Nat
  BY <1>7, <1>8, <1>9 DEF x
<1>11. total = d1.rexbal[a].matured - x + Held(m)
  BY DEF x
<1> HIDE DEF total, m
<1>12. k \in Buckets /\ InTime(k) /\ Held(k) = total
  <2>1. CASE total > 0
    <3> DEFINE z == <<>>
    <3>1. z \in Buckets /\ Held(z) = 0 /\ InTime(z) /\ Until(z, MaturityDays)
      BY NoBuckets
    <3>2. MaturityDays \in 1..EndOfDays
      BY RexConstants
    <3>3. AddedBucket(z, MaturityDays, total) = k
      BY <2>1 DEF AddedBucket
    <3> HIDE DEF z, k
    <3>4. k \in Buckets /\ InTime(k) /\ Held(k) = Held(z) + total
      BY <1>10, <3>1, <3>2, <3>3, AddedTo
    <3>5. QED  BY <1>10, <3>1, <3>4
  <2>2. CASE ~(total > 0)
    BY <1>10, <2>2, NoBuckets
  <2>3. QED  BY <2>1, <2>2
<1> HIDE DEF k
<1>13. OnlyShares(d1, d2, a) /\ d2.rexbal[a].matured = x /\ InBuckets(d2, a) = k
  <2>1. x \in Nat
    BY <1>7
  <2>2. d2 = Reshared(d1, a, x, k)
    OBVIOUS
  <2> HIDE DEF d2
  <2>3. QED  BY <1>8, <1>12, <2>1, <2>2, SharesReplaced
<1> HIDE DEF d2
<1>14. /\ OnlyShares(d2, e, a) /\ e.rexbal[a].matured = d2.rexbal[a].matured
       /\ InTime(InBuckets(e, a))
       /\ Held(InBuckets(e, a)) = Held(InBuckets(d2, a)) + Savings(c, a)
  <2>1. d2 \in DbType /\ InTime(InBuckets(d2, a))
    BY <1>12, <1>13 DEF OnlyShares
  <2>2. QED  BY <1>8, <2>1, SharesSaved
<1> HIDE DEF e
<1>15. OnlyShares(c, e, a)
  BY <1>8, <1>13, <1>14, OnlySharesTwice
<1>16. e.rexbal[a].rex = e.rexbal[a].matured + Held(InBuckets(e, a))
  BY <1>7, <1>8, <1>9, <1>11, <1>12, <1>13, <1>14, <1>15 DEF OnlyShares
<1>17. InOrder(c, a) <= e.rexbal[a].matured
  BY <1>7, <1>13, <1>14 DEF x
<1>18. Sound(e, delband, 0)
  BY <1>5, <1>14, <1>15, <1>16, <1>17, SharesMovedSound
<1>19. Steps(Db, e)
  BY <1>3, <1>5, <1>15 DEF OnlyShares
<1>20. QED  BY <1>2, <1>6, <1>18, <1>19, ActionDone

(* mvtosavings: from the last buckets, never from shares that are in an    *)
(* open order.                                                             *)
LEMMA MvToSavingsSound ==
  ASSUME RexInv, NEW a \in Accounts, NEW x \in Nat, MvToSavings(a, x)
  PROVE  RexInv' /\ Steps(Db, Db')
<1> DEFINE C(d) == Settled(d, a, 0)
           W(d) == WithoutSavings(C(d), a)
           M(d) == Matured(W(d), a)
           T(d) == TakenFromLast(M(d), a, x)
           F(d) == WithSavings(T(d), a, Savings(C(d), a) + x)
<1>1. PICK d \in RunRex(Db, RunMax) :
        /\ a \in d.holders
        /\ x + InOrder(C(d), a) + Savings(C(d), a) <= C(d).rexbal[a].rex
        /\ InOrder(C(d), a) <= T(d).rexbal[a].matured
        /\ Commit(F(d))
  BY DEF MvToSavings
<1>2. delband' = delband /\ liquid' \in [Accounts -> Nat] /\ x \in Nat \ {0}
  BY DEF MvToSavings, RexInv
<1>3. Sound(d, delband, 0) /\ \A f : f.pool = d.pool => Steps(Db, f)
  BY RunFirst, RexConstants
<1> DEFINE c == C(d)
           w == W(d)
           m == M(d)
           t == T(d)
           e == F(d)
<1>4. /\ c = Settled(d, a, 0) /\ w = WithoutSavings(c, a) /\ m = Matured(w, a)
      /\ t = TakenFromLast(m, a, x) /\ e = WithSavings(t, a, Savings(c, a) + x)
  OBVIOUS
<1>5. /\ x + InOrder(c, a) + Savings(c, a) <= c.rexbal[a].rex
      /\ InOrder(c, a) <= t.rexbal[a].matured /\ Commit(e)
  BY <1>1
<1> HIDE DEF C, W, M, T, F, c, w, m, t, e
<1>6. Sound(c, delband, 0 - 0) /\ OnlyDue(d, c, a)
  BY <1>3, <1>4, SettledSound
<1>7. Sound(c, delband, 0) /\ a \in c.holders /\ c.pool = d.pool
  BY <1>1, <1>6 DEF OnlyDue
<1>8. /\ c \in DbType /\ InTime(InBuckets(c, a))
      /\ c.rexbal[a].rex = c.rexbal[a].matured + Held(InBuckets(c, a))
      /\ c.rexbal[a].rex \in Nat /\ c.rexbal[a].matured \in Nat
      /\ Held(InBuckets(c, a)) \in Nat /\ InOrder(c, a) \in Nat
  BY <1>7, OwnFacts
<1>9. /\ OnlyShares(c, w, a) /\ w.rexbal[a].matured = c.rexbal[a].matured
      /\ InTime(InBuckets(w, a)) /\ Savings(c, a) \in Nat
      /\ Held(InBuckets(w, a)) = Held(InBuckets(c, a)) - Savings(c, a) /\ w \in DbType
  BY <1>4, <1>8, SavingsTaken DEF OnlyShares
<1>10. /\ OnlyShares(w, m, a) /\ InTime(InBuckets(m, a)) /\ m \in DbType
       /\ m.rexbal[a].matured + Held(InBuckets(m, a))
            = w.rexbal[a].matured + Held(InBuckets(w, a))
  BY <1>4, <1>9, SharesMature DEF OnlyShares
<1>11. x <= m.rexbal[a].matured + Held(InBuckets(m, a))
  BY <1>2, <1>5, <1>8, <1>9, <1>10
<1>12. /\ OnlyShares(m, t, a) /\ InTime(InBuckets(t, a)) /\ t \in DbType
       /\ t.rexbal[a].matured + Held(InBuckets(t, a))
            = m.rexbal[a].matured + Held(InBuckets(m, a)) - x
  BY <1>2, <1>4, <1>10, <1>11, SharesTaken DEF OnlyShares
<1>13. /\ OnlyShares(t, e, a) /\ e.rexbal[a].matured = t.rexbal[a].matured
       /\ InTime(InBuckets(e, a))
       /\ Held(InBuckets(e, a)) = Held(InBuckets(t, a)) + (Savings(c, a) + x)
  <2>1. Savings(c, a) + x \in Nat
    BY <1>9
  <2>2. QED  BY <1>4, <1>12, <2>1, SharesSaved
<1>14. OnlyShares(c, e, a)
  <2>1. OnlyShares(c, m, a)
    BY <1>9, <1>10, OnlySharesTwice
  <2>2. OnlyShares(c, t, a)
    BY <2>1, <1>12, OnlySharesTwice
  <2>3. QED  BY <2>2, <1>13, OnlySharesTwice
<1>15. e.rexbal[a].rex = e.rexbal[a].matured + Held(InBuckets(e, a))
  <2>1. /\ t.rexbal[a].matured \in Nat /\ Held(InBuckets(t, a)) \in Nat
        /\ m.rexbal[a].matured \in Nat /\ Held(InBuckets(m, a)) \in Nat
        /\ w.rexbal[a].matured \in Nat /\ Held(InBuckets(w, a)) \in Nat
    BY <1>9, <1>10, <1>12, ShareFields
  <2>2. e.rexbal[a].rex = c.rexbal[a].rex
    BY <1>14 DEF OnlyShares
  <2>3. m.rexbal[a].matured + Held(InBuckets(m, a)) = c.rexbal[a].rex - Savings(c, a)
    BY <1>8, <1>9, <1>10, <2>1
  <2>4. t.rexbal[a].matured + Held(InBuckets(t, a)) = c.rexbal[a].rex - Savings(c, a) - x
    BY <1>8, <1>9, <1>12, <2>1, <2>3
  <2>5. PICK tm \in Int, th \in Int, r \in Int, v \in Int :
          /\ tm = t.rexbal[a].matured /\ th = Held(InBuckets(t, a)) /\ r = c.rexbal[a].rex
          /\ v = Savings(c, a)
    BY <1>8, <1>9, <2>1
  <2>6. tm + th = r - v - x
    BY <2>4, <2>5
  <2>7. Held(InBuckets(e, a)) = th + (v + x) /\ e.rexbal[a].matured = tm /\ e.rexbal[a].rex = r
    BY <1>13, <2>2, <2>5
  <2>8. r = tm + (th + (v + x))
    BY <2>6
  <2>9. QED  BY <2>7, <2>8
<1>16. InOrder(c, a) <= e.rexbal[a].matured
  BY <1>5, <1>13
<1>17. Sound(e, delband, 0)
  BY <1>7, <1>13, <1>14, <1>15, <1>16, SharesMovedSound
<1>18. Steps(Db, e)
  BY <1>3, <1>7, <1>14 DEF OnlyShares
<1>19. QED  BY <1>2, <1>5, <1>17, <1>18, ActionDone

(* mvfrsavings: from the savings into a bucket that matures last.          *)
LEMMA MvFrSavingsSound ==
  ASSUME RexInv, NEW a \in Accounts, NEW x \in Nat, MvFrSavings(a, x)
  PROVE  RexInv' /\ Steps(Db, Db')
<1> DEFINE W(d) == WithoutSavings(d, a)
           M(d) == Matured(W(d), a)
           T(d) == [M(d) EXCEPT !.rexbal[a].maturities = AddedBucket(@, MaturityDays, x)]
           F(d) == WithSavings(T(d), a, Savings(d, a) - x)
           G(d) == Settled(F(d), a, 0)
<1>1. PICK d \in RunRex(Db, RunMax) :
        a \in d.holders /\ x <= Savings(d, a) /\ Commit(G(d))
  BY DEF MvFrSavings
<1>2. delband' = delband /\ liquid' \in [Accounts -> Nat] /\ x \in Nat \ {0}
  BY DEF MvFrSavings, RexInv
<1>3. Sound(d, delband, 0) /\ \A f : f.pool = d.pool => Steps(Db, f)
  BY RunFirst, RexConstants
<1> DEFINE w == W(d)
           m == M(d)
           t == T(d)
           f == F(d)
           e == G(d)
<1>4. /\ w = WithoutSavings(d, a) /\ m = Matured(w, a)
      /\ t = [m EXCEPT !.rexbal[a].maturities = AddedBucket(@, MaturityDays, x)]
      /\ f = WithSavings(t, a, Savings(d, a) - x) /\ e = Settled(f, a, 0)
  OBVIOUS
<1>5. Commit(e)
  BY <1>1
<1> HIDE DEF W, M, T, F, G, w, m, t, f, e
<1>6. /\ d \in DbType /\ InTime(InBuckets(d, a))
      /\ d.rexbal[a].rex = d.rexbal[a].matured + Held(InBuckets(d, a))
      /\ d.rexbal[a].rex \in Nat /\ d.rexbal[a].matured \in Nat
      /\ Held(InBuckets(d, a)) \in Nat /\ InOrder(d, a) \in Nat
      /\ InOrder(d, a) <= d.rexbal[a].matured
  BY <1>3, OwnFacts
<1>7. /\ OnlyShares(d, w, a) /\ w.rexbal[a].matured = d.rexbal[a].matured
      /\ InTime(InBuckets(w, a)) /\ ~HasSavings(InBuckets(w, a)) /\ Savings(d, a) \in Nat
      /\ Held(InBuckets(w, a)) = Held(InBuckets(d, a)) - Savings(d, a) /\ w \in DbType
  BY <1>4, <1>6, SavingsTaken DEF OnlyShares
<1>8. /\ OnlyShares(w, m, a) /\ InTime(InBuckets(m, a)) /\ m \in DbType
      /\ m.rexbal[a].matured >= w.rexbal[a].matured
      /\ HasSavings(InBuckets(m, a)) => HasSavings(InBuckets(w, a))
      /\ m.rexbal[a].matured + Held(InBuckets(m, a))
            = w.rexbal[a].matured + Held(InBuckets(w, a))
  BY <1>4, <1>7, SharesMature DEF OnlyShares
<1>9. Until(InBuckets(m, a), MaturityDays) /\ MaturityDays \in 1..EndOfDays
  BY <1>7, <1>8, ShareFields, LastBucket, RexConstants
<1>10. /\ OnlyShares(m, t, a) /\ t.rexbal[a].matured = m.rexbal[a].matured
       /\ InTime(InBuckets(t, a)) /\ Held(InBuckets(t, a)) = Held(InBuckets(m, a)) + x
       /\ t \in DbType
  BY <1>4, <1>8, <1>9, SharesAdded DEF OnlyShares
<1>11. /\ OnlyShares(t, f, a) /\ f.rexbal[a].matured = t.rexbal[a].matured
       /\ InTime(InBuckets(f, a))
       /\ Held(InBuckets(f, a)) = Held(InBuckets(t, a)) + (Savings(d, a) - x)
  <2> DEFINE u == Savings(d, a) - x
  <2>1. u \in Nat
    BY <1>1, <1>7
  <2>2. f = WithSavings(t, a, u)
    BY <1>4
  <2> HIDE DEF u
  <2>3. /\ OnlyShares(t, f, a) /\ f.rexbal[a].matured = t.rexbal[a].matured
        /\ InTime(InBuckets(f, a)) /\ Held(InBuckets(f, a)) = Held(InBuckets(t, a)) + u
    BY <1>10, <2>1, <2>2, SharesSaved
  <2>4. QED  BY <2>3 DEF u
<1>12. OnlyShares(d, f, a)
  <2>1. OnlyShares(d, m, a)
    BY <1>7, <1>8, OnlySharesTwice
  <2>2. OnlyShares(d, t, a)
    BY <2>1, <1>10, OnlySharesTwice
  <2>3. QED  BY <2>2, <1>11, OnlySharesTwice
<1>13. /\ m.rexbal[a].matured \in Nat /\ Held(InBuckets(m, a)) \in Nat
       /\ w.rexbal[a].matured \in Nat /\ Held(InBuckets(w, a)) \in Nat
  BY <1>7, <1>8, ShareFields
<1>14. f.rexbal[a].rex = f.rexbal[a].matured + Held(InBuckets(f, a))
  <2>1. f.rexbal[a].rex = d.rexbal[a].rex
    BY <1>12 DEF OnlyShares
  <2>2. QED  BY <1>6, <1>7, <1>8, <1>10, <1>11, <1>13, <2>1
<1>15. InOrder(d, a) <= f.rexbal[a].matured
  BY <1>6, <1>7, <1>8, <1>10, <1>11, <1>13
<1>16. Sound(f, delband, 0)
  BY <1>1, <1>3, <1>11, <1>12, <1>14, <1>15, SharesMovedSound
<1>17. Sound(e, delband, 0 - 0) /\ OnlyDue(f, e, a)
  BY <1>4, <1>16, SettledSound
<1>18. Sound(e, delband, 0)
  BY <1>17
<1>19. Steps(Db, e)
  BY <1>3, <1>12, <1>17 DEF OnlyShares, OnlyDue
<1>20. QED  BY <1>2, <1>5, <1>18, <1>19, ActionDone

-----------------------------------------------------------------------------
(* An account without shares leaves rexbal, and with it its fund.          *)
ClosedDb(d, a, F) == [d EXCEPT !.funded = F, !.holders = @ \ {a}, !.rexbal[a] = NoShares]

(* ... unless a loan or an order needs it.                                 *)
LEMMA ClosedSound ==
  ASSUME NEW d, NEW b, NEW s, Sound(d, b, s), NEW a \in Accounts,
         a \in d.holders => d.rexbal[a].rex = 0, NEW F,
         F = d.funded \/ (F = d.funded \ {a} /\ MayDropFund(d, a)),
         NEW e, e = ClosedDb(d, a, F)
  PROVE  Sound(e, b, s) /\ e.pool = d.pool
<1> DEFINE R == [d.rexbal EXCEPT ![a] = NoShares]
           H == d.holders \ {a}
<1>1. /\ d \in DbType /\ b \in Stakes /\ s \in Int /\ d.rexbal \in [Accounts -> SharesType]
      /\ d.funded \subseteq Accounts /\ d.holders \subseteq Accounts
      /\ d.loans \in [1..MaxLoans -> AnyLoan]
  BY DbFields DEF Sound
<1>2. F \subseteq d.funded /\ F \in SUBSET Accounts
  BY <1>1
<1>3. NoShares \in SharesType /\ NoShares.rex = 0 /\ NoShares.matured = 0 /\ NoShares.maturities = <<>>
  <2> DEFINE z == <<>>
  <2>1. z \in Buckets
    BY NoBuckets
  <2>2. NoShares = [rex |-> 0, matured |-> 0, maturities |-> z]
    BY DEF NoShares
  <2> HIDE DEF z
  <2>3. NoShares \in SharesType /\ NoShares.rex = 0 /\ NoShares.matured = 0 /\ NoShares.maturities = z
    BY <2>1, <2>2 DEF SharesType
  <2>4. QED  BY <2>3 DEF z
<1>4. /\ d.rexbal[a].rex = 0 /\ ~d.order[a].open
  <2>1. /\ d.rexbal[a].rex = d.rexbal[a].matured + Held(InBuckets(d, a))
        /\ d.rexbal[a].matured \in Nat /\ Held(InBuckets(d, a)) \in Nat
        /\ InOrder(d, a) <= d.rexbal[a].matured
    BY OwnFacts
  <2>2. OwnShares(d, a)
    BY DEF Sound
  <2>3. d.rexbal[a].rex = 0
    BY <1>3, <2>2 DEF OwnShares
  <2>4. d.order[a].open => InOrder(d, a) > 0
    BY <2>2 DEF OwnShares, InOrder
  <2>5. InOrder(d, a) \in Nat
    BY OwnFacts
  <2>6. InOrder(d, a) = 0
    BY <2>1, <2>3, <2>5
  <2>7. QED  BY <2>3, <2>4, <2>6
<1>5. /\ R \in [Accounts -> SharesType] /\ R[a] = NoShares
      /\ \A x \in Accounts : x # a => R[x] = d.rexbal[x]
  <2> HIDE DEF SharesType
  <2>1. QED  BY <1>1, <1>3
<1>6. H \in SUBSET Accounts /\ e = [d EXCEPT !.funded = F, !.holders = H, !.rexbal = R]
  BY <1>1 DEF DbType, ClosedDb
<1>7. a \notin H /\ \A x \in Accounts : x # a => (x \in H <=> x \in d.holders)
  OBVIOUS
<1> HIDE DEF R, H
<1>8. /\ e \in DbType /\ e.funded = F /\ e.holders = H /\ e.rexbal = R
      /\ e.held = d.held /\ e.outside = d.outside /\ e.pool = d.pool /\ e.fund = d.fund
      /\ e.order = d.order /\ e.queue = d.queue /\ e.loans = d.loans /\ e.weight = d.weight
  BY <1>1, <1>2, <1>5, <1>6 DEF DbType
<1>9. Books(e, s)
  <2>1. Books(d, s)
    BY DEF Sound
  <2>2. \A x \in Accounts \ F : d.fund[x] = 0
    BY <2>1 DEF Books, MayDropFund
  <2>3. QED  BY <1>8, <2>1, <2>2 DEF Books
<1>10. Totals(e)
  <2>1. /\ AllShares(R) = AllShares(d.rexbal) - d.rexbal[a].rex + R[a].rex
        /\ AllShares(d.rexbal) \in Nat
    <3>1. \A x \in Accounts : x # a => R[x].rex = d.rexbal[x].rex
      BY <1>5
    <3>2. QED  BY <1>1, <1>5, <3>1, SharesChange
  <2>2. AllShares(R) = AllShares(d.rexbal)
    BY <1>3, <1>4, <1>5, <2>1
  <2>3. QED  BY <1>8, <2>2 DEF Sound, Totals
<1>11. ASSUME NEW x \in Accounts PROVE OwnShares(e, x)
  <2>1. OwnShares(d, x)
    BY DEF Sound
  <2>2. CASE x = a
    <3>1. e.rexbal[x] = NoShares
      BY <1>5, <1>8, <2>2
    <3>2. InBuckets(e, x) = <<>> /\ Held(<<>>) = 0 /\ InTime(<<>>) /\ InOrder(e, x) = 0
      BY <1>3, <1>4, <1>8, <2>2, <3>1, NoBuckets DEF InBuckets, InOrder
    <3>3. QED  BY <1>3, <1>4, <1>8, <2>2, <3>1, <3>2 DEF OwnShares
  <2>3. CASE x # a
    <3>1. e.rexbal[x] = d.rexbal[x] /\ (x \in e.holders <=> x \in d.holders)
      BY <1>5, <1>7, <1>8, <2>3
    <3>2. QED  BY <1>8, <2>1, <3>1 DEF OwnShares, InOrder, InBuckets
  <2>4. QED  BY <2>2, <2>3
<1>12. Queued(e) /\ Rented(e, b)
  BY <1>8 DEF Sound, Queued, Rented
<1>13. LoansKept(e)
  <2>1. ASSUME NEW n \in 1..MaxLoans, d.loans[n] # NoLoan PROVE d.loans[n].from \in F
    <3>1. d.loans[n].from \in d.funded
      BY <2>1 DEF Sound, LoansKept
    <3>2. QED  BY <3>1 DEF MayDropFund
  <2>2. QED  BY <1>8, <2>1 DEF Sound, LoansKept
<1>14. QED  BY <1>1, <1>8, <1>9, <1>10, <1>11, <1>12, <1>13 DEF Sound

(* closerex.                                                               *)
LEMMA CloseRexSound ==
  ASSUME RexInv, NEW a \in Accounts, CloseRex(a)
  PROVE  RexInv' /\ Steps(Db, Db')
<1> DEFINE C(d) == Settled(d, a, 0)
           E(d) == [C(d) EXCEPT !.funded = IF MayDropFund(C(d), a) THEN @ \ {a} ELSE @,
                                !.holders = @ \ {a}, !.rexbal[a] = NoShares]
<1>1. PICK d \in (IF pool.open THEN RunRex(Db, RunMax) ELSE {Db}) :
        /\ a \in C(d).holders => C(d).rexbal[a].rex = 0
        /\ Commit(E(d))
  BY DEF CloseRex
<1>2. delband' = delband /\ liquid' \in [Accounts -> Nat]
  BY DEF CloseRex, RexInv
<1>3. Sound(d, delband, 0) /\ \A f : f.pool = d.pool => Steps(Db, f)
  <2>1. CASE pool.open
    BY <1>1, <2>1, RunFirst, RexConstants
  <2>2. CASE ~pool.open
    <3>1. d = Db
      BY <1>1, <2>2
    <3>2. Sound(Db, delband, 0) /\ Db \in DbType
      BY DEF RexInv, Sound
    <3>3. QED  BY <3>1, <3>2, SamePool
  <2>3. QED  BY <2>1, <2>2
<1> DEFINE c == C(d)
           e == E(d)
           F == IF MayDropFund(c, a) THEN c.funded \ {a} ELSE c.funded
<1>4. /\ c = Settled(d, a, 0)
      /\ e = ClosedDb(c, a, F)
      /\ a \in c.holders => c.rexbal[a].rex = 0
      /\ Commit(e)
  BY <1>1 DEF ClosedDb
<1>5. F = c.funded \/ (F = c.funded \ {a} /\ MayDropFund(c, a))
  OBVIOUS
<1> HIDE DEF C, E, c, e, F
<1>6. Sound(c, delband, 0 - 0) /\ OnlyDue(d, c, a)
  BY <1>3, <1>4, SettledSound
<1>7. Sound(c, delband, 0) /\ c.pool = d.pool
  BY <1>6 DEF OnlyDue
<1>8. Sound(e, delband, 0) /\ e.pool = c.pool
  BY <1>4, <1>5, <1>7, ClosedSound
<1>9. Steps(Db, e)
  BY <1>3, <1>7, <1>8
<1>10. QED  BY <1>2, <1>4, <1>8, <1>9, ActionDone

(* Fees go to the pool at once (channel_to_rex).                           *)
LEMMA ChannelSound ==
  ASSUME RexInv, NEW x \in Nat, ChannelToRex(x)
  PROVE  RexInv' /\ Steps(Db, Db')
<1> DEFINE c == ChannelledTo(Db, x)
           y == Db.pool.namebid
           e == [c EXCEPT !.pool.namebid = y]
<1>1. /\ Sound(Db, delband, 0) /\ Db \in DbType /\ Db.pool \in PoolType /\ y \in Nat
      /\ Db.outside \in Nat
  BY DbFields DEF RexInv, Sound
<1>2. /\ x <= outside - pool.namebid /\ Commit(c) /\ delband' = delband
      /\ liquid' \in [Accounts -> Nat]
  BY DEF ChannelToRex, RexInv
<1>3. x + y <= Db.outside
  BY <1>1, <1>2 DEF Db
<1>4. e = c
  <2>1. CASE RexAvailable(Db)
    <3> DEFINE p == [Db.pool EXCEPT !.unlent = @ + x, !.lendable = @ + x]
               h == Db.held + x
               o == Db.outside - x
    <3>1. c = [Db EXCEPT !.pool = p, !.held = h, !.outside = o]
      BY <1>1, <2>1 DEF ChannelledTo, DbType, PoolType
    <3>2. [p EXCEPT !.namebid = y] = p
      <4> DEFINE u == Db.pool.unlent + x
                 l == Db.pool.lendable + x
      <4>1. p = [Db.pool EXCEPT !.unlent = u, !.lendable = l]
        OBVIOUS
      <4> HIDE DEF u, l, p
      <4>2. QED  BY <1>1, <4>1 DEF PoolType
    <3> HIDE DEF p, h, o, c
    <3>3. c.pool = p
      BY <1>1, <3>1 DEF DbType
    <3>4. e = [c EXCEPT !.pool = p]
      BY <3>2, <3>3
    <3> HIDE DEF e
    <3>5. QED  BY <1>1, <3>1, <3>4 DEF DbType
  <2>2. CASE ~RexAvailable(Db)
    <3>1. c = Db
      BY <2>2 DEF ChannelledTo
    <3>2. Db.pool = [Db.pool EXCEPT !.namebid = y]
      BY <1>1 DEF PoolType
    <3>3. e = [Db EXCEPT !.pool = Db.pool]
      BY <3>1, <3>2
    <3>4. QED  BY <1>1, <3>1, <3>3 DEF DbType
  <2>3. QED  BY <2>1, <2>2
<1>5. Sound(e, delband, 0) /\ Loaned(Db, e)
  BY <1>1, <1>3, ChannelledSound
<1> HIDE DEF c, e
<1>6. Commit(e) /\ e \in DbType
  BY <1>2, <1>4, <1>5 DEF Sound
<1>7. Steps(Db, e)
  <2>1. /\ e.pool.rex = Db.pool.rex /\ e.pool.lendable >= Db.pool.lendable
        /\ Db.queue # <<>> => e.pool.lent <= Db.pool.lent
    BY <1>5 DEF Loaned
  <2>2. /\ e.pool.lendable \in Nat /\ Db.pool.lendable \in Nat /\ Db.pool.rex \in Nat
    BY <1>1, <1>6, DbFields
  <2>3. \A u \in Nat, v \in Nat, z \in Nat : u >= v => u * z >= v * z
    OBVIOUS
  <2>4. Worth(Db, e)
    BY <2>1, <2>2, <2>3 DEF Worth
  <2>5. ASSUME NEW a \in Accounts, Db.order[a].open PROVE Db.queue # <<>>
    <3>1. \E i \in 1..Len(Db.queue) : Db.queue[i] = a
      BY <1>1, <2>5 DEF Sound, Queued
    <3>2. QED  BY <3>1
  <2>6. QED  BY <2>1, <2>4, <2>5 DEF Steps
<1>8. QED  BY <1>2, <1>5, <1>6, <1>7, ActionDone

(* The proceeds of a name auction are set aside for the pool               *)
(* (channel_namebid_to_rex).                                               *)
LEMMA ChannelNamebidSound ==
  ASSUME RexInv, NEW x \in Nat, ChannelNamebidToRex(x)
  PROVE  RexInv' /\ Steps(Db, Db')
<1> DEFINE y == Db.pool.namebid + x
           q == [Db.pool EXCEPT !.namebid = y]
           e == [Db EXCEPT !.pool = q]
<1>1. /\ Sound(Db, delband, 0) /\ Db \in DbType /\ Db.pool \in PoolType
      /\ Db.pool.namebid \in Nat /\ Db.outside \in Nat
  BY DbFields DEF RexInv, Sound
<1>2. /\ x <= outside - pool.namebid /\ Commit(e) /\ delband' = delband
      /\ liquid' \in [Accounts -> Nat]
  BY DEF ChannelNamebidToRex, RexInv
<1>3. y \in Nat /\ y <= Db.outside
  BY <1>1, <1>2 DEF Db
<1> HIDE DEF y
<1>4. /\ q \in PoolType /\ q.namebid = y /\ q.open = Db.pool.open /\ q.lent = Db.pool.lent
      /\ q.unlent = Db.pool.unlent /\ q.lendable = Db.pool.lendable /\ q.rex = Db.pool.rex
      /\ q.loan_num = Db.pool.loan_num
  BY <1>1, <1>3 DEF PoolType
<1> HIDE DEF q
<1>5. /\ e \in DbType /\ e.pool = q /\ e.held = Db.held /\ e.outside = Db.outside
      /\ e.fund = Db.fund /\ e.funded = Db.funded /\ e.rexbal = Db.rexbal
      /\ e.holders = Db.holders /\ e.order = Db.order /\ e.queue = Db.queue
      /\ e.loans = Db.loans /\ e.weight = Db.weight
  BY <1>1, <1>4 DEF DbType
<1> HIDE DEF e
<1>6. Books(e, 0) /\ Totals(e) /\ \A a \in Accounts : OwnShares(e, a)
  <2>1. Books(e, 0)
    BY <1>1, <1>3, <1>4, <1>5 DEF Sound, Books
  <2>2. Totals(e)
    BY <1>1, <1>4, <1>5 DEF Sound, Totals
  <2>3. \A a \in Accounts : OwnShares(e, a)
    BY <1>1, <1>5 DEF Sound, OwnShares, InOrder, InBuckets
  <2>4. QED  BY <2>1, <2>2, <2>3
<1>7. Queued(e) /\ LoansKept(e) /\ Rented(e, delband)
  BY <1>1, <1>4, <1>5 DEF Sound, Queued, LoansKept, Rented
<1>8. Sound(e, delband, 0)
  BY <1>1, <1>5, <1>6, <1>7 DEF Sound
<1>9. Steps(Db, e)
  <2>1. Worth(Db, Db) /\ Steps(Db, Db)
    BY <1>1, SamePool
  <2>2. QED  BY <1>4, <1>5, <2>1 DEF Steps, Worth
<1>10. QED  BY <1>2, <1>8, <1>9, ActionDone

-----------------------------------------------------------------------------
(* A new loan, of tokens the pool has unlent.                              *)
LoanMade(d, n, m) ==
  Weighted([Lent(d, m.payment, m.staked) EXCEPT !.pool.loan_num = n, !.loans[n] = m],
           m.receiver, m.kind, m.staked)

(* rent_rex takes its tokens from what is unlent, and only when no order   *)
(* waits.                                                                  *)
LEMMA LoanMadeSound ==
  ASSUME NEW d, NEW b, NEW s, Sound(d, b, s), NEW m \in LoanType, m.from \in d.funded,
         m.staked <= d.pool.unlent, d.pool.loan_num + 1 <= MaxLoans, RexAvailable(d),
         NEW n, n = d.pool.loan_num + 1, NEW e, e = LoanMade(d, n, m)
  PROVE  /\ Sound(e, b, s - (m.payment + m.balance))
         /\ e.pool.rex = d.pool.rex /\ e.pool.lendable = d.pool.lendable + m.payment
         /\ e.order = d.order
<1>1. /\ m.from \in Accounts /\ m.receiver \in Accounts /\ m.kind \in Kinds /\ m # NoLoan
      /\ m.payment \in Nat \ {0} /\ m.balance \in Nat /\ m.staked \in Nat \ {0}
  BY LoanFields
<1>2. /\ d \in DbType /\ s \in Int /\ d.pool \in PoolType
      /\ d.pool.lent \in Nat /\ d.pool.unlent \in Nat /\ d.pool.lendable \in Nat
      /\ d.pool.lendable = d.pool.unlent + d.pool.lent /\ d.pool.loan_num \in Nat
      /\ (d.pool.rex = 0) = (d.pool.lendable = 0) /\ d.pool.rex \in Nat
      /\ d.weight \in [Accounts -> [Kinds -> Nat]]
      /\ d.loans \in [1..MaxLoans -> AnyLoan]
  <2>1. /\ d \in DbType /\ d.pool \in PoolType
        /\ d.pool.lent \in Nat /\ d.pool.unlent \in Nat /\ d.pool.lendable \in Nat
        /\ d.weight \in [Accounts -> [Kinds -> Nat]] /\ d.pool.loan_num \in Nat
        /\ d.pool.rex \in Nat /\ d.loans \in [1..MaxLoans -> AnyLoan]
    BY DbFields DEF Sound
  <2>2. QED  BY <2>1 DEF Sound, Totals
<1>3. n \in 1..MaxLoans /\ d.loans[n] = NoLoan /\ n \in 0..MaxLoans
  <2>1. n \in 1..MaxLoans
    BY <1>2, RexConstants
  <2>2. ASSUME d.loans[n] # NoLoan PROVE FALSE
    <3>1. n <= d.pool.loan_num
      BY <2>1, <2>2 DEF Sound, LoansKept
    <3>2. QED  BY <1>2, <3>1
  <2>3. QED  BY <2>1, <2>2
<1> DEFINE u == d.pool.unlent - m.staked + m.payment
           v == d.pool.lent + m.staked
           t == d.pool.lendable + m.payment
           q == [d.pool EXCEPT !.unlent = u, !.lent = v, !.lendable = t, !.loan_num = n]
           w == d.weight[m.receiver][m.kind] + m.staked
<1>4. PICK r \in Accounts, k \in Kinds : r = m.receiver /\ k = m.kind
  BY <1>1
<1>5. d.weight[r][k] \in Nat
  BY <1>2
<1>6. u \in Nat /\ v \in Nat /\ t \in Nat /\ w \in Nat /\ t = u + v
  <2>1. w \in Nat
    BY <1>1, <1>4, <1>5
  <2>2. PICK x \in Nat, y \in Nat, z \in Nat, p \in Nat :
          /\ x = d.pool.unlent /\ y = d.pool.lent /\ z = m.staked /\ p = m.payment
          /\ d.pool.lendable = x + y
    BY <1>1, <1>2
  <2>3. z <= x
    BY <2>2
  <2>4. u = x - z + p /\ v = y + z /\ t = x + y + p
    BY <2>2
  <2>5. QED  BY <2>1, <2>2, <2>3, <2>4
<1>7. e = LoanDb(d, n, q, m, r, k, w)
  <2> DEFINE p == [d.pool EXCEPT !.unlent = u, !.lent = v, !.lendable = t]
             c == Lent(d, m.payment, m.staked)
             f == [c EXCEPT !.pool.loan_num = n, !.loans[n] = m]
  <2>1. c = [d EXCEPT !.pool = p]
    <3>1. c = [d EXCEPT !.pool = [d.pool EXCEPT !.unlent = d.pool.unlent - m.staked + m.payment,
                                     !.lent = d.pool.lent + m.staked,
                                     !.lendable = d.pool.unlent + d.pool.lent + m.payment]]
      BY <1>2 DEF Lent, DbType, PoolType
    <3>2. d.pool.unlent + d.pool.lent + m.payment = t
      BY <1>2
    <3>3. QED  BY <3>1, <3>2
  <2>2. [p EXCEPT !.loan_num = n] = q
    <3> HIDE DEF u, v, t
    <3>1. QED  BY <1>2 DEF PoolType
  <2> HIDE DEF c, p, q, u, v, t
  <2>3. c.pool = p /\ c.loans = d.loans
    BY <1>2, <2>1 DEF DbType
  <2>4. f = [c EXCEPT !.pool = q, !.loans = [d.loans EXCEPT ![n] = m]]
    <3>1. f = [c EXCEPT !.pool = [c.pool EXCEPT !.loan_num = n], !.loans = [c.loans EXCEPT ![n] = m]]
      BY <1>2, <2>1 DEF DbType
    <3>2. QED  BY <2>2, <2>3, <3>1
  <2>5. f = [d EXCEPT !.pool = q, !.loans = [d.loans EXCEPT ![n] = m]]
    BY <1>2, <2>1, <2>4 DEF DbType
  <2>6. e = [f EXCEPT !.weight[r][k] = @ + m.staked]
    <3>1. e = Weighted(f, m.receiver, m.kind, m.staked)
      BY DEF LoanMade, f, c
    <3> HIDE DEF f
    <3>2. QED  BY <1>4, <3>1 DEF Weighted
  <2> HIDE DEF f
  <2>7. f.weight = d.weight
    BY <1>2, <2>5 DEF DbType
  <2>8. e = [f EXCEPT !.weight = [d.weight EXCEPT ![r] = [d.weight[r] EXCEPT ![k] = d.weight[r][k] + m.staked]]]
    BY <2>6, <2>7
  <2>9. QED
    BY <1>2, <1>4, <2>5, <2>8 DEF LoanDb, DbType, w
<1>8. /\ q \in PoolType /\ q.unlent = u /\ q.lent = v /\ q.lendable = t
      /\ q.open = d.pool.open /\ q.rex = d.pool.rex /\ q.namebid = d.pool.namebid
      /\ q.loan_num = n
  <2> HIDE DEF u, v, t
  <2>1. QED  BY <1>2, <1>3, <1>6 DEF PoolType
<1>9. m \in AnyLoan
  BY DEF AnyLoan
<1> HIDE DEF q, w
<1>10. /\ e \in DbType /\ e.pool = q /\ e.loans[n] = m
       /\ \A o \in 1..MaxLoans : o # n => e.loans[o] = d.loans[o]
       /\ e.weight[r][k] = w
       /\ \A x \in Accounts, y \in Kinds :
            ~(x = r /\ y = k) => e.weight[x][y] = d.weight[x][y]
       /\ e.held = d.held /\ e.outside = d.outside /\ e.fund = d.fund
       /\ e.funded = d.funded /\ e.rexbal = d.rexbal /\ e.holders = d.holders
       /\ e.order = d.order /\ e.queue = d.queue
  <2>1. /\ d \in DbType /\ q \in PoolType /\ w \in Nat /\ n \in 1..MaxLoans
        /\ e = LoanDb(d, n, q, m, r, k, w) /\ m \in AnyLoan
    BY <1>2, <1>3, <1>6, <1>7, <1>8, <1>9
  <2> HIDE DEF AnyLoan, DbType, PoolType, u, v, t
  <2>2. QED  BY <2>1, LoanPut
<1>11. /\ BalanceOf(m) = m.balance /\ LentBy(m) = m.staked
       /\ \A x, y : RentedBy(m, x, y) = IF r = x /\ k = y THEN m.staked ELSE 0
       /\ BalanceOf(NoLoan) = 0 /\ LentBy(NoLoan) = 0 /\ \A x, y : RentedBy(NoLoan, x, y) = 0
  BY <1>1, <1>4 DEF BalanceOf, LentBy, RentedBy
<1>12. OnlyLoan(d, e, n)
  <2>1. ASSUME NEW x \in Accounts, NEW y \in Kinds
        PROVE  e.weight[x][y] = d.weight[x][y] - RentedBy(d.loans[n], x, y) + RentedBy(e.loans[n], x, y)
    <3>1. d.weight[x][y] \in Nat /\ RentedBy(d.loans[n], x, y) = 0
      BY <1>2, <1>3, <1>11
    <3>2. CASE x = r /\ y = k
      <4>1. RentedBy(e.loans[n], x, y) = m.staked
        BY <1>10, <1>11, <3>2
      <4>2. e.weight[x][y] = d.weight[x][y] + m.staked
        BY <1>4, <1>10, <3>2 DEF w
      <4>3. QED  BY <1>1, <3>1, <4>1, <4>2
    <3>3. CASE ~(x = r /\ y = k)
      <4>1. RentedBy(e.loans[n], x, y) = 0
        BY <1>10, <1>11, <3>3
      <4>2. QED  BY <1>10, <3>1, <3>3, <4>1
    <3>4. QED  BY <3>2, <3>3
  <2>2. e.pool.lent = d.pool.lent - LentBy(d.loans[n]) + LentBy(e.loans[n])
    BY <1>1, <1>2, <1>3, <1>8, <1>10, <1>11
  <2>3. e.pool.lendable = e.pool.unlent + e.pool.lent
    BY <1>6, <1>8, <1>10
  <2>4. (e.pool.lendable = 0) = (d.pool.lendable = 0)
    <3>1. d.pool.rex > 0
      BY DEF RexAvailable
    <3>2. d.pool.lendable > 0 /\ t > 0
      BY <1>1, <1>2, <3>1
    <3>3. QED  BY <1>2, <1>8, <1>10, <3>2
  <2>5. n <= e.pool.loan_num /\ e.loans[n].from \in d.funded /\ d.pool.loan_num <= e.pool.loan_num
    BY <1>2, <1>3, <1>8, <1>10
  <2>6. QED  BY <1>8, <1>10, <2>1, <2>2, <2>3, <2>4, <2>5 DEF OnlyLoan
<1>13. s - (m.payment + m.balance) = s + BalanceOf(d.loans[n]) - BalanceOf(e.loans[n])
                                      + d.pool.lendable - e.pool.lendable
  <2>1. BalanceOf(d.loans[n]) = 0 /\ BalanceOf(e.loans[n]) = m.balance /\ e.pool.lendable = t
    BY <1>3, <1>8, <1>10, <1>11
  <2>2. QED  BY <1>1, <1>2, <2>1
<1>14. Sound(e, b, s - (m.payment + m.balance))
  BY <1>3, <1>10, <1>12, <1>13, LoanReplaced
<1>15. QED  BY <1>8, <1>10, <1>14

(* rentcpu and rentnet: runrex first.                                      *)
LEMMA RentRexSound ==
  ASSUME RexInv, NEW from \in Accounts, NEW receiver \in Accounts, NEW kind \in Kinds,
         NEW payment \in Nat, NEW balance \in Nat,
         RentRex(from, receiver, kind, payment, balance)
  PROVE  RexInv' /\ Steps(Db, Db')
<1> DEFINE Made(d, r) ==
             [kind |-> kind, from |-> from, receiver |-> receiver, payment |-> payment,
              balance |-> balance, staked |-> r, days |-> LoanDays]
           x == payment + balance
<1>1. PICK d \in RunRex(Db, RunMax) :
        /\ d.pool.loan_num + 1 <= MaxLoans
        /\ RexLoansAvailable(d)
        /\ InFund(d, from, payment + balance)
        /\ \E r \in payment + 1..d.pool.unlent :
             Commit(Weighted(
                 [Lent(FromFund(d, from, payment + balance), payment, r) EXCEPT
                    !.pool.loan_num = d.pool.loan_num + 1,
                    !.loans[d.pool.loan_num + 1] = Made(d, r)],
                 receiver, kind, r))
  BY DEF RentRex
<1>2. PICK r \in payment + 1..d.pool.unlent :
        Commit(Weighted(
                 [Lent(FromFund(d, from, payment + balance), payment, r) EXCEPT
                    !.pool.loan_num = d.pool.loan_num + 1,
                    !.loans[d.pool.loan_num + 1] = Made(d, r)],
                 receiver, kind, r))
  BY <1>1
<1>3. delband' = delband /\ liquid' \in [Accounts -> Nat] /\ payment > 0
      /\ from \in Renters /\ receiver \in Receivers
  BY DEF RentRex, RexInv
<1>4. Sound(d, delband, 0) /\ d \in DbType /\ \A f : f.pool = d.pool => Steps(Db, f)
  BY RunFirst, RexConstants
<1> DEFINE c == FromFund(d, from, x)
           m == Made(d, r)
           n == c.pool.loan_num + 1
           e == LoanMade(c, n, m)
<1>5. x \in Int /\ InFund(d, from, x) /\ d.pool.unlent \in Nat
  BY <1>1, <1>4, DbFields
<1>6. Sound(c, delband, 0 + x) /\ OnlyFunds(d, c) /\ c.funded = d.funded
  <2> HIDE DEF x, c
  <2>1. c = FromFund(d, from, x)
    BY DEF c
  <2>2. QED  BY <1>4, <1>5, <2>1, FromFundSound
<1>7. /\ m \in LoanType /\ m.payment = payment /\ m.balance = balance /\ m.staked = r
      /\ m.from = from /\ m.receiver = receiver /\ m.kind = kind
  <2>1. LoanDays \in (0 - MaxOverdue)..LoanDays /\ r \in Nat \ {0} /\ payment \in Nat \ {0}
    BY <1>3, <1>5, RexConstants
  <2>2. QED  BY <1>3, <2>1 DEF LoanType
<1>8. Commit(e)
  <2>1. n = d.pool.loan_num + 1
    BY <1>6 DEF OnlyFunds
  <2> HIDE DEF c, n, m
  <2>2. Commit(Weighted([Lent(c, payment, r) EXCEPT !.pool.loan_num = n, !.loans[n] = m],
                        receiver, kind, r))
    BY <1>2, <2>1 DEF c, m
  <2>3. QED  BY <1>7, <2>2 DEF LoanMade
<1>9. /\ m.from \in c.funded /\ m.staked <= c.pool.unlent /\ c.pool.loan_num + 1 <= MaxLoans
      /\ RexAvailable(c)
  <2>1. from \in d.funded
    BY <1>5 DEF InFund
  <2>2. r <= d.pool.unlent
    BY <1>2, <1>5
  <2> HIDE DEF c
  <2>3. QED  BY <1>1, <1>6, <1>7, <2>1, <2>2 DEF OnlyFunds, RexLoansAvailable, RexAvailable
<1> HIDE DEF c, m, Made
<1>10. /\ Sound(e, delband, (0 + x) - (m.payment + m.balance))
       /\ e.pool.rex = c.pool.rex /\ e.pool.lendable = c.pool.lendable + m.payment
       /\ e.order = c.order
  <2> HIDE DEF n, e, x
  <2>1. n = c.pool.loan_num + 1 /\ e = LoanMade(c, n, m)
    BY DEF n, e
  <2>2. QED  BY <1>6, <1>7, <1>9, <2>1, LoanMadeSound
<1> HIDE DEF e
<1>11. (0 + x) - (m.payment + m.balance) = 0
  BY <1>7
<1>12. Sound(e, delband, 0)
  BY <1>10, <1>11
<1>13. Steps(Db, e)
  <2>1. Worth(Db, d)
    BY <1>4 DEF Steps, Worth
  <2>2. /\ e.pool.rex = d.pool.rex /\ e.pool.lendable = d.pool.lendable + payment
        /\ e.order = d.order
    BY <1>6, <1>7, <1>10 DEF OnlyFunds
  <2>3. d.pool.lendable \in Nat /\ d.pool.rex \in Nat /\ Db.pool.rex \in Nat /\ Db.pool.lendable \in Nat
    <3>1. Db \in DbType
      BY DEF RexInv, Sound
    <3>2. QED  BY <1>4, <3>1, DbFields
  <2>4. Worth(Db, e)
    <3>1. SUFFICES ASSUME Db.pool.rex > 0, e.pool.rex > 0
                   PROVE  e.pool.lendable * Db.pool.rex >= Db.pool.lendable * e.pool.rex
      BY DEF Worth
    <3>2. d.pool.lendable * Db.pool.rex >= Db.pool.lendable * d.pool.rex
      BY <2>1, <2>2, <3>1 DEF Worth
    <3>3. \A u \in Nat, p \in Nat, z \in Nat : (u + p) * z >= u * z
      OBVIOUS
    <3>4. \A u \in Nat, z \in Nat : u * z \in Nat
      OBVIOUS
    <3>5. e.pool.lendable * Db.pool.rex >= d.pool.lendable * Db.pool.rex
      BY <2>2, <2>3, <3>3
    <3>6. e.pool.lendable \in Nat
      BY <2>2, <2>3
    <3>7. PICK p \in Nat, y \in Nat, z \in Nat :
            /\ p = e.pool.lendable * Db.pool.rex /\ y = d.pool.lendable * Db.pool.rex
            /\ z = Db.pool.lendable * d.pool.rex
      BY <2>3, <3>4, <3>6
    <3>8. p >= y /\ y >= z
      BY <3>2, <3>5, <3>7
    <3>9. p >= z
      BY <3>8
    <3>10. QED  BY <2>2, <3>7, <3>9
  <2>5. \A a \in Accounts : ~e.order[a].open
    <3>1. d.queue = <<>> /\ Len(d.queue) = 0
      BY <1>1 DEF RexLoansAvailable
    <3>2. \A a \in Accounts : ~d.order[a].open
      <4>1. {d.queue[i] : i \in 1..Len(d.queue)} = {a \in Accounts : d.order[a].open}
        BY <1>4 DEF Sound, Queued
      <4>2. QED  BY <3>1, <4>1
    <3>3. QED  BY <2>2, <3>2
  <2>6. QED  BY <2>4, <2>5 DEF Steps
<1>14. QED  BY <1>3, <1>8, <1>12, <1>13, ActionDone

-----------------------------------------------------------------------------
(* The balance of a loan becomes x.                                        *)
LoanFunded(d, n, x) == [d EXCEPT !.loans[n].balance = x]

(* The difference is in nobody's books until the fund has it.              *)
LEMMA LoanFundedSound ==
  ASSUME NEW d, NEW b, NEW s, Sound(d, b, s), NEW n \in 1..MaxLoans, d.loans[n] # NoLoan,
         NEW x \in Nat, NEW e, e = LoanFunded(d, n, x)
  PROVE  /\ Sound(e, b, s + d.loans[n].balance - x)
         /\ e.pool = d.pool /\ e.fund = d.fund /\ e.funded = d.funded /\ e.held = d.held
<1> DEFINE l == d.loans[n]
           m == [l EXCEPT !.balance = x]
           L == [d.loans EXCEPT ![n] = m]
<1>1. /\ l \in LoanType /\ l.from \in d.funded /\ n <= d.pool.loan_num
      /\ BalanceOf(l) = l.balance /\ LentBy(l) = l.staked
  BY LoanKnown
<1>2. /\ l.from \in Accounts /\ l.balance \in Nat /\ l.staked \in Nat \ {0}
  BY <1>1, LoanFields
<1>3. /\ d \in DbType /\ s \in Int /\ d.pool.lent \in Nat /\ d.pool.lendable \in Nat
      /\ d.pool.loan_num \in Nat /\ d.pool.lendable = d.pool.unlent + d.pool.lent
      /\ d.weight \in [Accounts -> [Kinds -> Nat]]
      /\ d.loans \in [1..MaxLoans -> AnyLoan]
  <2>1. /\ d \in DbType /\ d.pool.lent \in Nat /\ d.pool.lendable \in Nat
        /\ d.pool.loan_num \in Nat /\ d.weight \in [Accounts -> [Kinds -> Nat]]
        /\ d.loans \in [1..MaxLoans -> AnyLoan]
    BY DbFields DEF Sound
  <2>2. QED  BY <2>1 DEF Sound, Totals
<1>4. /\ m \in LoanType /\ m.from = l.from /\ m.receiver = l.receiver /\ m.kind = l.kind
      /\ m.staked = l.staked /\ m.balance = x
  <2> HIDE DEF l
  <2>1. QED  BY <1>1 DEF LoanType
<1>5. m # NoLoan /\ m \in AnyLoan
  BY <1>4, LoanFields DEF AnyLoan
<1>6. e = [d EXCEPT !.loans = L]
  BY <1>3 DEF LoanFunded, DbType
<1>7. /\ L \in [1..MaxLoans -> AnyLoan] /\ L[n] = m
      /\ \A o \in 1..MaxLoans : o # n => L[o] = d.loans[o]
  <2> HIDE DEF AnyLoan, m
  <2>1. QED  BY <1>3, <1>5
<1> HIDE DEF L, m
<1>8. /\ e \in DbType /\ e.loans = L
      /\ e.held = d.held /\ e.outside = d.outside /\ e.pool = d.pool /\ e.fund = d.fund
      /\ e.funded = d.funded /\ e.rexbal = d.rexbal /\ e.holders = d.holders
      /\ e.order = d.order /\ e.queue = d.queue /\ e.weight = d.weight
  <2> HIDE DEF AnyLoan
  <2>1. QED  BY <1>3, <1>6, <1>7 DEF DbType
<1>9. /\ BalanceOf(m) = x /\ LentBy(m) = l.staked
      /\ \A r, k : RentedBy(m, r, k) = RentedBy(l, r, k)
  <2>1. l # NoLoan
    OBVIOUS
  <2> HIDE DEF l
  <2>2. QED  BY <1>4, <1>5, <2>1 DEF BalanceOf, LentBy, RentedBy
<1>10. OnlyLoan(d, e, n)
  <2>1. ASSUME NEW r \in Accounts, NEW k \in Kinds
        PROVE  e.weight[r][k] = d.weight[r][k] - RentedBy(d.loans[n], r, k) + RentedBy(e.loans[n], r, k)
    <3>1. RentedBy(l, r, k) \in Nat
      <4>1. l \in AnyLoan
        BY <1>3
      <4> HIDE DEF AnyLoan, l
      <4>2. QED  BY <4>1, LoanParts
    <3>2. d.weight[r][k] \in Nat
      BY <1>3
    <3>3. e.weight[r][k] = d.weight[r][k] - RentedBy(l, r, k) + RentedBy(m, r, k)
      BY <1>8, <1>9, <3>1, <3>2
    <3>4. QED  BY <1>7, <1>8, <3>3
  <2>2. e.pool.lent = d.pool.lent - LentBy(d.loans[n]) + LentBy(e.loans[n])
    <3>1. e.pool.lent = d.pool.lent - LentBy(l) + LentBy(m)
      BY <1>1, <1>2, <1>3, <1>8, <1>9
    <3>2. QED  BY <1>7, <1>8, <3>1
  <2>3. n <= e.pool.loan_num /\ e.loans[n].from \in d.funded
    BY <1>1, <1>4, <1>7, <1>8
  <2>4. QED  BY <1>3, <1>7, <1>8, <2>1, <2>2, <2>3 DEF OnlyLoan
<1>11. s + d.loans[n].balance - x = s + BalanceOf(d.loans[n]) - BalanceOf(e.loans[n])
                                    + d.pool.lendable - e.pool.lendable
  <2>1. s + l.balance - x = s + BalanceOf(l) - BalanceOf(m) + d.pool.lendable - e.pool.lendable
    BY <1>1, <1>2, <1>3, <1>8, <1>9
  <2>2. QED  BY <1>7, <1>8, <2>1
<1>12. Sound(e, b, s + d.loans[n].balance - x)
  BY <1>8, <1>10, <1>11, LoanReplaced
<1>13. QED  BY <1>8, <1>12

(* fundcpuloan and fundnetloan.                                            *)
LEMMA FundLoanSound ==
  ASSUME RexInv, NEW a \in Accounts, NEW n \in 1..MaxLoans, NEW x \in Nat, FundLoan(a, n, x)
  PROVE  RexInv' /\ Steps(Db, Db')
<1> DEFINE c == FromFund(Db, a, x)
           y == c.loans[n].balance + x
           e == LoanFunded(c, n, y)
<1>1. Sound(Db, delband, 0) /\ Db \in DbType /\ Db.loans = loans
  BY DEF RexInv, Sound, Db
<1>2. InFund(Db, a, x) /\ loans[n] # NoLoan /\ delband' = delband /\ liquid' \in [Accounts -> Nat]
  BY DEF FundLoan, RunsStill, RexInv
<1>3. Commit(e)
  <2>1. Commit([c EXCEPT !.loans[n].balance = @ + x])
    BY DEF FundLoan
  <2> HIDE DEF c
  <2>2. [c EXCEPT !.loans[n].balance = @ + x] = LoanFunded(c, n, y)
    BY DEF LoanFunded
  <2>3. QED  BY <2>1, <2>2
<1>4. Sound(c, delband, 0 + x) /\ OnlyFunds(Db, c)
  <2> HIDE DEF c
  <2>1. c = FromFund(Db, a, x) /\ x \in Int
    BY DEF c
  <2>2. QED  BY <1>1, <1>2, <2>1, FromFundSound
<1> HIDE DEF c
<1>5. c.loans[n] # NoLoan /\ c.loans[n].balance \in Nat /\ y \in Nat
  <2>1. c.loans[n] # NoLoan
    BY <1>1, <1>2, <1>4 DEF OnlyFunds
  <2>2. c.loans[n] \in LoanType
    BY <1>4, <2>1, LoanKnown
  <2>3. QED  BY <2>1, <2>2, LoanFields
<1>6. Sound(e, delband, (0 + x) + c.loans[n].balance - y) /\ e.pool = c.pool
  <2> HIDE DEF y, e
  <2>1. e = LoanFunded(c, n, y)
    BY DEF e
  <2>2. QED  BY <1>4, <1>5, <2>1, LoanFundedSound
<1>7. (0 + x) + c.loans[n].balance - y = 0
  BY <1>5
<1> HIDE DEF e, y
<1>8. Sound(e, delband, 0) /\ e.pool = Db.pool
  BY <1>4, <1>6, <1>7 DEF OnlyFunds
<1>9. Steps(Db, e)
  BY <1>1, <1>8, SamePool
<1>10. QED  BY <1>2, <1>3, <1>8, <1>9, ActionDone

(* defcpuloan and defnetloan.                                              *)
LEMMA DefundLoanSound ==
  ASSUME RexInv, NEW a \in Accounts, NEW n \in 1..MaxLoans, NEW x \in Nat, DefundLoan(a, n, x)
  PROVE  RexInv' /\ Steps(Db, Db')
<1> DEFINE y == Db.loans[n].balance - x
           c == LoanFunded(Db, n, y)
           e == ToFund(c, a, x)
<1>1. Sound(Db, delband, 0) /\ Db \in DbType /\ Db.loans = loans
  BY DEF RexInv, Sound, Db
<1>2. /\ loans[n] # NoLoan /\ x <= loans[n].balance /\ delband' = delband
      /\ liquid' \in [Accounts -> Nat]
  BY DEF DefundLoan, RunsStill, RexInv
<1>3. Commit(e)
  BY DEF DefundLoan, LoanFunded
<1>4. Db.loans[n] # NoLoan /\ Db.loans[n].balance \in Nat /\ y \in Nat
  <2>1. Db.loans[n] # NoLoan
    BY <1>1, <1>2
  <2>2. Db.loans[n] \in LoanType
    BY <1>1, <2>1, LoanKnown
  <2>3. Db.loans[n].balance \in Nat /\ x <= Db.loans[n].balance
    BY <1>1, <1>2, <2>2, LoanFields
  <2>4. QED  BY <2>1, <2>3
<1>5. Sound(c, delband, 0 + Db.loans[n].balance - y) /\ c.pool = Db.pool
  <2> HIDE DEF y, c
  <2>1. c = LoanFunded(Db, n, y)
    BY DEF c
  <2>2. QED  BY <1>1, <1>4, <2>1, LoanFundedSound
<1>6. 0 + Db.loans[n].balance - y = x
  BY <1>4
<1> HIDE DEF c, y
<1>7. Sound(c, delband, x)
  BY <1>5, <1>6
<1>8. Sound(e, delband, x - x) /\ OnlyFunds(c, e)
  BY <1>7, ToFundSound
<1> HIDE DEF e
<1>9. Sound(e, delband, 0) /\ e.pool = Db.pool
  <2>1. x - x = 0
    OBVIOUS
  <2>2. QED  BY <1>5, <1>8, <2>1 DEF OnlyFunds
<1>10. Steps(Db, e)
  BY <1>1, <1>9, SamePool
<1>11. QED  BY <1>2, <1>3, <1>9, <1>10, ActionDone

-----------------------------------------------------------------------------
(* A stake that is x less.                                                 *)
StakeLess(b, o, r, k, x) == [b EXCEPT ![o][r][k] = @ - x]

(* A stake and the weight that comes of it go together.                    *)
LEMMA UnstakedSound ==
  ASSUME NEW d, NEW b, NEW s, Sound(d, b, s), NEW o \in Accounts, NEW r \in Accounts,
         NEW k \in Kinds, NEW x \in Nat, x <= b[o][r][k],
         NEW c, c = StakeLess(b, o, r, k, x), NEW e, e = Weighted(d, r, k, 0 - x)
  PROVE  /\ Sound(e, c, s)
         /\ e.pool = d.pool /\ e.queue = d.queue /\ e.order = d.order
         /\ \A j \in Kinds : j # k => c[o][r][j] = b[o][r][j]
<1>1. /\ d \in DbType /\ b \in Stakes /\ s \in Int /\ d.weight \in [Accounts -> [Kinds -> Nat]]
      /\ d.loans \in [1..MaxLoans -> AnyLoan]
  BY DbFields DEF Sound
<1> DEFINE y == b[o][r][k] - x
           w == d.weight[r][k] + (0 - x)
           W == [d.weight EXCEPT ![r][k] = w]
<1>2. y \in Nat /\ b[o][r][k] \in Nat /\ c = [b EXCEPT ![o][r][k] = y]
  BY <1>1 DEF Stakes, StakeLess
<1>3. d.weight[r][k] \in Nat /\ x <= d.weight[r][k]
  <2>1. d.weight[r][k] = StakedFor(b, r, k) + LoansRented(d.loans, r, k)
    BY DEF Sound, Rented
  <2>2. StakedFor(b, r, k) \in Nat /\ b[o][r][k] <= StakedFor(b, r, k)
    BY <1>1, StakeSums
  <2>3. LoansRented(d.loans, r, k) \in Nat
    BY <1>1, LoanSums
  <2>4. QED  BY <1>1, <1>2, <2>1, <2>2, <2>3
<1>4. w \in Nat
  BY <1>3
<1> HIDE DEF y, w
<1>5. /\ c \in Stakes /\ c[o][r][k] = y
      /\ \A p \in Accounts, q \in Accounts, j \in Kinds :
           ~(p = o /\ q = r /\ j = k) => c[p][q][j] = b[p][q][j]
  <2> DEFINE given == [b[o][r] EXCEPT ![k] = y]
             own == [b[o] EXCEPT ![r] = given]
  <2>1. c = [b EXCEPT ![o] = own]
    BY <1>2
  <2>2. b[o] \in [Accounts -> [Kinds -> Nat]] /\ b[o][r] \in [Kinds -> Nat]
    BY <1>1 DEF Stakes
  <2>3. /\ given \in [Kinds -> Nat] /\ given[k] = y
        /\ \A j \in Kinds : j # k => given[j] = b[o][r][j]
    BY <1>2, <2>2
  <2> HIDE DEF given
  <2>4. /\ own \in [Accounts -> [Kinds -> Nat]] /\ own[r] = given
        /\ \A q \in Accounts : q # r => own[q] = b[o][q]
    BY <2>2, <2>3
  <2> HIDE DEF own
  <2>5. /\ c \in Stakes /\ c[o] = own
        /\ \A p \in Accounts : p # o => c[p] = b[p]
    BY <1>1, <2>1, <2>4 DEF Stakes
  <2>6. ASSUME NEW p \in Accounts, NEW q \in Accounts, NEW j \in Kinds,
               ~(p = o /\ q = r /\ j = k)
        PROVE  c[p][q][j] = b[p][q][j]
    <3>1. CASE p # o
      BY <2>5, <3>1
    <3>2. CASE p = o /\ q # r
      BY <2>4, <2>5, <3>2
    <3>3. CASE p = o /\ q = r /\ j # k
      BY <2>3, <2>4, <2>5, <3>3
    <3>4. QED  BY <2>6, <3>1, <3>2, <3>3
  <2>7. QED  BY <2>3, <2>4, <2>5, <2>6
<1>6. /\ W \in [Accounts -> [Kinds -> Nat]] /\ W[r][k] = w
      /\ \A q \in Accounts, j \in Kinds : ~(q = r /\ j = k) => W[q][j] = d.weight[q][j]
  BY <1>1, <1>4
<1>7. e = [d EXCEPT !.weight = W]
  BY <1>1 DEF Weighted, w, DbType
<1> HIDE DEF W
<1>8. /\ e \in DbType /\ e.weight = W
      /\ e.held = d.held /\ e.outside = d.outside /\ e.pool = d.pool /\ e.fund = d.fund
      /\ e.funded = d.funded /\ e.rexbal = d.rexbal /\ e.holders = d.holders
      /\ e.order = d.order /\ e.queue = d.queue /\ e.loans = d.loans
  BY <1>1, <1>6, <1>7 DEF DbType
<1>9. Rented(e, c)
  <2>1. SUFFICES ASSUME NEW q \in Accounts, NEW j \in Kinds
                 PROVE  e.weight[q][j] = StakedFor(c, q, j) + LoansRented(e.loans, q, j)
    BY DEF Rented
  <2> DEFINE f == [p \in Accounts |-> b[p][q][j]]
             g == [p \in Accounts |-> c[p][q][j]]
  <2>2. d.weight[q][j] = StakedFor(b, q, j) + LoansRented(d.loans, q, j)
    BY DEF Sound, Rented
  <2>3. LoansRented(d.loans, q, j) \in Nat /\ StakedFor(b, q, j) \in Nat
    BY <1>1, LoanSums, StakeSums
  <2>4. CASE q = r /\ j = k
    <3>1. /\ f \in [Accounts -> Nat] /\ g \in [Accounts -> Nat]
          /\ \A p \in Accounts : p # o => g[p] = f[p]
          /\ f[o] = b[o][r][k] /\ g[o] = y
      BY <1>1, <1>5, <2>4 DEF Stakes
    <3>2. AccountTotal(g, N) = AccountTotal(f, N) - f[o] + g[o] /\ AccountTotal(f, N) \in Nat
      <4> HIDE DEF f, g
      <4>1. QED  BY <3>1, FundChange
    <3>3. StakedFor(c, q, j) = StakedFor(b, q, j) - b[o][r][k] + y
      BY <3>1, <3>2 DEF StakedFor
    <3>4. StakedFor(c, q, j) = StakedFor(b, q, j) - x
      BY <1>2, <2>3, <3>3 DEF y
    <3>5. e.weight[q][j] = d.weight[q][j] - x
      BY <1>3, <1>6, <1>8, <2>4 DEF w
    <3>6. QED  BY <1>8, <2>2, <2>3, <3>4, <3>5
  <2>5. CASE ~(q = r /\ j = k)
    <3>1. \A p \in 1..N : f[p] \in Int /\ g[p] = f[p]
      <4>1. ASSUME NEW p \in Accounts PROVE f[p] \in Int /\ g[p] = f[p]
        <5>1. c[p][q][j] = b[p][q][j]
          BY <1>5, <2>5
        <5>2. b[p][q][j] \in Nat
          BY <1>1 DEF Stakes
        <5>3. QED  BY <5>1, <5>2
      <4>2. QED  BY <4>1 DEF Accounts
    <3>2. AccountTotal(g, N) = AccountTotal(f, N)
      <4> HIDE DEF f, g
      <4>1. N \in Nat
        BY RexConstants
      <4>2. QED  BY <3>1, <4>1, AccountTotalEqual
    <3>3. StakedFor(c, q, j) = StakedFor(b, q, j)
      BY <3>2 DEF StakedFor
    <3>4. e.weight[q][j] = d.weight[q][j]
      BY <1>6, <1>8, <2>5
    <3>5. QED  BY <1>8, <2>2, <3>3, <3>4
  <2>6. QED  BY <2>4, <2>5
<1>10. /\ Books(e, s) /\ Totals(e) /\ \A a \in Accounts : OwnShares(e, a)
  BY <1>8 DEF Sound, Books, Totals, OwnShares, InOrder, InBuckets
<1>11. Queued(e) /\ LoansKept(e)
  BY <1>8 DEF Sound, Queued, LoansKept
<1>12. QED  BY <1>1, <1>5, <1>8, <1>9, <1>10, <1>11 DEF Sound

(* unstaketorex: the stakes and the limits go down, and what they held     *)
(* buys shares.                                                            *)
LEMMA UnstakeToRexSound ==
  ASSUME RexInv, NEW a \in Accounts, NEW r \in Accounts, NEW net \in Nat, NEW cpu \in Nat,
         UnstakeToRex(a, r, net, cpu)
  PROVE  RexInv' /\ Steps(Db, Db')
<1> DEFINE x == net + cpu
           c1 == [Db EXCEPT !.held = Db.held + x]
           c2 == Weighted(c1, r, "net", 0 - net)
           c3 == Weighted(c2, r, "cpu", 0 - cpu)
           b2 == StakeLess(delband, a, r, "net", net)
           b3 == StakeLess(b2, a, r, "cpu", cpu)
           f == Bought(c3, a, x)
<1>1. /\ Sound(Db, delband, 0) /\ liquid \in [Accounts -> Nat] /\ Db \in DbType
      /\ delband \in Stakes /\ Db.held \in Nat
  BY DbFields DEF RexInv, Sound
<1>2. /\ x > 0 /\ net <= delband[a][r]["net"] /\ cpu <= delband[a][r]["cpu"]
      /\ MayBuy(Db) /\ liquid' = liquid
      /\ delband' = [delband EXCEPT ![a][r]["net"] = @ - net, ![a][r]["cpu"] = @ - cpu]
      /\ \E d \in RunRex(f, RunMax) : Commit(Settled(d, a, 0))
  BY DEF UnstakeToRex
<1>3. delband' = b3
  BY <1>1, <1>2 DEF StakeLess, Stakes, Kinds
<1>4. x \in Nat \ {0} /\ "net" \in Kinds /\ "cpu" \in Kinds
  BY <1>2 DEF Kinds
<1>5. Sound(c1, delband, 0 + x) /\ c1.pool = Db.pool /\ c1.queue = Db.queue /\ c1.order = Db.order
  <2>1. c1.queue = Db.queue /\ c1.order = Db.order
    BY <1>1 DEF DbType
  <2> HIDE DEF c1, x
  <2>2. c1 = [Db EXCEPT !.held = Db.held + x] /\ Db.held + x \in Nat /\ x \in Int
    BY <1>1, <1>4 DEF c1
  <2>3. QED  BY <1>1, <2>1, <2>2, HeldMoved
<1>6. 0 + x = x /\ x - x = 0
  OBVIOUS
<1> HIDE DEF c1, x
<1>7. /\ Sound(c2, b2, x) /\ c2.pool = c1.pool /\ c2.queue = c1.queue /\ c2.order = c1.order
      /\ b2[a][r]["cpu"] = delband[a][r]["cpu"]
  <2>1. PICK k \in Kinds : k = "net"
    BY <1>4
  <2> HIDE DEF c2, b2
  <2>2. c2 = Weighted(c1, r, k, 0 - net) /\ b2 = StakeLess(delband, a, r, k, net)
        /\ net <= delband[a][r][k] /\ Sound(c1, delband, x)
    BY <1>2, <1>5, <1>6, <2>1 DEF c2, b2
  <2>3. /\ Sound(c2, b2, x) /\ c2.pool = c1.pool /\ c2.queue = c1.queue /\ c2.order = c1.order
        /\ \A j \in Kinds : j # k => b2[a][r][j] = delband[a][r][j]
    BY <2>2, UnstakedSound
  <2>4. QED  BY <1>4, <2>1, <2>3
<1> HIDE DEF c2, b2
<1>8. Sound(c3, b3, x) /\ c3.pool = c2.pool /\ c3.queue = c2.queue /\ c3.order = c2.order
  <2>1. PICK k \in Kinds : k = "cpu"
    BY <1>4
  <2> HIDE DEF c3, b3
  <2>2. c3 = Weighted(c2, r, k, 0 - cpu) /\ b3 = StakeLess(b2, a, r, k, cpu)
        /\ cpu <= b2[a][r][k]
    BY <1>2, <1>7, <2>1 DEF c3, b3
  <2>3. QED  BY <1>7, <2>2, UnstakedSound
<1>9. /\ c3.pool = Db.pool /\ c3.queue = Db.queue /\ c3.order = Db.order /\ MayBuy(c3)
  <2>1. c3.pool = Db.pool /\ c3.queue = Db.queue /\ c3.order = Db.order
    BY <1>5, <1>7, <1>8
  <2>2. QED  BY <1>2, <2>1 DEF MayBuy, RexAvailable
<1> HIDE DEF c3, b3
<1>10. /\ Sound(f, b3, x - x) /\ Worth(c3, f) /\ f.pool.lent = c3.pool.lent
       /\ f.queue = c3.queue /\ f.order = c3.order /\ f.pool.open
  BY <1>4, <1>8, <1>9, BoughtSound
<1> HIDE DEF f
<1>11. Sound(f, b3, 0) /\ f \in DbType
  BY <1>6, <1>10 DEF Sound
<1>12. /\ Worth(Db, f) /\ f.pool.lent = Db.pool.lent /\ f.queue = Db.queue /\ f.order = Db.order
  BY <1>9, <1>10 DEF Worth
<1>13. PICK d \in RunRex(f, RunMax) : Commit(Settled(d, a, 0))
  BY <1>2
<1>14. Sound(d, b3, 0) /\ Ran(f, d) /\ d \in DbType
  BY <1>10, <1>11, RexConstants, RunRexSound DEF Sound
<1> DEFINE e == Settled(d, a, 0)
<1>15. Sound(e, b3, 0 - 0) /\ OnlyDue(d, e, a)
  BY <1>14, SettledSound
<1>16. Sound(e, b3, 0) /\ e.pool = d.pool /\ Commit(e)
  BY <1>13, <1>15 DEF OnlyDue
<1> HIDE DEF e
<1>17. Steps(Db, e)
  BY <1>1, <1>11, <1>12, <1>14, <1>16, RanBetween
<1>18. liquid' \in [Accounts -> Nat]
  BY <1>1, <1>2
<1>19. QED  BY <1>3, <1>16, <1>17, <1>18, ActionDone

-----------------------------------------------------------------------------
(* The buckets of all accounts a day later.                                *)
AllDayLater(R) == [a \in Accounts |-> [R[a] EXCEPT !.maturities = DayLater(@)]]

(* A day later the same shares are there.                                  *)
LEMMA SharesLater ==
  ASSUME NEW R \in [Accounts -> SharesType], NEW S,
         S = AllDayLater(R),
         \A a \in Accounts : InTime(R[a].maturities)
  PROVE  /\ S \in [Accounts -> SharesType]
         /\ \A a \in Accounts : /\ S[a].rex = R[a].rex /\ S[a].matured = R[a].matured
                                /\ InTime(S[a].maturities)
                                /\ Held(S[a].maturities) = Held(R[a].maturities)
                                /\ R[a] = NoShares => S[a] = NoShares
         /\ AllShares(S) = AllShares(R)
<1>1. ASSUME NEW a \in Accounts
      PROVE  /\ S[a] \in SharesType
             /\ S[a].rex = R[a].rex /\ S[a].matured = R[a].matured
             /\ InTime(S[a].maturities) /\ Held(S[a].maturities) = Held(R[a].maturities)
             /\ R[a] = NoShares => S[a] = NoShares
  <2> DEFINE m == R[a].maturities
             k == DayLater(m)
  <2>1. R[a] \in SharesType /\ m \in Buckets /\ InTime(m)
    BY DEF SharesType
  <2>2. k \in Buckets /\ InTime(k) /\ Held(k) = Held(m)
    BY <2>1, DayLaterHeld
  <2>3. S[a] = [R[a] EXCEPT !.maturities = k]
    BY DEF AllDayLater
  <2> HIDE DEF k
  <2>4. /\ S[a] \in SharesType /\ S[a].maturities = k
        /\ S[a].rex = R[a].rex /\ S[a].matured = R[a].matured
    BY <2>1, <2>2, <2>3 DEF SharesType
  <2>5. ASSUME R[a] = NoShares PROVE S[a] = NoShares
    <3> DEFINE z == <<>>
    <3>1. m = z /\ Len(z) = 0
      BY <2>5 DEF NoShares
    <3>2. k = z
      BY <3>1 DEF k, DayLater
    <3>3. NoShares = [rex |-> 0, matured |-> 0, maturities |-> z]
      BY DEF NoShares
    <3> HIDE DEF z, m
    <3>4. S[a] = [NoShares EXCEPT !.maturities = z]
      BY <2>3, <2>5, <3>2
    <3>5. QED  BY <3>3, <3>4
  <2>6. QED  BY <2>2, <2>4, <2>5
<1>2. S \in [Accounts -> SharesType]
  <2>1. S = [a \in Accounts |-> S[a]]
    BY DEF AllDayLater
  <2> HIDE DEF SharesType
  <2>2. QED  BY <1>1, <2>1, Zenon
<1>3. AllShares(S) = AllShares(R)
  <2> DEFINE f == [a \in Accounts |-> R[a].rex]
             g == [a \in Accounts |-> S[a].rex]
  <2>1. \A a \in Accounts : R[a].rex \in Int
    BY DEF SharesType
  <2>2. N \in Nat /\ \A a \in 1..N : f[a] \in Int /\ g[a] = f[a]
    BY <1>1, <2>1, RexConstants DEF Accounts
  <2>3. AccountTotal(g, N) = AccountTotal(f, N)
    <3> HIDE DEF f, g
    <3>1. QED  BY <2>2, AccountTotalEqual
  <2>4. QED  BY <2>3 DEF AllShares
<1>4. QED  BY <1>1, <1>2, <1>3

(* Loans that differ in their days alone.                                  *)
LEMMA LoansLater ==
  ASSUME NEW L \in [1..MaxLoans -> AnyLoan], NEW K \in [1..MaxLoans -> AnyLoan],
         \A n \in 1..MaxLoans :
           /\ (K[n] = NoLoan) = (L[n] = NoLoan)
           /\ L[n] # NoLoan => /\ K[n].balance = L[n].balance /\ K[n].staked = L[n].staked
                               /\ K[n].receiver = L[n].receiver /\ K[n].kind = L[n].kind
  PROVE  /\ LoanBalances(K) = LoanBalances(L) /\ LoansLent(K) = LoansLent(L)
         /\ \A r, k : LoansRented(K, r, k) = LoansRented(L, r, k)
<1>1. MaxLoans \in Nat
  BY RexConstants
<1>2. ASSUME NEW n \in 1..MaxLoans
      PROVE  /\ BalanceOf(K[n]) = BalanceOf(L[n]) /\ LentBy(K[n]) = LentBy(L[n])
             /\ \A r, k : RentedBy(K[n], r, k) = RentedBy(L[n], r, k)
  <2> HIDE DEF AnyLoan
  <2>1. QED  BY DEF BalanceOf, LentBy, RentedBy
<1>3. ASSUME NEW r, NEW k, NEW n \in 1..MaxLoans
      PROVE  BalanceOf(L[n]) \in Int /\ LentBy(L[n]) \in Int /\ RentedBy(L[n], r, k) \in Int
  <2> HIDE DEF AnyLoan
  <2>1. L[n] \in AnyLoan
    OBVIOUS
  <2>2. BalanceOf(L[n]) \in Nat /\ LentBy(L[n]) \in Nat /\ RentedBy(L[n], r, k) \in Nat
    BY <2>1, LoanParts
  <2>3. QED  BY <2>2
<1>4. LoanBalances(K) = LoanBalances(L)
  <2> DEFINE f == [n \in 1..MaxLoans |-> BalanceOf(L[n])]
             g == [n \in 1..MaxLoans |-> BalanceOf(K[n])]
  <2>1. \A n \in 1..MaxLoans : f[n] \in Int /\ g[n] = f[n]
    BY <1>2, <1>3
  <2>2. AccountTotal(g, MaxLoans) = AccountTotal(f, MaxLoans)
    <3> HIDE DEF f, g
    <3>1. QED  BY <1>1, <2>1, AccountTotalEqual
  <2>3. QED  BY <2>2 DEF LoanBalances
<1>5. LoansLent(K) = LoansLent(L)
  <2> DEFINE f == [n \in 1..MaxLoans |-> LentBy(L[n])]
             g == [n \in 1..MaxLoans |-> LentBy(K[n])]
  <2>1. \A n \in 1..MaxLoans : f[n] \in Int /\ g[n] = f[n]
    BY <1>2, <1>3
  <2>2. AccountTotal(g, MaxLoans) = AccountTotal(f, MaxLoans)
    <3> HIDE DEF f, g
    <3>1. QED  BY <1>1, <2>1, AccountTotalEqual
  <2>3. QED  BY <2>2 DEF LoansLent
<1>6. ASSUME NEW r, NEW k PROVE LoansRented(K, r, k) = LoansRented(L, r, k)
  <2> DEFINE f == [n \in 1..MaxLoans |-> RentedBy(L[n], r, k)]
             g == [n \in 1..MaxLoans |-> RentedBy(K[n], r, k)]
  <2>1. \A n \in 1..MaxLoans : f[n] \in Int /\ g[n] = f[n]
    BY <1>2, <1>3
  <2>2. AccountTotal(g, MaxLoans) = AccountTotal(f, MaxLoans)
    <3> HIDE DEF f, g
    <3>1. QED  BY <1>1, <2>1, AccountTotalEqual
  <2>3. QED  BY <2>2 DEF LoansRented
<1>7. QED  BY <1>4, <1>5, <1>6

(* A day passes, for buckets and for loans.                                *)
LEMMA TickSound ==
  ASSUME RexInv, Tick
  PROVE  RexInv' /\ Steps(Db, Db')
<1> DEFINE d == Db
           e == Db'
<1>1. /\ Sound(d, delband, 0) /\ liquid \in [Accounts -> Nat] /\ d \in DbType
      /\ d.rexbal \in [Accounts -> SharesType] /\ d.loans \in [1..MaxLoans -> AnyLoan]
  BY DbFields DEF RexInv, Sound
<1>2. /\ e.held = d.held /\ e.outside = d.outside /\ e.pool = d.pool /\ e.fund = d.fund
      /\ e.funded = d.funded /\ e.holders = d.holders /\ e.order = d.order
      /\ e.queue = d.queue /\ e.weight = d.weight /\ e.rexbal = rexbal' /\ e.loans = loans'
      /\ d.rexbal = rexbal /\ d.loans = loans
      /\ delband' = delband /\ liquid' = liquid
      /\ e = [held |-> e.held, outside |-> e.outside, pool |-> e.pool, fund |-> e.fund,
              funded |-> e.funded, rexbal |-> e.rexbal, holders |-> e.holders,
              order |-> e.order, queue |-> e.queue, loans |-> e.loans, weight |-> e.weight]
  BY DEF Tick, Db
<1>3. /\ \A n \in 1..MaxLoans : loans[n] # NoLoan => loans[n].days > 0 - MaxOverdue
      /\ rexbal' = [a \in Accounts |-> [rexbal[a] EXCEPT !.maturities = DayLater(@)]]
      /\ loans' = [n \in 1..MaxLoans |->
                    IF loans[n] = NoLoan THEN NoLoan ELSE [loans[n] EXCEPT !.days = @ - 1]]
  BY DEF Tick
<1>4. /\ rexbal' \in [Accounts -> SharesType]
      /\ \A a \in Accounts :
           /\ rexbal'[a].rex = rexbal[a].rex /\ rexbal'[a].matured = rexbal[a].matured
           /\ InTime(rexbal'[a].maturities)
           /\ Held(rexbal'[a].maturities) = Held(rexbal[a].maturities)
           /\ rexbal[a] = NoShares => rexbal'[a] = NoShares
      /\ AllShares(rexbal') = AllShares(rexbal)
  <2>1. rexbal \in [Accounts -> SharesType]
    BY <1>1, <1>2
  <2>2. \A a \in Accounts : InTime(rexbal[a].maturities)
    BY <1>1, <1>2 DEF Sound, OwnShares, InBuckets
  <2>3. rexbal' = AllDayLater(rexbal)
    BY <1>3 DEF AllDayLater
  <2> HIDE DEF d, e, SharesType
  <2>4. QED  BY <2>1, <2>2, <2>3, SharesLater
<1>5. /\ loans' \in [1..MaxLoans -> AnyLoan]
      /\ \A n \in 1..MaxLoans :
           /\ (loans'[n] = NoLoan) = (loans[n] = NoLoan)
           /\ loans[n] # NoLoan =>
                /\ loans'[n].balance = loans[n].balance /\ loans'[n].staked = loans[n].staked
                /\ loans'[n].receiver = loans[n].receiver /\ loans'[n].kind = loans[n].kind
                /\ loans'[n].from = loans[n].from
  <2>1. ASSUME NEW n \in 1..MaxLoans
        PROVE  /\ loans'[n] \in AnyLoan
               /\ (loans'[n] = NoLoan) = (loans[n] = NoLoan)
               /\ loans[n] # NoLoan =>
                /\ loans'[n].balance = loans[n].balance /\ loans'[n].staked = loans[n].staked
                /\ loans'[n].receiver = loans[n].receiver /\ loans'[n].kind = loans[n].kind
                /\ loans'[n].from = loans[n].from
    <3>1. CASE loans[n] = NoLoan
      BY <1>3, <3>1 DEF AnyLoan
    <3>2. CASE loans[n] # NoLoan
      <4> DEFINE l == loans[n]
                 y == l.days - 1
      <4>1. l \in LoanType
        BY <1>1, <1>2, <3>2 DEF AnyLoan
      <4>2. l.days \in Int /\ l.days <= LoanDays /\ l.days > 0 - MaxOverdue
        BY <1>3, <3>2, <4>1, LoanFields
      <4>3. y \in (0 - MaxOverdue)..LoanDays
        BY <4>2, RexConstants
      <4>4. loans'[n] = [l EXCEPT !.days = y]
        BY <1>3, <3>2
      <4> HIDE DEF l, y
      <4> DEFINE m == [l EXCEPT !.days = y]
      <4>5. /\ m \in LoanType
            /\ m.balance = l.balance /\ m.staked = l.staked
            /\ m.receiver = l.receiver /\ m.kind = l.kind /\ m.from = l.from
        BY <4>1, <4>3 DEF LoanType
      <4> HIDE DEF m
      <4>6. m # NoLoan
        BY <4>5, LoanFields
      <4>7. loans'[n] = m
        BY <4>4 DEF m
      <4>8. QED  BY <3>2, <4>5, <4>6, <4>7 DEF l, AnyLoan
    <3>3. QED  BY <3>1, <3>2
  <2>2. loans' = [n \in 1..MaxLoans |-> loans'[n]]
    BY <1>3
  <2> HIDE DEF AnyLoan
  <2>3. loans' \in [1..MaxLoans -> AnyLoan]
    BY <2>1, <2>2, Zenon
  <2>4. QED  BY <2>1, <2>3
<1>6. /\ LoanBalances(loans') = LoanBalances(loans) /\ LoansLent(loans') = LoansLent(loans)
      /\ \A r, k : LoansRented(loans', r, k) = LoansRented(loans, r, k)
  <2>1. loans \in [1..MaxLoans -> AnyLoan]
    BY <1>1, <1>2
  <2> HIDE DEF AnyLoan, d, e
  <2>2. QED  BY <1>5, <2>1, LoansLater
<1>7. e \in DbType
  <2>1. /\ d.held \in Nat /\ d.outside \in Nat /\ d.pool \in PoolType
        /\ d.fund \in [Accounts -> Nat] /\ d.funded \subseteq Accounts
        /\ d.holders \subseteq Accounts
        /\ d.order \in [Accounts -> OrderType] /\ d.queue \in Seq(Accounts)
        /\ d.weight \in [Accounts -> [Kinds -> Nat]]
    BY <1>1, DbFields
  <2> HIDE DEF AnyLoan, SharesType, PoolType, OrderType
  <2>2. QED  BY <1>2, <1>4, <1>5, <2>1 DEF DbType
<1> HIDE DEF d, e
<1>8. Books(e, 0) /\ Totals(e)
  <2>1. Books(d, 0) /\ Totals(d)
    BY <1>1 DEF Sound
  <2>2. Books(e, 0)
    BY <1>2, <1>6, <2>1 DEF Books
  <2>3. Totals(e)
    BY <1>2, <1>4, <1>6, <2>1 DEF Totals
  <2>4. QED  BY <2>2, <2>3
<1>9. ASSUME NEW a \in Accounts PROVE OwnShares(e, a)
  <2>1. OwnShares(d, a)
    BY <1>1 DEF Sound
  <2>2. InOrder(e, a) = InOrder(d, a)
    BY <1>2 DEF InOrder
  <2>3. /\ e.rexbal[a].rex = d.rexbal[a].rex /\ e.rexbal[a].matured = d.rexbal[a].matured
        /\ InTime(InBuckets(e, a)) /\ Held(InBuckets(e, a)) = Held(InBuckets(d, a))
        /\ d.rexbal[a] = NoShares => e.rexbal[a] = NoShares
    BY <1>2, <1>4 DEF InBuckets
  <2>4. QED  BY <1>2, <2>1, <2>2, <2>3 DEF OwnShares
<1>10. Queued(e) /\ LoansKept(e) /\ Rented(e, delband)
  <2>1. Queued(d) /\ LoansKept(d) /\ Rented(d, delband)
    BY <1>1 DEF Sound
  <2>2. Queued(e)
    BY <1>2, <2>1 DEF Queued
  <2>3. LoansKept(e)
    BY <1>2, <1>5, <2>1 DEF LoansKept
  <2>4. Rented(e, delband)
    BY <1>2, <1>6, <2>1 DEF Rented
  <2>5. QED  BY <2>2, <2>3, <2>4
<1>11. Sound(e, delband', 0)
  BY <1>1, <1>2, <1>7, <1>8, <1>9, <1>10 DEF Sound
<1>12. RexInv'
  BY <1>1, <1>2, <1>11 DEF RexInv, e
<1>13. Steps(d, e)
  BY <1>1, <1>2, SamePool
<1>14. QED  BY <1>12, <1>13 DEF d, e

-----------------------------------------------------------------------------
(* It holds when nobody has used REX: all is zero but a stake and the fees *)
(* outside.                                                                *)
LEMMA RexInitInv == Init => RexInv
<1> SUFFICES ASSUME Init PROVE RexInv
  OBVIOUS
<1> DEFINE z == <<>>
<1>1. /\ N \in Nat \ {0} /\ BuyerTokens \in Nat /\ RenterTokens \in Nat /\ Staked \in Nat
      /\ Fees \in Nat /\ MaxLoans \in Nat /\ Accounts = 1..N /\ N \in Accounts
  BY RexConstants
<1>2. liquid \in [Accounts -> Nat]
  BY <1>1 DEF Init
<1>3. /\ Db.held = 0 /\ Db.outside = Fees
      /\ Db.pool = [open |-> FALSE, lent |-> 0, unlent |-> 0, lendable |-> 0,
                    rex |-> 0, namebid |-> 0, loan_num |-> 0]
      /\ Db.fund = [a \in Accounts |-> 0] /\ Db.funded = {}
      /\ Db.rexbal = [a \in Accounts |-> NoShares] /\ Db.holders = {}
      /\ Db.order = [a \in Accounts |-> NoOrder] /\ Db.queue = z
      /\ Db.loans = [n \in 1..MaxLoans |-> NoLoan] /\ Db.weight = weight
      /\ Db = [held |-> Db.held, outside |-> Db.outside, pool |-> Db.pool, fund |-> Db.fund,
               funded |-> Db.funded, rexbal |-> Db.rexbal, holders |-> Db.holders,
               order |-> Db.order, queue |-> Db.queue, loans |-> Db.loans,
               weight |-> Db.weight]
  BY DEF Init, Db
<1>4. /\ delband = [o \in Accounts |-> [r \in Accounts |-> [k \in Kinds |->
                      IF <<o, r, k>> = <<N, N, "cpu">> THEN Staked ELSE 0]]]
      /\ weight = [r \in Accounts |-> [k \in Kinds |->
                      IF <<r, k>> = <<N, "cpu">> THEN Staked ELSE 0]]
  BY DEF Init
<1>5. NoShares = [rex |-> 0, matured |-> 0, maturities |-> z] /\ z \in Buckets
      /\ Held(z) = 0 /\ InTime(z) /\ Len(z) = 0 /\ z \in Seq(Accounts)
  BY NoBuckets DEF NoShares
<1> HIDE DEF z
<1>6. /\ NoShares \in SharesType /\ NoShares.rex = 0 /\ NoShares.matured = 0
      /\ NoShares.maturities = z
  BY <1>5 DEF SharesType
<1>7. NoOrder \in OrderType /\ ~NoOrder.open /\ NoOrder.requested = 0 /\ NoOrder.proceeds = 0
  BY DEF NoOrder, OrderType
<1>8. /\ Db.pool \in PoolType /\ ~Db.pool.open /\ Db.pool.lent = 0 /\ Db.pool.unlent = 0
      /\ Db.pool.lendable = 0 /\ Db.pool.rex = 0 /\ Db.pool.namebid = 0 /\ Db.pool.loan_num = 0
  BY <1>1, <1>3 DEF PoolType
<1>9. weight \in [Accounts -> [Kinds -> Nat]] /\ delband \in Stakes
  BY <1>1, <1>4 DEF Stakes
<1>10. Db \in DbType
  <2> DEFINE d == Db
  <2>1. /\ d.held \in Nat /\ d.outside \in Nat /\ d.pool \in PoolType
        /\ d.fund \in [Accounts -> Nat] /\ d.funded \in SUBSET Accounts
        /\ d.holders \in SUBSET Accounts /\ d.queue \in Seq(Accounts)
        /\ d.weight \in [Accounts -> [Kinds -> Nat]]
    BY <1>1, <1>3, <1>5, <1>8, <1>9
  <2>2. d.rexbal \in [Accounts -> SharesType]
    BY <1>3, <1>6
  <2>3. d.order \in [Accounts -> OrderType]
    BY <1>3, <1>7
  <2>4. d.loans \in [1..MaxLoans -> AnyLoan]
    BY <1>3 DEF AnyLoan
  <2> HIDE DEF d, PoolType, SharesType, OrderType, AnyLoan
  <2>5. d = [held |-> d.held, outside |-> d.outside, pool |-> d.pool, fund |-> d.fund,
             funded |-> d.funded, rexbal |-> d.rexbal, holders |-> d.holders,
             order |-> d.order, queue |-> d.queue, loans |-> d.loans, weight |-> d.weight]
    BY <1>3 DEF d
  <2>6. d \in DbType
    BY <2>1, <2>2, <2>3, <2>4, <2>5 DEF DbType
  <2>7. QED  BY <2>6 DEF d
<1>11. /\ LoanBalances(Db.loans) = 0 /\ LoansLent(Db.loans) = 0
       /\ \A r, k : LoansRented(Db.loans, r, k) = 0
  <2>1. \A n \in 1..MaxLoans : /\ BalanceOf(Db.loans[n]) = 0 /\ LentBy(Db.loans[n]) = 0
                               /\ \A r, k : RentedBy(Db.loans[n], r, k) = 0
    BY <1>3 DEF BalanceOf, LentBy, RentedBy
  <2> DEFINE f == [n \in 1..MaxLoans |-> BalanceOf(Db.loans[n])]
             g == [n \in 1..MaxLoans |-> LentBy(Db.loans[n])]
             h(r, k) == [n \in 1..MaxLoans |-> RentedBy(Db.loans[n], r, k)]
  <2>2. \A n \in 1..MaxLoans : f[n] = 0 /\ g[n] = 0 /\ \A r, k : h(r, k)[n] = 0
    BY <2>1
  <2>3. /\ LoanBalances(Db.loans) = AccountTotal(f, MaxLoans)
        /\ LoansLent(Db.loans) = AccountTotal(g, MaxLoans)
        /\ \A r, k : LoansRented(Db.loans, r, k) = AccountTotal(h(r, k), MaxLoans)
    BY DEF LoanBalances, LoansLent, LoansRented
  <2> HIDE DEF f, g, h
  <2>4. AccountTotal(f, MaxLoans) = 0
    BY <1>1, <2>2, AccountTotalZero
  <2>5. AccountTotal(g, MaxLoans) = 0
    BY <1>1, <2>2, AccountTotalZero
  <2>6. ASSUME NEW r, NEW k PROVE AccountTotal(h(r, k), MaxLoans) = 0
    <3>1. \A n \in 1..MaxLoans : h(r, k)[n] = 0
      BY <2>2
    <3>2. QED  BY <1>1, <3>1, AccountTotalZero
  <2>7. QED  BY <2>3, <2>4, <2>5, <2>6
<1>12. AccountTotal(Db.fund, N) = 0 /\ AllProceeds(Db.order) = 0 /\ AllShares(Db.rexbal) = 0
  <2> DEFINE f == Db.fund
             g == [a \in Accounts |-> Db.order[a].proceeds]
             h == [a \in Accounts |-> Db.rexbal[a].rex]
  <2>1. \A a \in 1..N : f[a] = 0 /\ g[a] = 0 /\ h[a] = 0
    BY <1>1, <1>3, <1>6, <1>7
  <2>2. AllProceeds(Db.order) = AccountTotal(g, N) /\ AllShares(Db.rexbal) = AccountTotal(h, N)
    BY DEF AllProceeds, AllShares
  <2> HIDE DEF f, g, h
  <2>3. N \in Nat
    BY <1>1
  <2>4. AccountTotal(f, N) = 0
    BY <2>1, <2>3, AccountTotalZero
  <2>5. AccountTotal(g, N) = 0
    BY <2>1, <2>3, AccountTotalZero
  <2>6. AccountTotal(h, N) = 0
    BY <2>1, <2>3, AccountTotalZero
  <2>7. QED  BY <2>2, <2>4, <2>5, <2>6 DEF f
<1>13. Books(Db, 0)
  BY <1>1, <1>3, <1>8, <1>11, <1>12 DEF Books
<1>14. Totals(Db)
  BY <1>8, <1>11, <1>12 DEF Totals
<1>15. ASSUME NEW a \in Accounts PROVE OwnShares(Db, a)
  <2>1. Db.rexbal[a] = NoShares /\ ~Db.order[a].open
    BY <1>3, <1>7
  <2>2. InBuckets(Db, a) = z /\ InOrder(Db, a) = 0
    BY <1>6, <2>1 DEF InBuckets, InOrder
  <2>3. QED  BY <1>5, <1>6, <2>1, <2>2 DEF OwnShares
<1>16. Queued(Db) /\ LoansKept(Db)
  <2>1. {a \in Accounts : Db.order[a].open} = {}
    BY <1>3, <1>7
  <2>2. Db.queue = z /\ 1..Len(z) = {}
    BY <1>3, <1>5
  <2>3. Queued(Db)
    BY <2>1, <2>2 DEF Queued
  <2>4. LoansKept(Db)
    BY <1>3 DEF LoansKept
  <2>5. QED  BY <2>3, <2>4
<1>17. Rented(Db, delband)
  <2>1. SUFFICES ASSUME NEW r \in Accounts, NEW k \in Kinds
                 PROVE  weight[r][k] = StakedFor(delband, r, k) + LoansRented(Db.loans, r, k)
    BY <1>3 DEF Rented
  <2> DEFINE f == [o \in Accounts |-> 0]
             g == [o \in Accounts |-> delband[o][r][k]]
  <2>2. weight[r][k] = IF r = N /\ k = "cpu" THEN Staked ELSE 0
    BY <1>4
  <2>3. \A o \in Accounts : g[o] = IF o = N /\ r = N /\ k = "cpu" THEN Staked ELSE 0
    BY <1>4
  <2>4. /\ f \in [Accounts -> Nat] /\ g \in [Accounts -> Nat] /\ f[N] = 0
        /\ \A o \in Accounts : o # N => g[o] = f[o]
        /\ \A o \in 1..N : f[o] = 0
        /\ g[N] = weight[r][k] /\ weight[r][k] \in Nat
    BY <1>1, <1>9, <2>2, <2>3 DEF Stakes
  <2>5. AccountTotal(g, N) = AccountTotal(f, N) - f[N] + g[N]
    <3> HIDE DEF f, g
    <3>1. PICK a \in Accounts : a = N
      BY <1>1
    <3>2. \A o \in Accounts : o # a => g[o] = f[o]
      BY <2>4, <3>1
    <3>3. f \in [Accounts -> Nat] /\ g \in [Accounts -> Nat]
      BY <2>4
    <3>4. AccountTotal(g, N) = AccountTotal(f, N) - f[a] + g[a]
      BY <3>2, <3>3, FundChange
    <3>5. QED  BY <3>1, <3>4
  <2>6. AccountTotal(f, N) = 0
    <3> HIDE DEF f, g
    <3>1. QED  BY <1>1, <2>4, AccountTotalZero
  <2>7. AccountTotal(g, N) = weight[r][k]
    BY <2>4, <2>5, <2>6
  <2>8. QED  BY <1>11, <2>4, <2>7 DEF StakedFor
<1>18. Sound(Db, delband, 0)
  BY <1>9, <1>10, <1>13, <1>14, <1>15, <1>16, <1>17 DEF Sound
<1>19. QED  BY <1>2, <1>18 DEF RexInv

(* Every action keeps the invariant and what Steps promises.               *)
LEMMA RexNextInv == RexInv /\ Next => RexInv' /\ Steps(Db, Db')
<1> SUFFICES ASSUME RexInv, Next PROVE RexInv' /\ Steps(Db, Db')
  OBVIOUS
<1>1. /\ held \in Nat /\ pool.rex \in Nat /\ liquid \in [Accounts -> Nat]
      /\ Staked \in Nat /\ Fees \in Nat /\ RunMax \in Nat /\ Receivers \subseteq Accounts
  <2>1. Db \in DbType /\ Db.held = held /\ Db.pool = pool
    BY DEF RexInv, Sound, Db
  <2>2. QED  BY <2>1, DbFields, RexConstants DEF RexInv
<1>2. CASE Tick
  BY <1>2, TickSound
<1>3. CASE \E max \in 0..RunMax + 1 : RexExec(max)
  <2>1. PICK max \in 0..RunMax + 1 : RexExec(max)
    BY <1>3
  <2>2. max \in Nat
    BY <1>1
  <2>3. QED  BY <2>1, <2>2, RexExecSound
<1>4. CASE \E x \in 1..Fees : ChannelToRex(x) \/ ChannelNamebidToRex(x)
  <2>1. PICK x \in 1..Fees : ChannelToRex(x) \/ ChannelNamebidToRex(x)
    BY <1>4
  <2>2. x \in Nat
    BY <1>1
  <2>3. CASE ChannelToRex(x)
    BY <2>2, <2>3, ChannelSound
  <2>4. CASE ChannelNamebidToRex(x)
    BY <2>2, <2>4, ChannelNamebidSound
  <2>5. QED  BY <2>1, <2>3, <2>4
<1>5. ASSUME NEW a \in Accounts,
             CnclRexOrder(a) \/ UpdateRex(a) \/ Consolidate(a) \/ CloseRex(a)
      PROVE  RexInv' /\ Steps(Db, Db')
  <2>1. CASE CnclRexOrder(a)
    BY <2>1, CancelSound
  <2>2. CASE UpdateRex(a)
    BY <2>2, UpdateRexSound
  <2>3. CASE Consolidate(a)
    BY <2>3, ConsolidateSound
  <2>4. CASE CloseRex(a)
    BY <2>4, CloseRexSound
  <2>5. QED  BY <1>5, <2>1, <2>2, <2>3, <2>4
<1>6. ASSUME NEW a \in Accounts, NEW x \in 1..liquid[a], Deposit(a, x)
      PROVE  RexInv' /\ Steps(Db, Db')
  <2>1. x \in Nat
    BY <1>1
  <2>2. QED  BY <1>6, <2>1, DepositSound
<1>7. ASSUME NEW a \in Accounts, NEW x \in 1..held,
             \/ Withdraw(a, x) \/ BuyRex(a, x)
             \/ \E n \in 1..MaxLoans : FundLoan(a, n, x) \/ DefundLoan(a, n, x)
             \/ \E r \in Receivers, k \in Kinds, b \in 0..held - x : RentRex(a, r, k, x, b)
      PROVE  RexInv' /\ Steps(Db, Db')
  <2>1. x \in Nat
    BY <1>1
  <2>2. CASE Withdraw(a, x)
    BY <2>1, <2>2, WithdrawSound
  <2>3. CASE BuyRex(a, x)
    BY <2>1, <2>3, BuyRexSound
  <2>4. ASSUME NEW n \in 1..MaxLoans, FundLoan(a, n, x) PROVE RexInv' /\ Steps(Db, Db')
    BY <2>1, <2>4, FundLoanSound
  <2>5. ASSUME NEW n \in 1..MaxLoans, DefundLoan(a, n, x) PROVE RexInv' /\ Steps(Db, Db')
    BY <2>1, <2>5, DefundLoanSound
  <2>6. ASSUME NEW r \in Receivers, NEW k \in Kinds, NEW b \in 0..held - x,
               RentRex(a, r, k, x, b)
        PROVE  RexInv' /\ Steps(Db, Db')
    <3>1. r \in Accounts /\ b \in Nat
      BY <1>1
    <3>2. QED  BY <2>1, <2>6, <3>1, RentRexSound
  <2>7. QED  BY <1>7, <2>2, <2>3, <2>4, <2>5, <2>6
<1>8. ASSUME NEW a \in Accounts, NEW rex \in 1..pool.rex,
             SellRex(a, rex) \/ MvToSavings(a, rex) \/ MvFrSavings(a, rex)
      PROVE  RexInv' /\ Steps(Db, Db')
  <2>1. rex \in Nat
    BY <1>1
  <2>2. CASE SellRex(a, rex)
    BY <2>1, <2>2, SellRexSound
  <2>3. CASE MvToSavings(a, rex)
    BY <2>1, <2>3, MvToSavingsSound
  <2>4. CASE MvFrSavings(a, rex)
    BY <2>1, <2>4, MvFrSavingsSound
  <2>5. QED  BY <1>8, <2>2, <2>3, <2>4
<1>9. ASSUME NEW a \in Accounts, NEW r \in Accounts, NEW net \in 0..Staked,
             NEW cpu \in 0..Staked, UnstakeToRex(a, r, net, cpu)
      PROVE  RexInv' /\ Steps(Db, Db')
  <2>1. net \in Nat /\ cpu \in Nat
    BY <1>1
  <2>2. QED  BY <1>9, <2>1, UnstakeToRexSound
<1>10. QED
  BY <1>2, <1>3, <1>4, <1>5, <1>6, <1>7, <1>8, <1>9 DEF Next

(* RexInv is inductive.                                                    *)
LEMMA RexInvHolds == Spec => []RexInv
<1>1. RexInv /\ [Next]_vars => RexInv'
  <2>1. RexInv /\ UNCHANGED vars => RexInv'
    BY DEF vars, RexInv, Db
  <2>2. QED  BY <2>1, RexNextInv
<1>2. QED  BY RexInitInv, <1>1, PTL DEF Spec

-----------------------------------------------------------------------------
(* It says more of the types than TypeOK does.                             *)
LEMMA RexInvTyped == RexInv => TypeOK
<1> SUFFICES ASSUME RexInv PROVE TypeOK
  OBVIOUS
<1>1. /\ Db \in DbType /\ Books(Db, 0) /\ delband \in Stakes /\ liquid \in [Accounts -> Nat]
      /\ \A a \in Accounts : OwnShares(Db, a)
  BY DEF RexInv, Sound
<1>2. /\ Db.held = held /\ Db.outside = outside /\ Db.pool = pool /\ Db.fund = fund
      /\ Db.funded = funded /\ Db.rexbal = rexbal /\ Db.holders = holders
      /\ Db.order = order /\ Db.loans = loans /\ Db.weight = weight
  BY DEF Db
<1>3. /\ held \in Nat /\ outside \in Nat /\ pool \in PoolType /\ fund \in [Accounts -> Nat]
      /\ funded \subseteq Accounts /\ holders \subseteq Accounts
      /\ rexbal \in [Accounts -> SharesType] /\ order \in [Accounts -> OrderType]
      /\ loans \in [1..MaxLoans -> AnyLoan] /\ weight \in [Accounts -> [Kinds -> Nat]]
  BY <1>1, <1>2, DbFields
<1>4. \A a \in Accounts \ funded : fund[a] = 0
  BY <1>1, <1>2 DEF Books
<1>5. \A s \in SharesType : /\ DOMAIN s = {"rex", "matured", "maturities"}
                            /\ s.rex \in Nat /\ s.matured \in Nat
                            /\ s.maturities \in Seq((0..EndOfDays) \X Nat)
  <2>1. \A s \in [rex : Nat, matured : Nat, maturities : Buckets] :
           /\ DOMAIN s = {"rex", "matured", "maturities"}
           /\ s.rex \in Nat /\ s.matured \in Nat /\ s.maturities \in Buckets
    OBVIOUS
  <2>2. QED  BY <2>1 DEF SharesType, Buckets
<1>6. \A a \in Accounts : a \notin holders => rexbal[a] = NoShares
  BY <1>1, <1>2 DEF OwnShares
<1>7. \A a \in Accounts : rexbal[a] \in SharesType
  <2> HIDE DEF SharesType
  <2>1. QED  BY <1>3
<1>8. pool \in [open : BOOLEAN, lent : Nat, unlent : Nat, lendable : Nat, rex : Nat,
                namebid : Nat, loan_num : 0..MaxLoans]
  BY <1>3 DEF PoolType
<1>9. order \in [Accounts -> [open : BOOLEAN, requested : Nat, proceeds : Nat]]
  BY <1>3 DEF OrderType
<1>10. loans \in [1..MaxLoans -> {NoLoan} \cup LoanType]
  BY <1>3 DEF AnyLoan
<1>11. delband \in [Accounts -> [Accounts -> [Kinds -> Nat]]]
  BY <1>1 DEF Stakes
<1>12. QED
  BY <1>1, <1>3, <1>4, <1>5, <1>6, <1>7, <1>8, <1>9, <1>10, <1>11 DEF TypeOK

(* Every table of REX keeps its types: no fund, balance, loan or pool      *)
(* counter goes below zero, as assets are only allowed to by the asserts   *)
(* of rex.cpp.                                                             *)
THEOREM RexTypeCorrect == Spec => []TypeOK
BY RexInvHolds, RexInvTyped, PTL

(* REX stays backed: the tokens of celes.rex are exactly the accounts'     *)
(* funds, the loans' balances, the proceeds of filled orders and what the  *)
(* pool can lend, and the name proceeds it counts on are there, whatever   *)
(* runrex closes, renews or fills on the way (rex.cpp, every transfer into *)
(* and out of celes.rex).                                                  *)
THEOREM RexStaysBacked == Spec => []RexIsBacked
<1>1. RexInv => RexIsBacked
  <2> SUFFICES ASSUME RexInv PROVE RexIsBacked
    OBVIOUS
  <2>1. Books(Db, 0) /\ Db \in DbType
    BY DEF RexInv, Sound
  <2>2. held = AccountTotal(fund, N) + LoanBalances(loans) + pool.lendable + AllProceeds(order) + 0
    BY <2>1 DEF Books, Db
  <2>3. /\ AccountTotal(fund, N) \in Nat /\ LoanBalances(loans) \in Nat
        /\ AllProceeds(order) \in Nat /\ pool.lendable \in Nat
    <3>1. Db.fund = fund /\ Db.loans = loans /\ Db.order = order /\ Db.pool = pool
      BY DEF Db
    <3>2. QED  BY <2>1, <3>1, MoneySums, DbFields
  <2>4. held = AccountTotal(fund, N) + LoanBalances(loans) + pool.lendable + AllProceeds(order)
    BY <2>2, <2>3
  <2>5. QED  BY <2>4 DEF RexIsBacked, LoanSum, LoanBalances, BalanceOf, AllProceeds
<1>2. QED  BY <1>1, RexInvHolds, PTL

(* The pool adds up: what can be lent is lent or unlent, what is lent is   *)
(* the loans' sum, its shares are the sum of the accounts', and there are  *)
(* shares exactly as long as there is something to lend (add_to_rex_pool,  *)
(* fill_rex_order, add_loan_to_rex_pool, remove_loan_from_rex_pool).       *)
THEOREM RexPoolAddsUp == Spec => []PoolAddsUp
<1>1. RexInv => PoolAddsUp
  <2> SUFFICES ASSUME RexInv PROVE PoolAddsUp
    OBVIOUS
  <2>1. Totals(Db)
    BY DEF RexInv, Sound
  <2>2. /\ pool.lendable = pool.unlent + pool.lent /\ pool.lent = LoansLent(loans)
        /\ pool.rex = AllShares(rexbal) /\ (pool.rex = 0) = (pool.lendable = 0)
    BY <2>1 DEF Totals, Db
  <2>3. QED  BY <2>2 DEF PoolAddsUp, LoanSum, LoansLent, LentBy, AllShares
<1>2. QED  BY <1>1, RexInvHolds, PTL

(* Shares stay held: each share of an account is matured or in one bucket, *)
(* the buckets stay in order, an open order asks for no more than is       *)
(* matured, and the queue is the set of open orders                        *)
(* (process_rex_maturities, consolidate_rex_balance, mvtosavings,          *)
(* sellrex).                                                               *)
THEOREM SharesStayHeld == Spec => []SharesAreHeld
<1>1. RexInv => SharesAreHeld
  <2> SUFFICES ASSUME RexInv PROVE SharesAreHeld
    OBVIOUS
  <2>1. Queued(Db) /\ \A a \in Accounts : OwnShares(Db, a)
    BY DEF RexInv, Sound
  <2>2. Db.rexbal = rexbal /\ Db.order = order /\ Db.queue = queue /\ Db.holders = holders
    BY DEF Db
  <2>3. ASSUME NEW a \in Accounts
        PROVE  LET m == rexbal[a].maturities
               IN /\ rexbal[a].rex = rexbal[a].matured + AmountIn(m, Len(m))
                  /\ \A i \in 2..Len(m) : m[i - 1][1] < m[i][1] \/ m[i][1] = 0
                  /\ InOrder(Db, a) <= rexbal[a].matured
                  /\ order[a].open => a \in holders /\ order[a].requested > 0
    <3>1. OwnShares(Db, a)
      BY <2>1
    <3>2. QED  BY <2>2, <3>1 DEF OwnShares, InBuckets, Held, InTime
  <2>4. /\ {queue[i] : i \in 1..Len(queue)} = {a \in Accounts : order[a].open}
        /\ \A i, j \in 1..Len(queue) : queue[i] = queue[j] => i = j
    BY <2>1, <2>2 DEF Queued
  <2>5. QED  BY <2>3, <2>4 DEF SharesAreHeld
<1>2. QED  BY <1>1, RexInvHolds, PTL

(* A receiver's weight is what is staked for it and what loans rent for    *)
(* it, through loans made, renewed at another price and closed             *)
(* (update_resource_limits).                                               *)
THEOREM LimitsStayRented == Spec => []LimitsAreRented
<1>1. RexInv => LimitsAreRented
  <2> SUFFICES ASSUME RexInv PROVE LimitsAreRented
    OBVIOUS
  <2>1. \A r \in Accounts, k \in Kinds :
          weight[r][k] = StakedFor(delband, r, k) + LoansRented(loans, r, k)
    BY DEF RexInv, Sound, Rented, Db
  <2>2. QED  BY <2>1 DEF LimitsAreRented, LoanSum, StakedFor, LoansRented, RentedBy
<1>2. QED  BY <1>1, RexInvHolds, PTL

(* runrex cannot fail, as long as the pool is open: no check of it stops   *)
(* the actions that begin with it.                                         *)
THEOREM RunRexNeverFails == Spec => []RunRexCannotFail
<1>1. RexInv => RunRexCannotFail
  <2> SUFFICES ASSUME RexInv, pool.open PROVE /\ \A k \in Kinds : \A n \in Expired(Db, k) : Closings(Db, n) # {}
                                              /\ RunRex(Db, RunMax) # {}
    BY DEF RunRexCannotFail
  <2>1. Sound(Db, delband, 0) /\ Db.pool.open /\ RunMax \in Nat
    BY RexConstants DEF RexInv, Db
  <2>2. RunRex(Db, RunMax) # {}
    BY <2>1, RunRexSound
  <2>3. ASSUME NEW k \in Kinds, NEW n \in Expired(Db, k) PROVE Closings(Db, n) # {}
    <3>1. n \in 1..MaxLoans /\ Db.loans[n] # NoLoan
      BY DEF Expired, LoansMade
    <3>2. QED  BY <2>1, <3>1, ClosingsSound
  <2>4. QED  BY <2>2, <2>3
<1>2. QED  BY <1>1, RexInvHolds, PTL

(* What every step promises: no share loses value, and no loan passes an   *)
(* order.                                                                  *)
LEMMA RexSteps == RexInv /\ [Next]_vars => Steps(Db, Db') \/ UNCHANGED vars
BY RexNextInv

(* The value of a share never falls from one action to the next:           *)
(* purchases, sales, loans and fees round in the pool's favour.            *)
THEOREM ShareValueHolds == Spec => ShareValueNeverFalls
<1>1. ASSUME RexInv, [Next]_vars
      PROVE  [pool.rex > 0 /\ pool'.rex > 0 =>
                pool'.lendable * pool.rex >= pool.lendable * pool'.rex]_vars
  <2>1. CASE UNCHANGED vars
    BY <2>1
  <2>2. CASE Steps(Db, Db')
    BY <2>2 DEF Steps, Worth, Db
  <2>3. QED  BY <1>1, <2>1, <2>2, RexSteps
<1>2. QED  BY <1>1, RexInvHolds, PTL DEF ShareValueNeverFalls, Spec

(* While an order waits, the pool lends no more than before: an expired    *)
(* loan is closed instead of renewed, and nobody rents (rent_rex, runrex). *)
THEOREM NoLoanGoesFirst == Spec => NoLoanPassesAnOrder
<1>1. ASSUME RexInv, [Next]_vars
      PROVE  [\A a \in Accounts : order[a].open /\ order'[a].open => pool'.lent <= pool.lent]_vars
  <2>1. CASE UNCHANGED vars
    BY <2>1
  <2>2. CASE Steps(Db, Db')
    BY <2>2 DEF Steps, Db
  <2>3. QED  BY <1>1, <2>1, <2>2, RexSteps
<1>2. QED  BY <1>1, RexInvHolds, PTL DEF NoLoanPassesAnOrder, Spec
=============================================================================
