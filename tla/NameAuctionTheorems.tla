------------------------ MODULE NameAuctionTheorems ------------------------
(***************************************************************************)
(* The auction of names, for any number of bidders, names and tokens:      *)
(* celes.names holds what is bid, refunded or earned, only winners pay,    *)
(* sales are final, and the index finds the highest open bid.              *)
(***************************************************************************)
EXTENDS NameAuction, AccountSumsTheorems

(* Proceeds are noted for REX only while runrex can move them: runrex      *)
(* forgets them whether it moved them or not.                              *)
ProceedsReachRex == proceeds > 0 => rex_available

(* Bids fit in a bidder's tokens, and so in the half of an index key.      *)
BidsAreBounded == \A x \in Auction : -Liquid <= high_bid[x] /\ high_bid[x] <= Liquid

AuctionInv ==
  TypeOK /\ ProceedsReachRex /\ BidsAreBounded /\ RefundsAreScheduled
  /\ NamesAreBacked /\ OnlyWinnersPay

LEMMA AuctionConstants ==
  /\ N \in Nat /\ M \in Nat /\ Liquid \in Nat /\ RaisePart \in Nat \ {0}
  /\ Bidder = 1..N /\ Auction = 1..M
BY AuctionAssumption DEF AuctionAssumption, Bidder, Auction

(* What celes.names holds for one auction, and what an account has in all. *)
HeldIn(x) == OpenBid(x) + AccountTotal(refunds[x], N)
Held == AccountTotal([x \in Auction |-> HeldIn(x)], M)
Stake(a) == AccountTotal([x \in Auction |-> InAuction(a, x)], M)

-----------------------------------------------------------------------------
(* Sums.                                                                   *)
Rowed == /\ high_bid \in [Auction -> Int] /\ high_bidder \in [Auction -> 0..N]
         /\ refunds \in [Auction -> [Bidder -> Nat]]

HeldTyped ==
  /\ \A x \in Auction : HeldIn(x) \in Nat /\ OpenBid(x) \in Nat
  /\ \A x \in Auction, a \in Bidder : InAuction(a, x) \in Nat
  /\ Held \in Nat
  /\ \A a \in Bidder : Stake(a) \in Nat
                       /\ \A x \in Auction : InAuction(a, x) <= Stake(a)

LEMMA HeldTypes == Rowed => HeldTyped
<1> SUFFICES ASSUME Rowed PROVE HeldTyped
  OBVIOUS
<1>1. \A x \in Auction : OpenBid(x) \in Nat
  BY DEF Rowed, OpenBid
<1>2. ASSUME NEW x \in Auction PROVE AccountTotal(refunds[x], N) \in Nat
  <2>1. \A i \in 1..N : refunds[x][i] \in Nat
    BY AuctionConstants DEF Rowed
  <2>2. QED  BY <2>1, AuctionConstants, AccountTotalNat
<1>3. \A x \in Auction : HeldIn(x) \in Nat
  BY <1>1, <1>2 DEF HeldIn
<1>4. \A x \in Auction, a \in Bidder : InAuction(a, x) \in Nat
  BY <1>1 DEF Rowed, InAuction
<1>5. Held \in Nat
  <2> DEFINE f == [x \in Auction |-> HeldIn(x)]
  <2>1. \A i \in 1..M : f[i] \in Nat
    BY <1>3, AuctionConstants
  <2> HIDE DEF f
  <2>2. AccountTotal(f, M) \in Nat
    BY <2>1, AuctionConstants, AccountTotalNat
  <2>3. QED  BY <2>2 DEF Held, f
<1>6. ASSUME NEW a \in Bidder
      PROVE  Stake(a) \in Nat /\ \A x \in Auction : InAuction(a, x) <= Stake(a)
  <2> DEFINE f == [x \in Auction |-> InAuction(a, x)]
  <2>1. \A i \in 1..M : f[i] \in Nat
    BY <1>4, AuctionConstants
  <2> HIDE DEF f
  <2>2. AccountTotal(f, M) \in Nat /\ \A i \in 1..M : f[i] <= AccountTotal(f, M)
    BY <2>1, AuctionConstants, AccountTotalNat
  <2>3. QED  BY <2>2, AuctionConstants DEF Stake, f
<1>7. QED  BY <1>1, <1>3, <1>4, <1>5, <1>6 DEF HeldTyped

LEMMA OneTerm ==
  ASSUME NEW f \in [Auction -> Int], NEW g \in [Auction -> Int], NEW x \in Auction,
         \A y \in Auction : y # x => g[y] = f[y]
  PROVE  AccountTotal(g, M) = AccountTotal(f, M) - f[x] + g[x]
<1>1. M \in Nat /\ Auction = 1..M
  BY AuctionConstants
<1>2. \A i \in 1..M : f[i] \in Int /\ g[i] \in Int
  BY <1>1
<1>3. x \in 1..M /\ \A i \in 1..M : i # x => g[i] = f[i]
  BY <1>1
<1>4. QED  BY <1>1, <1>2, <1>3, AccountTotalChange

(* A step that touches the rows of one auction changes the sums by what    *)
(* changes in it.                                                          *)
Touches(x) == \A y \in Auction : y # x =>
  high_bid'[y] = high_bid[y] /\ high_bidder'[y] = high_bidder[y] /\ refunds'[y] = refunds[y]

LEMMA OneAuction ==
  ASSUME Rowed, Rowed', NEW x \in Auction, Touches(x)
  PROVE  /\ Held' = Held - HeldIn(x) + HeldIn(x)'
         /\ \A a \in Bidder : Stake(a)' = Stake(a) - InAuction(a, x) + InAuction(a, x)'
<1>1. /\ \A y \in Auction : HeldIn(y) \in Nat /\ HeldIn(y)' \in Nat
      /\ \A y \in Auction, a \in Bidder : InAuction(a, y) \in Nat /\ InAuction(a, y)' \in Nat
  <2>1. HeldTyped /\ HeldTyped'
    BY HeldTypes, PTL
  <2>2. QED  BY <2>1 DEF HeldTyped
<1>2. \A y \in Auction : y # x => HeldIn(y)' = HeldIn(y)
  BY DEF Touches, HeldIn, OpenBid
<1>3. \A y \in Auction, a \in Bidder : y # x => InAuction(a, y)' = InAuction(a, y)
  BY DEF Touches, InAuction, OpenBid
<1>4. Held' = Held - HeldIn(x) + HeldIn(x)'
  <2> DEFINE f == [y \in Auction |-> HeldIn(y)]
             g == [y \in Auction |-> HeldIn(y)']
  <2>1. /\ f \in [Auction -> Int] /\ g \in [Auction -> Int]
        /\ \A y \in Auction : y # x => g[y] = f[y]
        /\ f[x] = HeldIn(x) /\ g[x] = HeldIn(x)'
    BY <1>1, <1>2
  <2> HIDE DEF f, g
  <2>2. AccountTotal(g, M) = AccountTotal(f, M) - f[x] + g[x]
    BY <2>1, OneTerm
  <2>3. QED  BY <2>1, <2>2 DEF Held, f, g
<1>5. ASSUME NEW a \in Bidder
      PROVE  Stake(a)' = Stake(a) - InAuction(a, x) + InAuction(a, x)'
  <2> DEFINE f == [y \in Auction |-> InAuction(a, y)]
             g == [y \in Auction |-> InAuction(a, y)']
  <2>1. /\ f \in [Auction -> Int] /\ g \in [Auction -> Int]
        /\ \A y \in Auction : y # x => g[y] = f[y]
        /\ f[x] = InAuction(a, x) /\ g[x] = InAuction(a, x)'
    BY <1>1, <1>3
  <2> HIDE DEF f, g
  <2>2. AccountTotal(g, M) = AccountTotal(f, M) - f[x] + g[x]
    BY <2>1, OneTerm
  <2>3. QED  BY <2>1, <2>2 DEF Stake, f, g
<1>6. QED  BY <1>4, <1>5

(* One refund of an auction's changes.                                     *)
LEMMA RefundTotal ==
  ASSUME NEW r \in [Bidder -> Nat], NEW s \in [Bidder -> Nat], NEW a \in Bidder,
         \A b \in Bidder : b # a => s[b] = r[b]
  PROVE  /\ AccountTotal(s, N) = AccountTotal(r, N) - r[a] + s[a]
         /\ AccountTotal(r, N) \in Nat /\ r[a] <= AccountTotal(r, N)
<1>1. \A i \in 1..N : r[i] \in Nat /\ s[i] \in Nat /\ (i # a => s[i] = r[i])
  BY AuctionConstants
<1>2. a \in 1..N /\ N \in Nat
  BY AuctionConstants
<1>3. AccountTotal(s, N) = AccountTotal(r, N) - r[a] + s[a]
  BY <1>1, <1>2, AccountTotalChange
<1>4. QED  BY <1>1, <1>2, <1>3, AccountTotalNat

LEMMA OneRefund ==
  ASSUME NEW rs \in [Auction -> [Bidder -> Nat]], NEW x \in Auction, NEW a \in Bidder, NEW q \in Nat,
         NEW ss, ss = [rs EXCEPT ![x][a] = q]
  PROVE  /\ ss \in [Auction -> [Bidder -> Nat]] /\ ss[x][a] = q
         /\ \A y \in Auction, b \in Bidder : ~ (y = x /\ b = a) => ss[y][b] = rs[y][b]
         /\ \A y \in Auction : y # x => ss[y] = rs[y]
<1> DEFINE row == [rs[x] EXCEPT ![a] = q]
<1>1. /\ row \in [Bidder -> Nat] /\ row[a] = q
      /\ \A b \in Bidder : b # a => row[b] = rs[x][b]
  OBVIOUS
<1>2. ss = [rs EXCEPT ![x] = row]
  OBVIOUS
<1> HIDE DEF row
<1>3. QED  BY <1>1, <1>2

-----------------------------------------------------------------------------
(* A step that moves tokens within one auction, or out of it as proceeds.  *)
Moves(x) ==
  /\ liquid' \in [Bidder -> Nat] /\ spent' \in [Bidder -> Nat]
  /\ proceeds' \in Nat /\ kept' \in Nat
  /\ names_balance' - proceeds' - kept' - HeldIn(x)' = names_balance - proceeds - kept - HeldIn(x)
  /\ \A a \in Bidder :
       liquid'[a] + InAuction(a, x)' + spent'[a] = liquid[a] + InAuction(a, x) + spent[a]

LEMMA BackedAs == /\ NamesAreBacked <=> names_balance = Held + proceeds + kept
                  /\ OnlyWinnersPay <=> \A a \in Bidder : liquid[a] + Stake(a) + spent[a] = Liquid
BY DEF NamesAreBacked, OnlyWinnersPay, Held, HeldIn, Stake

LEMMA InvHolds ==
  ASSUME AuctionInv
  PROVE  /\ TypeOK /\ Rowed /\ HeldTyped /\ names_balance = Held + proceeds + kept
         /\ \A a \in Bidder : liquid[a] + Stake(a) + spent[a] = Liquid
         /\ BidsAreBounded /\ RefundsAreScheduled /\ ProceedsReachRex
<1>1. Rowed
  BY DEF AuctionInv, TypeOK, Rowed
<1>2. QED  BY <1>1, HeldTypes, BackedAs DEF AuctionInv

LEMMA BalancesKept ==
  ASSUME AuctionInv, Rowed', NEW x \in Auction, Touches(x), Moves(x), names_balance' \in Int
  PROVE  NamesAreBacked' /\ OnlyWinnersPay' /\ names_balance' \in Nat
<1>1. /\ Rowed /\ HeldTyped /\ names_balance = Held + proceeds + kept
      /\ \A a \in Bidder : liquid[a] + Stake(a) + spent[a] = Liquid
  BY InvHolds
<1>2. HeldTyped'
  BY HeldTypes, PTL
<1>3. /\ Held' = Held - HeldIn(x) + HeldIn(x)'
      /\ \A a \in Bidder : Stake(a)' = Stake(a) - InAuction(a, x) + InAuction(a, x)'
  BY <1>1, OneAuction
<1>4. names_balance' = Held' + proceeds' + kept' /\ names_balance' \in Nat
  <2>1. /\ Held \in Nat /\ HeldIn(x) \in Nat /\ Held' \in Nat /\ HeldIn(x)' \in Nat
        /\ proceeds \in Nat /\ kept \in Nat /\ proceeds' \in Nat /\ kept' \in Nat
    BY <1>1, <1>2 DEF HeldTyped, AuctionInv, TypeOK, Moves
  <2>2. names_balance' - proceeds' - kept' - HeldIn(x)' = names_balance - proceeds - kept - HeldIn(x)
    BY DEF Moves
  <2>3. QED  BY <1>1, <1>3, <2>1, <2>2
<1>5. \A a \in Bidder : liquid'[a] + Stake(a)' + spent'[a] = Liquid
  <2> SUFFICES ASSUME NEW a \in Bidder PROVE liquid'[a] + Stake(a)' + spent'[a] = Liquid
    OBVIOUS
  <2>1. /\ Stake(a) \in Nat /\ InAuction(a, x) \in Nat /\ Stake(a)' \in Nat /\ InAuction(a, x)' \in Nat
        /\ liquid[a] \in Nat /\ spent[a] \in Nat /\ liquid'[a] \in Nat /\ spent'[a] \in Nat
    BY <1>1, <1>2 DEF HeldTyped, AuctionInv, TypeOK, Moves
  <2>2. liquid'[a] + InAuction(a, x)' + spent'[a] = liquid[a] + InAuction(a, x) + spent[a]
    BY DEF Moves
  <2>3. Stake(a)' = Stake(a) - InAuction(a, x) + InAuction(a, x)'
    BY <1>3
  <2>4. liquid[a] + Stake(a) + spent[a] = Liquid
    BY <1>1
  <2>5. QED  BY <2>1, <2>2, <2>3, <2>4
<1>6. QED  BY <1>4, <1>5 DEF NamesAreBacked, OnlyWinnersPay, Held, HeldIn, Stake

-----------------------------------------------------------------------------
LEMMA AuctionInit == Init => AuctionInv
<1> SUFFICES ASSUME Init PROVE AuctionInv
  OBVIOUS
<1>1. TypeOK
  <2>1. /\ high_bid = [x \in Auction |-> 0] /\ high_bidder = [x \in Auction |-> 0]
        /\ last_bid_time = [x \in Auction |-> 0] /\ now = 1
        /\ refunds = [x \in Auction |-> [a \in Bidder |-> 0]]
        /\ liquid = [a \in Bidder |-> Liquid] /\ spent = [a \in Bidder |-> 0]
    BY DEF Init
  <2>2. /\ high_bid \in [Auction -> Int] /\ high_bidder \in [Auction -> 0..N]
        /\ \A x \in Auction : high_bid[x] # 0 => high_bidder[x] \in Bidder
        /\ last_bid_time \in [Auction -> 0..now] /\ refunds \in [Auction -> [Bidder -> Nat]]
        /\ liquid \in [Bidder -> Nat] /\ spent \in [Bidder -> Nat]
    BY <2>1, AuctionConstants
  <2>3. now \in Nat /\ last_schedule \in 0..now /\ last_name_close \in 0..now
    BY DEF Init
  <2>4. QED  BY <2>2, <2>3 DEF Init, TypeOK
<1>2. ProceedsReachRex /\ BidsAreBounded /\ RefundsAreScheduled
  <2>1. /\ proceeds = 0 /\ \A x \in Auction : high_bid[x] = 0
        /\ \A x \in Auction, a \in Bidder : refunds[x][a] = 0
    BY DEF Init
  <2>2. QED  BY <2>1, AuctionConstants DEF ProceedsReachRex, BidsAreBounded, RefundsAreScheduled
<1>3. \A x \in Auction : HeldIn(x) = 0
  <2> SUFFICES ASSUME NEW x \in Auction PROVE HeldIn(x) = 0
    OBVIOUS
  <2>1. \A i \in 1..N : refunds[x][i] = 0
    BY AuctionConstants DEF Init
  <2>2. AccountTotal(refunds[x], N) = 0
    BY <2>1, AuctionConstants, AccountTotalZero
  <2>3. QED  BY <2>2 DEF HeldIn, OpenBid, Init
<1>4. Held = 0
  <2>1. \A i \in 1..M : [x \in Auction |-> HeldIn(x)][i] = 0
    BY <1>3, AuctionConstants
  <2>2. QED  BY <2>1, AuctionConstants, AccountTotalZero DEF Held
<1>5. \A a \in Bidder : Stake(a) = 0
  <2> SUFFICES ASSUME NEW a \in Bidder PROVE Stake(a) = 0
    OBVIOUS
  <2>1. \A i \in 1..M : [x \in Auction |-> InAuction(a, x)][i] = 0
    BY AuctionConstants DEF Init, InAuction, OpenBid
  <2>2. QED  BY <2>1, AuctionConstants, AccountTotalZero DEF Stake
<1>6. NamesAreBacked /\ OnlyWinnersPay
  BY <1>4, <1>5, BackedAs, AuctionConstants DEF Init
<1>7. QED  BY <1>1, <1>2, <1>6 DEF AuctionInv

(* No bidder has more than it started with.                                *)
LEMMA LiquidIsBounded ==
  ASSUME AuctionInv, NEW a \in Bidder
  PROVE  /\ liquid[a] <= Liquid
         /\ \A x \in Auction : high_bid[x] > 0 /\ high_bidder[x] = a => high_bid[x] <= Liquid
<1>1. /\ Stake(a) \in Nat /\ spent[a] \in Nat /\ liquid[a] \in Nat
      /\ liquid[a] + Stake(a) + spent[a] = Liquid
  BY InvHolds DEF HeldTyped, TypeOK
<1>2. QED  BY <1>1, AuctionConstants, InvHolds DEF BidsAreBounded

(* bidname.                                                                *)
LEMMA BidNameKeeps ==
  ASSUME AuctionInv, NEW a \in Bidder, NEW x \in Auction, NEW q \in 1..MaxBid, BidName(a, x, q)
  PROVE  AuctionInv'
<1>i. /\ TypeOK /\ Rowed /\ HeldTyped /\ BidsAreBounded /\ RefundsAreScheduled /\ ProceedsReachRex
  BY InvHolds
<1>t. /\ high_bid \in [Auction -> Int] /\ high_bidder \in [Auction -> 0..N]
      /\ \A y \in Auction : high_bid[y] # 0 => high_bidder[y] \in Bidder
      /\ last_bid_time \in [Auction -> 0..now] /\ now \in Nat
      /\ refunds \in [Auction -> [Bidder -> Nat]]
      /\ deferred \in SUBSET (Auction \X Bidder) /\ attempted \in SUBSET (Auction \X Bidder)
      /\ liquid \in [Bidder -> Nat] /\ names_balance \in Nat
  BY <1>i DEF TypeOK
<1>q. q \in Nat /\ q > 0 /\ q <= liquid[a] /\ liquid[a] \in Nat /\ q <= Liquid
  <2>1. q \in Nat /\ q > 0 /\ q <= liquid[a] /\ liquid[a] \in Nat
    BY <1>i, AuctionAssumption DEF BidName, TypeOK, AuctionAssumption
  <2>2. QED  BY <2>1, LiquidIsBounded, AuctionConstants
<1>b. /\ high_bid' = [high_bid EXCEPT ![x] = q] /\ high_bidder' = [high_bidder EXCEPT ![x] = a]
      /\ last_bid_time' = [last_bid_time EXCEPT ![x] = now]
      /\ liquid' = [liquid EXCEPT ![a] = @ - q] /\ names_balance' = names_balance + q
      /\ UNCHANGED <<timeVars, rexVars, accounts, saleVars>>
  BY DEF BidName, Bid
<1>u. UNCHANGED <<now, last_schedule, network_active, last_name_close, rex_available, proceeds,
                  accounts, spent, kept>>
  BY <1>b DEF timeVars, rexVars, saleVars
<1> DEFINE h == high_bidder[x]
<1>r. \/ high_bid[x] = 0 /\ UNCHANGED <<refunds, deferred, attempted>>
      \/ /\ high_bid[x] > 0 /\ h \in Bidder /\ h # a
         /\ refunds' = [refunds EXCEPT ![x][h] = @ + high_bid[x]]
         /\ deferred' = deferred \union {<<x, h>>}
         /\ attempted' = attempted \ {<<x, h>>}
  BY <1>i DEF BidName, MayRaise, RefundAdded, CallFor, callVars, TypeOK
<1>1. /\ high_bid' \in [Auction -> Int] /\ high_bidder' \in [Auction -> 0..N]
      /\ \A y \in Auction : high_bid'[y] # 0 => high_bidder'[y] \in Bidder
      /\ last_bid_time' \in [Auction -> 0..now']
      /\ liquid' \in [Bidder -> Nat] /\ names_balance' \in Nat
  <2>1. high_bid' \in [Auction -> Int] /\ high_bidder' \in [Auction -> 0..N]
    BY <1>t, <1>q, <1>b, AuctionConstants
  <2>2. \A y \in Auction : high_bid'[y] # 0 => high_bidder'[y] \in Bidder
    BY <1>t, <1>b
  <2>3. last_bid_time' \in [Auction -> 0..now']
    BY <1>t, <1>b, <1>u
  <2>4. liquid' \in [Bidder -> Nat] /\ names_balance' \in Nat
    BY <1>t, <1>q, <1>b
  <2>5. QED  BY <2>1, <2>2, <2>3, <2>4
<1>2. /\ refunds' \in [Auction -> [Bidder -> Nat]]
      /\ deferred' \in SUBSET (Auction \X Bidder) /\ attempted' \in SUBSET (Auction \X Bidder)
  <2>1. refunds' \in [Auction -> [Bidder -> Nat]]
    <3>1. CASE high_bid[x] > 0 /\ h \in Bidder /\ refunds' = [refunds EXCEPT ![x][h] = @ + high_bid[x]]
      <4>1. refunds[x][h] + high_bid[x] \in Nat
        BY <1>t, <3>1
      <4>2. QED  BY <1>t, <3>1, <4>1, OneRefund
    <3>2. QED  BY <1>t, <1>r, <3>1
  <2>2. deferred' \in SUBSET (Auction \X Bidder) /\ attempted' \in SUBSET (Auction \X Bidder)
    BY <1>t, <1>r
  <2>3. QED  BY <2>1, <2>2
<1>3. TypeOK'
  BY <1>i, <1>u, <1>1, <1>2 DEF TypeOK
<1>4. Rowed'
  BY <1>1, <1>2 DEF Rowed
<1>5. Touches(x)
  <2>1. \A y \in Auction : y # x => high_bid'[y] = high_bid[y] /\ high_bidder'[y] = high_bidder[y]
    BY <1>i, <1>b DEF TypeOK
  <2>2. \A y \in Auction : y # x => refunds'[y] = refunds[y]
    BY <1>i, <1>r DEF TypeOK
  <2>3. QED  BY <2>1, <2>2 DEF Touches
<1>6. high_bid'[x] = q /\ high_bidder'[x] = a /\ OpenBid(x)' = q
  BY <1>i, <1>q, <1>b DEF TypeOK, OpenBid
<1>7. HeldIn(x)' = HeldIn(x) + q /\ HeldIn(x) \in Nat
  <2>1. HeldIn(x) \in Nat /\ OpenBid(x) \in Nat
    BY <1>i DEF HeldTyped
  <2>2. CASE high_bid[x] = 0 /\ UNCHANGED <<refunds, deferred, attempted>>
    <3>1. OpenBid(x) = 0 /\ refunds'[x] = refunds[x]
      BY <2>2 DEF OpenBid
    <3>2. AccountTotal(refunds'[x], N) = AccountTotal(refunds[x], N)
      BY <3>1
    <3>3. HeldIn(x) = AccountTotal(refunds[x], N) /\ HeldIn(x)' = q + AccountTotal(refunds'[x], N)
      <4>1. AccountTotal(refunds[x], N) \in Nat
        BY <1>t, RefundTotal
      <4>2. QED  BY <1>6, <3>1, <4>1 DEF HeldIn
    <3>4. QED  BY <1>q, <2>1, <3>2, <3>3
  <2>3. CASE high_bid[x] > 0 /\ h \in Bidder /\ refunds' = [refunds EXCEPT ![x][h] = @ + high_bid[x]]
    <3>1. /\ refunds[x] \in [Bidder -> Nat] /\ refunds'[x] \in [Bidder -> Nat]
          /\ \A b \in Bidder : b # h => refunds'[x][b] = refunds[x][b]
          /\ refunds'[x][h] = refunds[x][h] + high_bid[x] /\ refunds[x][h] \in Nat
          /\ high_bid[x] \in Nat
      BY <1>i, <1>2, <2>3 DEF TypeOK
    <3>2. /\ AccountTotal(refunds'[x], N) = AccountTotal(refunds[x], N) - refunds[x][h] + refunds'[x][h]
          /\ AccountTotal(refunds[x], N) \in Nat
      BY <2>3, <3>1, RefundTotal
    <3>3. OpenBid(x) = high_bid[x]
      BY <2>3 DEF OpenBid
    <3>4. QED  BY <1>q, <1>6, <2>1, <3>1, <3>2, <3>3 DEF HeldIn
  <2>4. QED  BY <1>r, <2>2, <2>3
<1>8. /\ InAuction(a, x)' = InAuction(a, x) + q
      /\ \A b \in Bidder : b # a => InAuction(b, x)' = InAuction(b, x)
  <2>1. /\ \A b \in Bidder : InAuction(b, x) \in Nat /\ refunds[x][b] \in Nat
        /\ high_bid[x] \in Int
    BY <1>i DEF HeldTyped, TypeOK
  <2>2. CASE high_bid[x] = 0 /\ UNCHANGED <<refunds, deferred, attempted>>
    BY <1>6, <1>q, <2>1, <2>2 DEF InAuction, OpenBid
  <2>3. CASE high_bid[x] > 0 /\ h \in Bidder /\ h # a /\ refunds' = [refunds EXCEPT ![x][h] = @ + high_bid[x]]
    <3>1. /\ refunds'[x][h] = refunds[x][h] + high_bid[x]
          /\ \A b \in Bidder : b # h => refunds'[x][b] = refunds[x][b]
      BY <1>i, <2>3 DEF TypeOK
    <3>2. QED  BY <1>6, <1>q, <2>1, <2>3, <3>1 DEF InAuction, OpenBid
  <2>4. QED  BY <1>r, <2>2, <2>3
<1>9. Moves(x)
  <2>1. \A b \in Bidder : liquid'[b] = IF b = a THEN liquid[a] - q ELSE liquid[b]
    BY <1>i, <1>b DEF TypeOK
  <2>2. \A b \in Bidder : InAuction(b, x) \in Nat /\ liquid[b] \in Nat /\ spent[b] \in Nat
    BY <1>i DEF HeldTyped, TypeOK
  <2>3. \A b \in Bidder : liquid'[b] + InAuction(b, x)' + spent'[b] = liquid[b] + InAuction(b, x) + spent[b]
    BY <1>q, <1>u, <1>8, <2>1, <2>2
  <2>4. names_balance' - proceeds' - kept' - HeldIn(x)' = names_balance - proceeds - kept - HeldIn(x)
    BY <1>i, <1>q, <1>b, <1>u, <1>7 DEF TypeOK
  <2>5. QED  BY <1>i, <1>u, <1>1, <2>3, <2>4 DEF Moves, TypeOK
<1>10. NamesAreBacked' /\ OnlyWinnersPay'
  <2>1. names_balance' \in Int
    BY <1>1
  <2>2. QED  BY <1>4, <1>5, <1>9, <2>1, BalancesKept
<1>11. BidsAreBounded'
  <2>1. \A y \in Auction : high_bid'[y] = IF y = x THEN q ELSE high_bid[y]
    BY <1>t, <1>b
  <2>2. QED  BY <1>i, <1>q, <2>1, AuctionConstants DEF BidsAreBounded
<1>12. RefundsAreScheduled'
  <2> SUFFICES ASSUME NEW y \in Auction, NEW b \in Bidder, refunds'[y][b] > 0
               PROVE  <<y, b>> \in deferred' \union attempted'
    BY DEF RefundsAreScheduled
  <2>1. CASE high_bid[x] = 0 /\ UNCHANGED <<refunds, deferred, attempted>>
    BY <1>i, <2>1 DEF RefundsAreScheduled
  <2>2. CASE /\ refunds' = [refunds EXCEPT ![x][h] = @ + high_bid[x]]
             /\ deferred' = deferred \union {<<x, h>>} /\ attempted' = attempted \ {<<x, h>>}
    <3>1. CASE y = x /\ b = h
      BY <2>2, <3>1
    <3>2. CASE ~ (y = x /\ b = h)
      <4>1. refunds'[y][b] = refunds[y][b]
        BY <1>i, <2>2, <3>2 DEF TypeOK
      <4>2. QED  BY <1>i, <2>2, <3>2, <4>1 DEF RefundsAreScheduled
    <3>3. QED  BY <3>1, <3>2
  <2>3. QED  BY <1>r, <2>1, <2>2
<1>13. ProceedsReachRex'
  BY <1>i, <1>u DEF ProceedsReachRex
<1>14. QED  BY <1>3, <1>10, <1>11, <1>12, <1>13 DEF AuctionInv

(* bidrefund, by hand or deferred.                                         *)
LEMMA PayRefundKeeps ==
  ASSUME AuctionInv, NEW x \in Auction, NEW a \in Bidder, PayRefund(x, a),
         UNCHANGED <<now, last_schedule, network_active, last_name_close, rex_available, proceeds,
                     high_bid, high_bidder, last_bid_time, accounts, spent, kept>>,
         deferred' \in {deferred, deferred \ {<<x, a>>}}
  PROVE  AuctionInv'
<1>i. /\ TypeOK /\ Rowed /\ HeldTyped /\ BidsAreBounded /\ RefundsAreScheduled /\ ProceedsReachRex
  BY InvHolds
<1>t. /\ refunds \in [Auction -> [Bidder -> Nat]] /\ high_bid \in [Auction -> Int]
      /\ high_bidder \in [Auction -> 0..N]
      /\ deferred \in SUBSET (Auction \X Bidder) /\ attempted \in SUBSET (Auction \X Bidder)
      /\ liquid \in [Bidder -> Nat] /\ spent \in [Bidder -> Nat]
      /\ names_balance \in Nat /\ proceeds \in Nat /\ kept \in Nat
  BY <1>i DEF TypeOK
<1> DEFINE r == refunds[x][a]
<1>p. /\ liquid' = [liquid EXCEPT ![a] = @ + r] /\ names_balance' = names_balance - r
      /\ refunds' = [refunds EXCEPT ![x][a] = 0] /\ attempted' = attempted \ {<<x, a>>}
  BY DEF PayRefund, Erased
<1>1. r \in Nat
  BY <1>t
<1>2. /\ refunds' \in [Auction -> [Bidder -> Nat]] /\ refunds'[x][a] = 0
      /\ \A y \in Auction, b \in Bidder : ~ (y = x /\ b = a) => refunds'[y][b] = refunds[y][b]
      /\ \A y \in Auction : y # x => refunds'[y] = refunds[y]
  BY <1>t, <1>p, OneRefund
<1> HIDE DEF r
<1>3. /\ liquid' \in [Bidder -> Nat] /\ names_balance' \in Int
      /\ deferred' \in SUBSET (Auction \X Bidder) /\ attempted' \in SUBSET (Auction \X Bidder)
      /\ \A b \in Bidder : liquid'[b] = IF b = a THEN liquid[a] + r ELSE liquid[b]
  BY <1>t, <1>p, <1>1
<1>4. Rowed' /\ Touches(x)
  BY <1>t, <1>2 DEF Rowed, Touches
<1>5. OpenBid(x)' = OpenBid(x) /\ OpenBid(x) \in Nat
  BY <1>i DEF OpenBid, HeldTyped
<1>6. HeldIn(x)' = HeldIn(x) - r /\ HeldIn(x) \in Nat
  <2>1. /\ refunds[x] \in [Bidder -> Nat] /\ refunds'[x] \in [Bidder -> Nat]
        /\ \A b \in Bidder : b # a => refunds'[x][b] = refunds[x][b]
    BY <1>t, <1>2
  <2>2. /\ AccountTotal(refunds'[x], N) = AccountTotal(refunds[x], N) - refunds[x][a] + refunds'[x][a]
        /\ AccountTotal(refunds[x], N) \in Nat
    BY <2>1, RefundTotal
  <2>3. QED  BY <1>1, <1>2, <1>5, <2>2 DEF HeldIn, r
<1>7. \A b \in Bidder : InAuction(b, x)' = IF b = a THEN InAuction(a, x) - r ELSE InAuction(b, x)
  <2> SUFFICES ASSUME NEW b \in Bidder
               PROVE  InAuction(b, x)' = IF b = a THEN InAuction(a, x) - r ELSE InAuction(b, x)
    OBVIOUS
  <2> DEFINE bid == IF high_bidder[x] = b THEN OpenBid(x) ELSE 0
  <2>1. bid \in Nat /\ InAuction(b, x) = bid + refunds[x][b] /\ InAuction(b, x)' = bid + refunds'[x][b]
    BY <1>5 DEF InAuction
  <2>2. refunds[x][b] \in Nat /\ refunds'[x][b] = IF b = a THEN 0 ELSE refunds[x][b]
    BY <1>t, <1>2
  <2> HIDE DEF bid
  <2>3. QED  BY <2>1, <2>2, <1>1 DEF r
<1>8. Moves(x)
  <2>1. \A b \in Bidder : InAuction(b, x) \in Nat /\ liquid[b] \in Nat /\ spent[b] \in Nat
    BY <1>i, <1>t DEF HeldTyped
  <2>2. \A b \in Bidder : liquid'[b] + InAuction(b, x)' + spent'[b] = liquid[b] + InAuction(b, x) + spent[b]
    BY <1>1, <1>3, <1>7, <2>1
  <2>3. names_balance' - proceeds' - kept' - HeldIn(x)' = names_balance - proceeds - kept - HeldIn(x)
    BY <1>t, <1>p, <1>1, <1>6
  <2>4. QED  BY <1>t, <1>3, <2>2, <2>3 DEF Moves
<1>9. NamesAreBacked' /\ OnlyWinnersPay' /\ names_balance' \in Nat
  BY <1>3, <1>4, <1>8, BalancesKept
<1>10. TypeOK'
  BY <1>i, <1>2, <1>3, <1>9 DEF TypeOK
<1>11. RefundsAreScheduled'
  <2> SUFFICES ASSUME NEW y \in Auction, NEW b \in Bidder, refunds'[y][b] > 0
               PROVE  <<y, b>> \in deferred' \union attempted'
    BY DEF RefundsAreScheduled
  <2>1. ~ (y = x /\ b = a)
    BY <1>2
  <2>2. <<y, b>> \in deferred \union attempted /\ <<y, b>> # <<x, a>>
    BY <1>i, <1>2, <2>1 DEF RefundsAreScheduled
  <2>3. QED  BY <1>p, <2>2
<1>12. BidsAreBounded' /\ ProceedsReachRex'
  BY <1>i DEF BidsAreBounded, ProceedsReachRex
<1>13. QED  BY <1>9, <1>10, <1>11, <1>12 DEF AuctionInv

LEMMA RefundSteps ==
  ASSUME AuctionInv, NEW x \in Auction, NEW a \in Bidder, BidRefund(x, a) \/ DeferredRefund(x, a)
  PROVE  AuctionInv'
<1>u. UNCHANGED <<now, last_schedule, network_active, last_name_close, rex_available, proceeds,
                  high_bid, high_bidder, last_bid_time, accounts, spent, kept>>
  BY DEF BidRefund, DeferredRefund, timeVars, rexVars, rowVars, saleVars
<1>1. CASE BidRefund(x, a)
  <2>1. PayRefund(x, a) /\ deferred' = deferred
    BY <1>1 DEF BidRefund
  <2>2. QED  BY <1>u, <2>1, PayRefundKeeps
<1>2. CASE DeferredRefund(x, a)
  <2>1. CASE PayRefund(x, a)
    <3>1. deferred' = deferred \ {<<x, a>>}
      BY <1>2 DEF DeferredRefund
    <3>2. QED  BY <1>u, <2>1, <3>1, PayRefundKeeps
  <2>2. CASE attempted' = attempted \union {<<x, a>>} /\ UNCHANGED <<refunds, liquid, names_balance>>
    <3>1. deferred' = deferred \ {<<x, a>>}
      BY <1>2 DEF DeferredRefund
    <3>2. NamesAreBacked' /\ OnlyWinnersPay'
      BY <1>u, <2>2 DEF AuctionInv, NamesAreBacked, OnlyWinnersPay, OpenBid, InAuction
    <3>3. TypeOK'
      BY <1>u, <2>2, <3>1 DEF AuctionInv, TypeOK
    <3>4. RefundsAreScheduled' /\ BidsAreBounded' /\ ProceedsReachRex'
      BY <1>u, <2>2, <3>1 DEF AuctionInv, RefundsAreScheduled, BidsAreBounded, ProceedsReachRex
    <3>5. QED  BY <3>2, <3>3, <3>4 DEF AuctionInv
  <2>3. QED  BY <1>2, <2>1, <2>2 DEF DeferredRefund
<1>3. QED  BY <1>1, <1>2

(* An auction closes: its bid becomes proceeds, and the winner's spending. *)
LEMMA CloseKeeps ==
  ASSUME AuctionInv, NEW x \in Auction, high_bid[x] > 0, Close(x),
         now' = now + 1, last_schedule' \in 0..now, network_active' \in BOOLEAN,
         UNCHANGED <<rex_available, liquid, names_balance, high_bidder, last_bid_time,
                     refunds, deferred, attempted, accounts>>
  PROVE  AuctionInv'
<1>i. /\ TypeOK /\ Rowed /\ HeldTyped /\ BidsAreBounded /\ RefundsAreScheduled /\ ProceedsReachRex
  BY InvHolds
<1>t. /\ refunds \in [Auction -> [Bidder -> Nat]] /\ high_bid \in [Auction -> Int]
      /\ high_bidder \in [Auction -> 0..N] /\ high_bidder[x] \in Bidder
      /\ \A y \in Auction : high_bid[y] # 0 => high_bidder[y] \in Bidder
      /\ last_bid_time \in [Auction -> 0..now] /\ now \in Nat
      /\ liquid \in [Bidder -> Nat] /\ spent \in [Bidder -> Nat]
      /\ names_balance \in Nat /\ proceeds \in Nat /\ kept \in Nat
  BY <1>i DEF TypeOK
<1> DEFINE q == high_bid[x]
           w == high_bidder[x]
           c == Channelled(q)
<1>1. q \in Nat /\ q > 0 /\ w \in Bidder /\ c \in Nat /\ c <= q /\ (c > 0 => rex_available)
  BY <1>t DEF Channelled
<1>c. /\ last_name_close' = now /\ high_bid' = [high_bid EXCEPT ![x] = -@]
      /\ proceeds' = proceeds + c /\ kept' = kept + q - c
      /\ spent' = [spent EXCEPT ![w] = @ + q]
  BY DEF Close
<1>o. OpenBid(x) = q
  BY <1>1 DEF OpenBid
<1>m. \A b \in Bidder : high_bidder[x] = b <=> b = w
  OBVIOUS
<1> HIDE DEF c
<1>2. \A y \in Auction : high_bid'[y] = IF y = x THEN -q ELSE high_bid[y]
  BY <1>t, <1>c
<1>3. high_bid' \in [Auction -> Int]
  BY <1>t, <1>c
<1> HIDE DEF q, w
<1>4. Rowed' /\ Touches(x)
  BY <1>t, <1>2, <1>3 DEF Rowed, Touches
<1>5. OpenBid(x)' = 0
  BY <1>1, <1>2 DEF OpenBid
<1>6. HeldIn(x)' = HeldIn(x) - q /\ HeldIn(x) \in Nat
  <2>1. AccountTotal(refunds'[x], N) = AccountTotal(refunds[x], N)
    OBVIOUS
  <2>2. AccountTotal(refunds[x], N) \in Nat
    BY <1>1, <1>t, RefundTotal
  <2>3. QED  BY <1>1, <1>o, <1>5, <2>1, <2>2 DEF HeldIn
<1>7. \A b \in Bidder : InAuction(b, x)' = IF b = w THEN InAuction(b, x) - q ELSE InAuction(b, x)
  <2> SUFFICES ASSUME NEW b \in Bidder
               PROVE  InAuction(b, x)' = IF b = w THEN InAuction(b, x) - q ELSE InAuction(b, x)
    OBVIOUS
  <2>1. refunds'[x][b] = refunds[x][b] /\ refunds[x][b] \in Nat
    BY <1>t
  <2>2. InAuction(b, x) = (IF b = w THEN q ELSE 0) + refunds[x][b]
    BY <1>o, <1>m DEF InAuction
  <2>3. InAuction(b, x)' = refunds[x][b]
    BY <1>5, <2>1 DEF InAuction
  <2>4. QED  BY <1>1, <2>1, <2>2, <2>3
<1>8. /\ spent' \in [Bidder -> Nat] /\ proceeds' \in Nat /\ kept' \in Nat
      /\ \A b \in Bidder : spent'[b] = IF b = w THEN spent[b] + q ELSE spent[b]
  BY <1>t, <1>1, <1>c
<1>9. Moves(x)
  <2>1. \A b \in Bidder : InAuction(b, x) \in Nat /\ liquid[b] \in Nat /\ spent[b] \in Nat
    BY <1>i, <1>t DEF HeldTyped
  <2>2. \A b \in Bidder : liquid'[b] + InAuction(b, x)' + spent'[b] = liquid[b] + InAuction(b, x) + spent[b]
    BY <1>1, <1>7, <1>8, <2>1
  <2>3. names_balance' - proceeds' - kept' - HeldIn(x)' = names_balance - proceeds - kept - HeldIn(x)
    BY <1>t, <1>1, <1>c, <1>6
  <2>4. QED  BY <1>t, <1>8, <2>2, <2>3 DEF Moves
<1>10. NamesAreBacked' /\ OnlyWinnersPay'
  <2>1. names_balance' \in Int
    BY <1>t
  <2>2. QED  BY <1>4, <1>9, <2>1, BalancesKept
<1>11. TypeOK'
  <2>1. \A y \in Auction : high_bid'[y] # 0 => high_bidder'[y] \in Bidder
    BY <1>t, <1>1, <1>2
  <2>2. /\ now' \in Nat /\ last_schedule' \in 0..now' /\ last_name_close' \in 0..now'
        /\ last_bid_time' \in [Auction -> 0..now']
    BY <1>t, <1>c
  <2>3. QED  BY <1>i, <1>3, <1>8, <2>1, <2>2 DEF TypeOK
<1>12. RefundsAreScheduled'
  BY <1>i DEF RefundsAreScheduled
<1>13. BidsAreBounded'
  <2>1. q <= Liquid
    BY <1>i DEF BidsAreBounded, q
  <2>2. QED  BY <1>i, <1>1, <1>2, <2>1, AuctionConstants DEF BidsAreBounded
<1>14. ProceedsReachRex'
  BY <1>i, <1>t, <1>1, <1>c DEF ProceedsReachRex
<1>15. QED  BY <1>10, <1>11, <1>12, <1>13, <1>14 DEF AuctionInv

LEMMA OnBlockKeeps ==
  ASSUME AuctionInv, NEW activates \in BOOLEAN, OnBlock(activates)
  PROVE  AuctionInv'
<1>1. now' = now + 1 /\ last_schedule' \in 0..now /\ network_active' \in BOOLEAN
  <2>1. last_schedule \in 0..now /\ now \in Nat
    BY DEF AuctionInv, TypeOK
  <2>2. last_schedule' \in 0..now /\ now' = now + 1
    BY <2>1 DEF OnBlock
  <2>3. network_active' \in BOOLEAN
    BY Zenon DEF OnBlock
  <2>4. QED  BY <2>2, <2>3
<1>2. UNCHANGED <<rex_available, liquid, names_balance, high_bidder, last_bid_time,
                  refunds, deferred, attempted, accounts>>
  BY DEF OnBlock, callVars
<1>3. ASSUME NEW x \in Auction, high_bid[x] > 0, Close(x) PROVE AuctionInv'
  BY <1>1, <1>2, <1>3, CloseKeeps
<1>4. CASE UNCHANGED <<last_name_close, high_bid, proceeds, saleVars>>
  <2>1. UNCHANGED <<last_name_close, high_bid, proceeds, spent, kept>>
    BY <1>4 DEF saleVars
  <2>2. NamesAreBacked' /\ OnlyWinnersPay'
    BY <1>2, <2>1 DEF AuctionInv, NamesAreBacked, OnlyWinnersPay, OpenBid, InAuction
  <2>3. /\ now' \in Nat /\ last_schedule' \in 0..now' /\ last_name_close' \in 0..now'
        /\ last_bid_time' \in [Auction -> 0..now']
    BY <1>1, <1>2, <2>1 DEF AuctionInv, TypeOK
  <2>4. TypeOK'
    BY <1>1, <1>2, <2>1, <2>3 DEF AuctionInv, TypeOK
  <2>5. RefundsAreScheduled' /\ BidsAreBounded' /\ ProceedsReachRex'
    BY <1>2, <2>1 DEF AuctionInv, RefundsAreScheduled, BidsAreBounded, ProceedsReachRex
  <2>6. QED  BY <2>2, <2>4, <2>5 DEF AuctionInv
<1>5. QED  BY <1>3, <1>4, Zenon DEF OnBlock, Closable, LowerBound, Rows

(* The claim of a name, by the winner or not, and REX.                     *)
LEMMA NewAccountKeeps ==
  ASSUME AuctionInv, NEW a \in Bidder, NEW x \in Auction, NewAccount(a, x)
  PROVE  AuctionInv'
<1>i. /\ TypeOK /\ BidsAreBounded /\ RefundsAreScheduled /\ ProceedsReachRex
      /\ NamesAreBacked /\ OnlyWinnersPay
  BY DEF AuctionInv
<1>n. /\ high_bid[x] < 0 /\ high_bid' = [high_bid EXCEPT ![x] = 0]
      /\ UNCHANGED <<now, last_schedule, network_active, last_name_close, rex_available, proceeds,
                     liquid, names_balance, high_bidder, last_bid_time, refunds, deferred,
                     attempted, spent, kept>>
      /\ accounts' = accounts \union {x}
  BY DEF NewAccount, timeVars, rexVars, callVars, saleVars
<1>1. high_bid' \in [Auction -> Int] /\ \A y \in Auction : high_bid'[y] = IF y = x THEN 0 ELSE high_bid[y]
  BY <1>i, <1>n DEF TypeOK
<1>2. \A y \in Auction : OpenBid(y)' = OpenBid(y)
  BY <1>i, <1>n, <1>1 DEF TypeOK, OpenBid
<1>3. NamesAreBacked' /\ OnlyWinnersPay'
  BY <1>i, <1>n, <1>2 DEF NamesAreBacked, OnlyWinnersPay, InAuction
<1>4. TypeOK'
  BY <1>i, <1>n, <1>1 DEF TypeOK
<1>5. BidsAreBounded'
  BY <1>i, <1>1, AuctionConstants DEF BidsAreBounded
<1>6. RefundsAreScheduled' /\ ProceedsReachRex'
  BY <1>i, <1>n DEF RefundsAreScheduled, ProceedsReachRex
<1>7. QED  BY <1>3, <1>4, <1>5, <1>6 DEF AuctionInv

LEMMA RunRexKeeps ==
  ASSUME AuctionInv, NEW available \in BOOLEAN, RunRex(available)
  PROVE  AuctionInv'
<1>i. /\ TypeOK /\ BidsAreBounded /\ RefundsAreScheduled /\ ProceedsReachRex /\ OnlyWinnersPay
      /\ HeldTyped /\ names_balance = Held + proceeds + kept
  BY InvHolds DEF AuctionInv
<1>u. UNCHANGED <<now, last_schedule, network_active, last_name_close, liquid, high_bid, high_bidder,
                  last_bid_time, refunds, deferred, attempted, accounts, spent, kept>>
  BY DEF RunRex, timeVars, rowVars, callVars, saleVars
<1>1. names_balance' = names_balance - proceeds
  <2>1. names_balance \in Nat /\ proceeds \in Nat
    BY <1>i DEF TypeOK
  <2>2. CASE rex_available
    BY <2>2 DEF RunRex, PaidToRex, Channelled
  <2>3. CASE ~rex_available
    <3>1. proceeds = 0
      BY <1>i, <2>1, <2>3 DEF ProceedsReachRex
    <3>2. QED  BY <2>1, <2>3, <3>1 DEF RunRex, PaidToRex, Channelled
  <2>4. QED  BY <2>2, <2>3
<1>2. proceeds' = 0 /\ rex_available' \in BOOLEAN
  BY DEF RunRex
<1>3. Held' = Held
  BY <1>u DEF Held, HeldIn, OpenBid
<1>4. names_balance' = Held' + proceeds' + kept' /\ names_balance' \in Nat
  <2>1. Held \in Nat /\ proceeds \in Nat /\ kept \in Nat
    BY <1>i DEF HeldTyped, TypeOK
  <2>2. QED  BY <1>i, <1>u, <1>1, <1>2, <1>3, <2>1
<1>5. NamesAreBacked' /\ OnlyWinnersPay'
  BY <1>i, <1>u, <1>4 DEF NamesAreBacked, OnlyWinnersPay, OpenBid, InAuction, Held, HeldIn
<1>6. TypeOK'
  <2>1. proceeds' \in Nat
    BY <1>2
  <2>2. QED  BY <1>i, <1>u, <1>2, <1>4, <2>1 DEF TypeOK
<1>7. RefundsAreScheduled' /\ BidsAreBounded' /\ ProceedsReachRex'
  BY <1>i, <1>u, <1>2 DEF RefundsAreScheduled, BidsAreBounded, ProceedsReachRex
<1>8. QED  BY <1>5, <1>6, <1>7 DEF AuctionInv

(* A step that at most adds an account.                                    *)
LEMMA OthersKeep ==
  ASSUME AuctionInv, accounts' \in SUBSET Auction,
         UNCHANGED <<now, last_schedule, network_active, last_name_close, rex_available, proceeds,
                     liquid, names_balance, high_bid, high_bidder, last_bid_time, refunds, deferred,
                     attempted, spent, kept>>
  PROVE  AuctionInv'
<1>1. NamesAreBacked' /\ OnlyWinnersPay'
  BY DEF AuctionInv, NamesAreBacked, OnlyWinnersPay, OpenBid, InAuction
<1>2. TypeOK'
  BY DEF AuctionInv, TypeOK
<1>3. RefundsAreScheduled' /\ BidsAreBounded' /\ ProceedsReachRex'
  BY DEF AuctionInv, RefundsAreScheduled, BidsAreBounded, ProceedsReachRex
<1>4. QED  BY <1>1, <1>2, <1>3 DEF AuctionInv

LEMMA AuctionStep == AuctionInv /\ [Next]_vars => AuctionInv'
<1> SUFFICES ASSUME AuctionInv, [Next]_vars PROVE AuctionInv'
  OBVIOUS
<1>1. ASSUME NEW a \in Bidder, NEW x \in Auction, NEW q \in 1..MaxBid, BidName(a, x, q)
      PROVE  AuctionInv'
  BY <1>1, BidNameKeeps
<1>2. ASSUME NEW x \in Auction, NEW a \in Bidder, BidRefund(x, a) \/ DeferredRefund(x, a)
      PROVE  AuctionInv'
  BY <1>2, RefundSteps
<1>3. ASSUME NEW activates \in BOOLEAN, OnBlock(activates) PROVE AuctionInv'
  BY <1>3, OnBlockKeeps
<1>4. ASSUME NEW a \in Bidder, NEW x \in Auction, NewAccount(a, x) PROVE AuctionInv'
  BY <1>4, NewAccountKeeps
<1>5. ASSUME NEW x \in Auction, NewAccountBySystem(x) PROVE AuctionInv'
  <2>1. accounts' \in SUBSET Auction
    BY <1>5 DEF NewAccountBySystem, AuctionInv, TypeOK
  <2>2. QED  BY <1>5, <2>1, OthersKeep
             DEF NewAccountBySystem, timeVars, rexVars, rowVars, callVars, saleVars
<1>6. ASSUME NEW available \in BOOLEAN, RunRex(available) PROVE AuctionInv'
  BY <1>6, RunRexKeeps
<1>7. CASE UNCHANGED vars
  <2>1. accounts' \in SUBSET Auction
    BY <1>7 DEF vars, AuctionInv, TypeOK
  <2>2. QED  BY <1>7, <2>1, OthersKeep
             DEF vars, timeVars, rexVars, rowVars, callVars, saleVars
<1>8. QED  BY <1>1, <1>2, <1>3, <1>4, <1>5, <1>6, <1>7, Zenon DEF Next

THEOREM AuctionInvariance == Spec => []AuctionInv
BY AuctionInit, AuctionStep, PTL DEF Spec

(* Every variable keeps its type: no balance and no refund is overdrawn.   *)
THEOREM AuctionTypeCorrect == Spec => []TypeOK
<1>1. AuctionInv => TypeOK
  BY DEF AuctionInv
<1>2. QED  BY <1>1, AuctionInvariance, PTL

(* celes.names holds what is bid, waits for a refund or was earned.        *)
THEOREM NamesStayBacked == Spec => []NamesAreBacked
<1>1. AuctionInv => NamesAreBacked
  BY DEF AuctionInv
<1>2. QED  BY <1>1, AuctionInvariance, PTL

(* A bidder pays for the auctions it won and for nothing else.             *)
THEOREM OnlyWinnersEverPay == Spec => []OnlyWinnersPay
<1>1. AuctionInv => OnlyWinnersPay
  BY DEF AuctionInv
<1>2. QED  BY <1>1, AuctionInvariance, PTL

(* A refund has a deferred call to come, or had one.                       *)
THEOREM RefundsStayScheduled == Spec => []RefundsAreScheduled
<1>1. AuctionInv => RefundsAreScheduled
  BY DEF AuctionInv
<1>2. QED  BY <1>1, AuctionInvariance, PTL

-----------------------------------------------------------------------------
(* The index: the unsigned opposite of a bid.                              *)
LEMMA KeyOfBid ==
  ASSUME NEW K \in Nat, NEW b \in Int, b # 0, -K < b, b < K
  PROVE  ((-b) % K) = IF b > 0 THEN K - b ELSE -b
<1>1. K > 0 /\ -b \in Int
  OBVIOUS
<1> DEFINE d == (-b) \div K
           r == (-b) % K
<1>2. d \in Int /\ r \in 0..K-1 /\ -b = K * d + r
  BY <1>1
<1> HIDE DEF d, r
<1>3. CASE b > 0
  <2>1. ~ (d >= 0)
    <3>1. d >= 0 => K * d >= 0
      BY <1>1, <1>2
    <3>2. QED  BY <1>2, <1>3, <3>1
  <2>2. ~ (d <= -2)
    <3>1. d <= -2 => K * d <= K * (-2)
      BY <1>1, <1>2
    <3>2. QED  BY <1>2, <3>1
  <2>3. d = -1
    BY <1>2, <2>1, <2>2
  <2>4. K * d = -K
    BY <2>3
  <2>5. QED  BY <1>2, <1>3, <2>4 DEF r
<1>4. CASE b < 0
  <2>1. ~ (d >= 1)
    <3>1. d >= 1 => K * d >= K
      BY <1>1, <1>2
    <3>2. QED  BY <1>2, <3>1
  <2>2. ~ (d <= -1)
    <3>1. d <= -1 => K * d <= K * (-1)
      BY <1>1, <1>2
    <3>2. QED  BY <1>2, <1>4, <3>1
  <2>3. d = 0
    BY <1>2, <2>1, <2>2
  <2>4. K * d = 0
    BY <2>3
  <2>5. QED  BY <1>2, <1>4, <2>4 DEF r
<1>5. QED  BY <1>3, <1>4

(* Open auctions are in the upper half of the index, closed ones are not.  *)
LEMMA KeysSplit ==
  ASSUME high_bid \in [Auction -> Int], BidsAreBounded, NEW x \in Auction, high_bid[x] # 0
  PROVE  /\ high_bid[x] > 0 => ByHighBid(x) >= UpperHalf /\ ByHighBid(x) = KeyLimit - high_bid[x]
         /\ high_bid[x] < 0 => ~ (ByHighBid(x) >= UpperHalf)
<1> DEFINE b == high_bid[x]
<1>1. b \in Int /\ b # 0 /\ -Liquid <= b /\ b <= Liquid /\ Liquid \in Nat
  BY AuctionConstants DEF BidsAreBounded
<1>2. KeyLimit \in Nat /\ KeyLimit > 4 * Liquid
  BY AuctionAssumption DEF AuctionAssumption
<1> HIDE DEF b
<1>3. ((-b) % KeyLimit) = IF b > 0 THEN KeyLimit - b ELSE -b
  <2>1. -KeyLimit < b /\ b < KeyLimit
    BY <1>1, <1>2
  <2>2. QED  BY <1>1, <1>2, <2>1, KeyOfBid, Zenon
<1>4. 2 * UpperHalf <= KeyLimit - 1 /\ KeyLimit - 2 <= 2 * UpperHalf /\ UpperHalf \in Int
  BY <1>2 DEF UpperHalf
<1>5. ByHighBid(x) = IF b > 0 THEN KeyLimit - b ELSE -b
  BY <1>3 DEF ByHighBid, b
<1>6. QED  BY <1>1, <1>2, <1>4, <1>5 DEF b

(* So what lower_bound finds is a highest open bid, and it finds one when  *)
(* there is any.                                                           *)
LEMMA LowerBoundIsHighest ==
  ASSUME high_bid \in [Auction -> Int], BidsAreBounded
  PROVE  /\ \A x \in LowerBound : x \in Auction /\ HighestOpen(x)
         /\ (\E x \in Auction : HighestOpen(x)) => \E x \in Auction : HighestOpen(x) /\ x \in LowerBound
<1>0. KeyLimit \in Nat
  BY AuctionAssumption DEF AuctionAssumption
<1>1. ASSUME NEW x \in LowerBound PROVE x \in Auction /\ HighestOpen(x)
  <2>1. x \in Auction /\ high_bid[x] # 0 /\ ByHighBid(x) >= UpperHalf /\ high_bid[x] \in Int
    BY DEF LowerBound, Rows
  <2>2. high_bid[x] > 0 /\ ByHighBid(x) = KeyLimit - high_bid[x]
    BY <2>1, KeysSplit
  <2>3. ASSUME NEW y \in Auction, ~ (high_bid[y] <= high_bid[x]) PROVE FALSE
    <3>1. high_bid[y] \in Int /\ high_bid[y] > high_bid[x] /\ high_bid[y] > 0 /\ high_bid[y] # 0
      BY <2>1, <2>2, <2>3
    <3>2. ByHighBid(y) >= UpperHalf /\ ByHighBid(y) = KeyLimit - high_bid[y]
      BY <3>1, KeysSplit
    <3>3. Precedes(x, y)
      BY <3>1, <3>2 DEF LowerBound, Rows
    <3>4. QED  BY <1>0, <2>1, <2>2, <3>1, <3>2, <3>3 DEF Precedes
  <2>4. QED  BY <2>1, <2>2, <2>3 DEF HighestOpen
<1>2. ASSUME \E x \in Auction : HighestOpen(x)
      PROVE  \E x \in Auction : HighestOpen(x) /\ x \in LowerBound
  <2> DEFINE Highest == {x \in Auction : HighestOpen(x)}
  <2>1. Highest # {} /\ Highest \subseteq Nat
    BY <1>2, AuctionConstants
  <2>2. PICK x \in Highest : \A y \in Highest : ~ (<<y, x>> \in OpToRel(<, Nat))
    BY <2>1, NatLessThanWellFounded, WFMin, Zenon
  <2>3. \A y \in Highest : x <= y /\ x \in Nat /\ y \in Nat
    <3> SUFFICES ASSUME NEW y \in Highest PROVE x <= y /\ x \in Nat /\ y \in Nat
      OBVIOUS
    <3>1. x \in Nat /\ y \in Nat
      BY <2>1
    <3>2. y < x => <<y, x>> \in OpToRel(<, Nat)
      BY <3>1 DEF OpToRel
    <3>3. ~ (y < x)
      BY <2>2, <3>2, Zenon
    <3>4. QED  BY <3>1, <3>3
  <2>4. x \in Auction /\ HighestOpen(x) /\ high_bid[x] > 0 /\ high_bid[x] \in Int
    BY <2>2 DEF HighestOpen
  <2>5. ByHighBid(x) >= UpperHalf /\ ByHighBid(x) = KeyLimit - high_bid[x] /\ x \in Rows
    BY <2>4, KeysSplit DEF Rows
  <2>6. ASSUME NEW y \in Rows, ByHighBid(y) >= UpperHalf PROVE Precedes(x, y)
    <3>1. y \in Auction /\ high_bid[y] # 0 /\ high_bid[y] \in Int
      BY DEF Rows
    <3>2. high_bid[y] > 0 /\ ByHighBid(y) = KeyLimit - high_bid[y]
      BY <2>6, <3>1, KeysSplit
    <3>3. high_bid[y] <= high_bid[x]
      BY <2>4, <3>1 DEF HighestOpen
    <3>4. CASE high_bid[y] = high_bid[x]
      <4>1. y \in Highest
        BY <2>4, <3>1, <3>4 DEF HighestOpen
      <4>2. x <= y
        BY <2>3, <4>1
      <4>3. QED  BY <2>5, <3>2, <3>4, <4>2 DEF Precedes
    <3>5. CASE high_bid[y] < high_bid[x]
      BY <1>0, <2>4, <2>5, <3>1, <3>2, <3>5 DEF Precedes
    <3>6. QED  BY <2>4, <3>1, <3>3, <3>4, <3>5
  <2>7. x \in LowerBound
    BY <2>5, <2>6 DEF LowerBound
  <2>8. QED  BY <2>4, <2>7
<1>3. QED  BY <1>1, <1>2

-----------------------------------------------------------------------------
(* What each action does to one auction's row.                             *)
LEMMA RowChanges ==
  ASSUME AuctionInv, Next, NEW x \in Auction
  PROVE  \/ high_bid'[x] = high_bid[x] /\ high_bidder'[x] = high_bidder[x]
         \/ high_bid[x] >= 0 /\ high_bid'[x] > 0
         \/ high_bid'[x] = 0 /\ x \in accounts' \ accounts
         \/ /\ \E activates \in BOOLEAN : OnBlock(activates)
            /\ high_bid[x] > 0 /\ x \in Closable /\ high_bid'[x] = -high_bid[x]
<1>t. high_bid \in [Auction -> Int] /\ high_bidder \in [Auction -> 0..N]
  BY DEF AuctionInv, TypeOK
<1> DEFINE Done == \/ high_bid'[x] = high_bid[x] /\ high_bidder'[x] = high_bidder[x]
                   \/ high_bid[x] >= 0 /\ high_bid'[x] > 0
                   \/ high_bid'[x] = 0 /\ x \in accounts' \ accounts
                   \/ /\ \E activates \in BOOLEAN : OnBlock(activates)
                      /\ high_bid[x] > 0 /\ x \in Closable /\ high_bid'[x] = -high_bid[x]
<1>1. ASSUME NEW a \in Bidder, NEW y \in Auction, NEW q \in 1..MaxBid, BidName(a, y, q) PROVE Done
  <2>1. /\ high_bid' = [high_bid EXCEPT ![y] = q] /\ high_bidder' = [high_bidder EXCEPT ![y] = a]
        /\ q > 0 /\ (high_bid[y] = 0 \/ high_bid[y] > 0)
    BY <1>1 DEF BidName, Bid, MayRaise
  <2>2. CASE x = y
    BY <1>t, <2>1, <2>2
  <2>3. CASE x # y
    BY <1>t, <2>1, <2>3
  <2>4. QED  BY <2>2, <2>3
<1>2. ASSUME NEW y \in Auction, NEW a \in Bidder, BidRefund(y, a) \/ DeferredRefund(y, a) PROVE Done
  BY <1>2 DEF BidRefund, DeferredRefund, rowVars
<1>3. ASSUME NEW activates \in BOOLEAN, OnBlock(activates) PROVE Done
  <2>1. high_bidder' = high_bidder
    BY <1>3 DEF OnBlock
  <2>2. \/ \E y \in Closable : Close(y)
        \/ high_bid' = high_bid
    BY <1>3, Zenon DEF OnBlock
  <2>3. ASSUME NEW y \in Closable, Close(y) PROVE Done
    <3>1. y \in Auction /\ high_bid[y] > 0 /\ high_bid' = [high_bid EXCEPT ![y] = -high_bid[y]]
      BY <2>3 DEF Closable, LowerBound, Rows, Close
    <3>2. CASE x = y
      BY <1>t, <1>3, <3>1, <3>2
    <3>3. CASE x # y
      BY <1>t, <2>1, <3>1, <3>3
    <3>4. QED  BY <3>2, <3>3
  <2>4. QED  BY <2>1, <2>2, <2>3
<1>4. ASSUME NEW a \in Bidder, NEW y \in Auction, NewAccount(a, y) PROVE Done
  <2>1. /\ high_bid' = [high_bid EXCEPT ![y] = 0] /\ high_bidder' = high_bidder
        /\ y \notin accounts /\ accounts' = accounts \union {y}
    BY <1>4 DEF NewAccount
  <2>2. QED  BY <1>t, <2>1
<1>5. ASSUME NEW y \in Auction, NewAccountBySystem(y) PROVE Done
  BY <1>5 DEF NewAccountBySystem, rowVars
<1>6. ASSUME NEW available \in BOOLEAN, RunRex(available) PROVE Done
  BY <1>6 DEF RunRex, rowVars
<1> HIDE DEF Done
<1>7. Done
  BY <1>1, <1>2, <1>3, <1>4, <1>5, <1>6, Zenon DEF Next
<1>8. QED  BY <1>7 DEF Done

(* A closed auction keeps its winner and price until the name is claimed.  *)
THEOREM SalesStayFinal == Spec => SalesAreFinal
<1>1. AuctionInv /\ [Next]_vars
        => [\A x \in Auction : high_bid[x] < 0
              => \/ high_bid'[x] = high_bid[x] /\ high_bidder'[x] = high_bidder[x]
                 \/ high_bid'[x] = 0 /\ x \in accounts' \ accounts]_vars
  <2> SUFFICES ASSUME AuctionInv, Next, NEW x \in Auction, high_bid[x] < 0
               PROVE  \/ high_bid'[x] = high_bid[x] /\ high_bidder'[x] = high_bidder[x]
                      \/ high_bid'[x] = 0 /\ x \in accounts' \ accounts
    OBVIOUS
  <2>1. high_bid[x] \in Int
    BY DEF AuctionInv, TypeOK
  <2>2. ~ (high_bid[x] >= 0) /\ ~ (high_bid[x] > 0)
    BY <2>1
  <2>3. QED  BY <2>2, RowChanges, Zenon
<1>2. QED  BY <1>1, AuctionInvariance, PTL DEF Spec, SalesAreFinal

(* Auctions close at the highest bid, when it is idle, and one does when   *)
(* it is time.                                                             *)
LEMMA ClosesInOrder ==
  ASSUME AuctionInv, Next
  PROVE  /\ \A x \in Auction : ClosedNow(x) => HighestOpen(x) /\ BidIsIdle(x)
         /\ /\ now' # now /\ IsElection /\ network_active' /\ now - last_name_close >= CloseSep
            /\ \E x \in Auction : HighestOpen(x)
            /\ \A x \in Auction : HighestOpen(x) => BidIsIdle(x)
            => \E x \in Auction : ClosedNow(x)
<1>t. high_bid \in [Auction -> Int] /\ BidsAreBounded
  BY DEF AuctionInv, TypeOK
<1>1. ASSUME NEW x \in Auction, ClosedNow(x) PROVE HighestOpen(x) /\ BidIsIdle(x)
  <2>1. high_bid[x] \in Int /\ high_bid[x] > 0 /\ high_bid'[x] < 0
    BY <1>t, <1>1 DEF ClosedNow
  <2>2. ~ (high_bid'[x] = high_bid[x]) /\ ~ (high_bid'[x] > 0) /\ ~ (high_bid'[x] = 0)
    <3>1. high_bid' \in [Auction -> Int]
      BY AuctionStep DEF AuctionInv, TypeOK
    <3>2. QED  BY <2>1, <3>1
  <2>3. x \in Closable
    BY <2>2, RowChanges, Zenon
  <2>4. QED  BY <1>t, <2>3, LowerBoundIsHighest DEF Closable
<1>2. ASSUME now' # now, IsElection, network_active', now - last_name_close >= CloseSep,
             \E x \in Auction : HighestOpen(x),
             \A x \in Auction : HighestOpen(x) => BidIsIdle(x)
      PROVE  \E x \in Auction : ClosedNow(x)
  <2>1. PICK activates \in BOOLEAN : OnBlock(activates)
    BY <1>2, Zenon DEF Next, BidName, BidRefund, DeferredRefund, NewAccount, NewAccountBySystem,
           RunRex, timeVars
  <2>2. PICK x \in Auction : HighestOpen(x) /\ x \in LowerBound
    BY <1>t, <1>2, LowerBoundIsHighest
  <2>3. x \in Closable
    BY <1>2, <2>2 DEF Closable, HighestOpen
  <2>4. PICK y \in Closable : Close(y)
    BY <1>2, <2>1, <2>3, Zenon DEF OnBlock
  <2>5. y \in Auction /\ high_bid[y] > 0 /\ high_bid' = [high_bid EXCEPT ![y] = -high_bid[y]]
    BY <2>4 DEF Closable, LowerBound, Rows, Close
  <2>6. ClosedNow(y)
    BY <1>t, <2>5 DEF ClosedNow
  <2>7. QED  BY <2>5, <2>6
<1>3. QED  BY <1>1, <1>2

THEOREM AuctionsStayInOrder == Spec => AuctionsCloseInOrder
<1>1. AuctionInv /\ [Next]_vars
        => [/\ \A x \in Auction : ClosedNow(x) => HighestOpen(x) /\ BidIsIdle(x)
            /\ /\ now' # now /\ IsElection /\ network_active' /\ now - last_name_close >= CloseSep
               /\ \E x \in Auction : HighestOpen(x)
               /\ \A x \in Auction : HighestOpen(x) => BidIsIdle(x)
               => \E x \in Auction : ClosedNow(x)]_vars
  BY ClosesInOrder
<1>2. QED  BY <1>1, AuctionInvariance, PTL DEF Spec, AuctionsCloseInOrder
=============================================================================
