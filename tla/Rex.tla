-------------------------------- MODULE Rex ---------------------------------
(***************************************************************************)
(* The resource exchange of rex.cpp.  Accounts deposit tokens in a fund,   *)
(* buy shares (REX) of a pool with them, and the pool lends its tokens as  *)
(* CPU and NET weight for a fee.  Shares mature before they can be sold; a *)
(* sale the pool cannot pay waits in a queue.  Nearly every action first   *)
(* runs runrex, which closes or renews a few expired loans and fills a few *)
(* orders on behalf of other accounts.                                     *)
(*                                                                         *)
(* A day is one unit of time, and times are kept as days left, so that the *)
(* state stays finite while time goes on.  The price of a loan (total_rent *)
(* and the doubles of get_bancor_output) is left open: a payment may rent  *)
(* anything up to what is unlent.  The votes an account needs to buy REX   *)
(* are taken as given, and vote_stake, which changes no vote here, is left *)
(* out.                                                                    *)
(***************************************************************************)
EXTENDS Integers, Sequences, AccountSums

CONSTANTS
  N,             \* accounts are 1..N, in name order
  Buyers,        \* those that deposit tokens and buy REX
  Renters,       \* those that rent
  Receivers,     \* those that rented resources may be given to
  BuyerTokens,   \* what a buyer has to begin with
  RenterTokens,  \* what a renter that is no buyer has
  Staked,        \* what account N has staked for its CPU
  Fees,          \* what other contracts still have to pay to the pool
  RexRatio,      \* rex_ratio, REX per token in an empty pool
  ReserveShare,  \* 5, the share of what is lent that orders leave unlent
  RunMax,        \* 2, what runrex(2) handles of each kind
  MaturityDays,  \* num_of_maturity_buckets
  LoanDays,      \* 30
  MaxLoans,      \* bound on the loans that are ever made
  MaxOverdue,    \* bound on the days that pass before a loan is processed
  B1             \* the account b1, whose orders are not queued

ASSUME RexAssumption ==
  /\ N \in Nat \ {0} /\ Buyers \cup Renters \cup Receivers \subseteq 1..N /\ B1 \in 0..N
  /\ {BuyerTokens, RenterTokens, Staked, Fees, RunMax, MaxLoans, MaxOverdue} \subseteq Nat
  /\ {RexRatio, ReserveShare, MaturityDays, LoanDays} \subseteq Nat \ {0}

Accounts == 1..N
Kinds == {"cpu", "net"}
NoLoan == [from |-> 0]
NoOrder == [open |-> FALSE, requested |-> 0, proceeds |-> 0]
NoShares == [rex |-> 0, matured |-> 0, maturities |-> <<>>]
EndOfDays == MaturityDays + 1   \* the maturity of savings

VARIABLES
  liquid,   \* token balance per account
  held,     \* token balance of celes.rex
  outside,  \* fees and name bids other contracts may still channel here
  pool,     \* the row of rexpool
  fund,     \* rexfund: balance per account
  funded,   \* the accounts that have a row in rexfund
  rexbal,   \* rexbal: shares per account
  holders,  \* the accounts that have a row in rexbal
  order,    \* rexqueue: the order per account
  queue,    \* the owners of the open orders, as index bytime has them
  loans,    \* cpuloan and netloan, by loan number
  delband,  \* tokens staked, by owner, receiver and kind
  weight    \* userres, by receiver and kind

vars == <<liquid, held, outside, pool, fund, funded, rexbal, holders, order,
          queue, loans, delband, weight>>

(***************************************************************************)
(* A handler is written as a series of operators on the database, of which *)
(* the last one's result is committed.                                     *)
(***************************************************************************)
Db == [held |-> held, outside |-> outside, pool |-> pool, fund |-> fund,
       funded |-> funded, rexbal |-> rexbal, holders |-> holders,
       order |-> order, queue |-> queue, loans |-> loans, weight |-> weight]

Commit(d) ==
  /\ held' = d.held
  /\ outside' = d.outside
  /\ pool' = d.pool
  /\ fund' = d.fund
  /\ funded' = d.funded
  /\ rexbal' = d.rexbal
  /\ holders' = d.holders
  /\ order' = d.order
  /\ queue' = d.queue
  /\ loans' = d.loans
  /\ weight' = d.weight

Init ==
  /\ liquid = [a \in Accounts |-> IF a \in Buyers THEN BuyerTokens
                                 ELSE IF a \in Renters THEN RenterTokens ELSE 0]
  /\ held = 0
  /\ outside = Fees
  /\ pool = [open |-> FALSE, lent |-> 0, unlent |-> 0, lendable |-> 0,
             rex |-> 0, namebid |-> 0, loan_num |-> 0]
  /\ fund = [a \in Accounts |-> 0]
  /\ funded = {}
  /\ rexbal = [a \in Accounts |-> NoShares]
  /\ holders = {}
  /\ order = [a \in Accounts |-> NoOrder]
  /\ queue = <<>>
  /\ loans = [n \in 1..MaxLoans |-> NoLoan]
  /\ delband = [o \in Accounts |-> [r \in Accounts |-> [k \in Kinds |->
                  IF <<o, r, k>> = <<N, N, "cpu">> THEN Staked ELSE 0]]]
  /\ weight = [r \in Accounts |-> [k \in Kinds |->
                  IF <<r, k>> = <<N, "cpu">> THEN Staked ELSE 0]]

(***************************************************************************)
(* The fund                                                                *)
(***************************************************************************)
\* a bug: the balance is not compared
HasFund(d, a, amount) == 0 < amount /\ a \in d.funded

\* transfer_from_fund can be done
InFund(d, a, amount) == 0 < amount /\ a \in d.funded /\ amount <= d.fund[a]

FromFund(d, a, amount) == [d EXCEPT !.fund[a] = @ - amount]

ToFund(d, a, amount) ==
  [d EXCEPT !.fund[a] = @ + amount, !.funded = @ \cup {a}]

\* a bug: the filled order is left in the table
SettledAgain(d, a, proceeds) ==
  LET to_fund == proceeds + d.order[a].proceeds
  IN IF to_fund > 0 THEN ToFund(d, a, to_fund) ELSE d

\* update_rex_account: the owner of a filled order collects its proceeds
Settled(d, a, proceeds) ==
  LET d1 == IF d.order[a].open THEN d ELSE [d EXCEPT !.order[a] = NoOrder]
      to_fund == proceeds + d.order[a].proceeds
  IN IF to_fund > 0 THEN ToFund(d1, a, to_fund) ELSE d1

\* what update_rex_account returns: REX in the owner's open order
InOrder(d, a) == IF d.order[a].open THEN d.order[a].requested ELSE 0

(***************************************************************************)
(* Maturities: pairs of days left and an amount, savings last              *)
(***************************************************************************)
HasSavings(m) == m # <<>> /\ m[Len(m)][1] = EndOfDays

Front(m) == SubSeq(m, 1, Len(m) - 1)

\* read_rex_savings: the amount, and the bucket is taken out
Savings(d, a) ==
  LET m == d.rexbal[a].maturities IN IF HasSavings(m) THEN m[Len(m)][2] ELSE 0

\* a bug: the bucket is read and left
SavingsLeft(d, a) == d

WithoutSavings(d, a) ==
  [d EXCEPT !.rexbal[a].maturities = IF HasSavings(@) THEN Front(@) ELSE @]

\* an amount is added to the last bucket if that has the maturity, or to a new one
AddedBucket(m, days, amount) ==
  IF m # <<>> /\ m[Len(m)][1] = days
  THEN Append(Front(m), <<days, m[Len(m)][2] + amount>>)
  ELSE Append(m, <<days, amount>>)

\* put_rex_savings
WithSavings(d, a, amount) ==
  IF amount = 0 THEN d
  ELSE [d EXCEPT !.rexbal[a].maturities = AddedBucket(@, EndOfDays, amount)]

AmountIn(m, n) == AccountTotal([i \in 1..Len(m) |-> m[i][2]], n)

\* process_rex_maturities: buckets are popped from the front while they are mature
Matured(d, a) ==
  LET m == d.rexbal[a].maturities
      Mature(n) == \A i \in 1..n : m[i][1] = 0
      n == CHOOSE n \in 0..Len(m) :
             Mature(n) /\ (n = Len(m) \/ ~Mature(n + 1))
  IN [d EXCEPT !.rexbal[a].matured = @ + AmountIn(m, n),
               !.rexbal[a].maturities = SubSeq(@, n + 1, Len(@))]

(***************************************************************************)
(* The pool                                                                *)
(***************************************************************************)
RexAvailable(d) == d.pool.open /\ d.pool.rex > 0

RexLoansAvailable(d) == RexAvailable(d) /\ d.queue = <<>>

\* add_to_rex_pool is allowed
MayBuy(d) == RexAvailable(d) => d.pool.lendable > 0

\* a bug: the division is rounded up
RexRoundedUp(d, payment) ==
  IF ~RexAvailable(d) THEN payment * RexRatio
  ELSE ((d.pool.lendable + payment) * d.pool.rex + d.pool.lendable - 1)
         \div d.pool.lendable - d.pool.rex

RexReceived(d, payment) ==
  IF ~RexAvailable(d) THEN payment * RexRatio
  ELSE ((d.pool.lendable + payment) * d.pool.rex) \div d.pool.lendable - d.pool.rex

AddedToPool(d, payment) ==
  IF ~RexAvailable(d)
  THEN [d EXCEPT !.pool = [open |-> TRUE, lent |-> 0, unlent |-> payment,
                           lendable |-> payment, rex |-> payment * RexRatio,
                           namebid |-> @.namebid, loan_num |-> @.loan_num]]
  ELSE LET S1 == d.pool.lendable + payment
       IN [d EXCEPT !.pool.lendable = S1,
                    !.pool.rex = @ + RexReceived(d, payment),
                    !.pool.unlent = S1 - d.pool.lent]

\* add_to_rex_balance
AddedToBalance(d, a, rex) ==
  LET d1 == Matured(WithoutSavings([d EXCEPT !.holders = @ \cup {a},
                                             !.rexbal[a].rex = @ + rex], a), a)
  IN WithSavings([d1 EXCEPT !.rexbal[a].maturities = AddedBucket(@, MaturityDays, rex)],
                 a, Savings(d, a))

\* buyrex and unstaketorex, once the payment is there
Bought(d, a, payment) ==
  AddedToBalance(AddedToPool(d, payment), a, RexReceived(d, payment))

\* channel_to_rex
ChannelledTo(d, amount) ==
  IF RexAvailable(d)
  THEN [d EXCEPT !.pool.unlent = @ + amount, !.pool.lendable = @ + amount,
                 !.held = @ + amount, !.outside = @ - amount]
  ELSE d

(***************************************************************************)
(* fill_rex_order: an order is filled only from what is unlent beyond a    *)
(* fifth of what is lent (the code's (2 * total_lent) / 10).               *)
(***************************************************************************)
Proceeds(d, rex) == (rex * d.pool.lendable) \div d.pool.rex

\* a bug: an order for all there is does not fit
FitsStrictly(d, rex) == Proceeds(d, rex) < d.pool.unlent - d.pool.lent \div ReserveShare

CanFill(d, rex) == Proceeds(d, rex) <= d.pool.unlent - d.pool.lent \div ReserveShare

Filled(d, a, rex) ==
  LET S1 == d.pool.lendable - Proceeds(d, rex)
  IN [d EXCEPT !.pool.rex = @ - rex,
               !.pool.lendable = S1,
               !.pool.unlent = S1 - d.pool.lent,
               !.rexbal[a].rex = @ - rex,
               !.rexbal[a].matured = @ - rex]

(***************************************************************************)
(* runrex                                                                  *)
(***************************************************************************)
\* update_resource_limits is allowed, and its effect on the totals
HasWeight(d, r, k, delta) == d.weight[r][k] + delta >= 0

Weighted(d, r, k, delta) == [d EXCEPT !.weight[r][k] = @ + delta]

LoansMade(d, k) == {n \in 1..MaxLoans : d.loans[n] # NoLoan /\ d.loans[n].kind = k}

\* index byexpr: by expiration, then by loan number
Expired(d, k) ==
  {n \in LoansMade(d, k) :
     /\ d.loans[n].days <= 0
     /\ \A o \in LoansMade(d, k) \ {n} :
          \/ d.loans[n].days < d.loans[o].days
          \/ d.loans[n].days = d.loans[o].days /\ n < o}

\* a bug: what was lent is still counted as lent
RemovedUncounted(d, staked) ==
  [d EXCEPT !.pool.unlent = @ + staked, !.pool.lendable = @ + staked]

\* remove_loan_from_rex_pool
Removed(d, staked) ==
  [d EXCEPT !.pool.unlent = @ + staked, !.pool.lent = @ - staked,
            !.pool.lendable = d.pool.unlent + d.pool.lent]

\* add_loan_to_rex_pool
Lent(d, payment, rented) ==
  [d EXCEPT !.pool.unlent = @ - rented + payment,
            !.pool.lent = @ + rented,
            !.pool.lendable = d.pool.unlent + d.pool.lent + payment]

\* the closing of a loan; its balance goes to a fund that must be there already,
\* for the one who runs this cannot pay for the row
Closings(d, n) ==
  LET l == d.loans[n]
      d1 == Weighted([Removed(d, l.staked) EXCEPT !.loans[n] = NoLoan],
                     l.receiver, l.kind, 0 - l.staked)
  IN IF \/ ~HasWeight(d, l.receiver, l.kind, 0 - l.staked)
        \/ l.balance > 0 /\ l.from \notin d.funded
     THEN {}
     ELSE {IF l.balance > 0 THEN ToFund(d1, l.from, l.balance) ELSE d1}

\* a bug: the weight a renewed loan had is not taken off
WholeStake(l, rented) == rented

\* update_renewed_loan: the change of the loan's weight
DeltaStake(l, rented) == rented - l.staked

\* its renewal, at any price that favours it
Renewals(d, n) ==
  LET l == d.loans[n]
      d1 == Removed(d, l.staked)
      Renewed(rented) ==
        Weighted([Lent(d1, l.payment, rented) EXCEPT
                    !.loans[n] = [l EXCEPT !.staked = rented,
                                           !.days = @ + LoanDays,
                                           !.balance = @ - l.payment]],
                 l.receiver, l.kind, DeltaStake(l, rented))
  IN IF l.payment <= l.balance /\ RexLoansAvailable(d)
     THEN {Renewed(rented) : rented \in {r \in l.payment + 1..d1.pool.unlent :
                               HasWeight(d, l.receiver, l.kind, DeltaStake(l, r))}}
     ELSE {}

\* process_expired_loan, for the first loan of a kind if that has expired
LoanProcessed(d, k) ==
  IF Expired(d, k) = {} THEN {d}
  ELSE UNION {Closings(d, n) \cup Renewals(d, n) : n \in Expired(d, k)}

LoansProcessed(D, k, max) ==
  LET After[i \in 0..max] ==
        IF i = 0 THEN D ELSE UNION {LoanProcessed(d, k) : d \in After[i - 1]}
  IN After[max]

\* an account's order leaves the index; it has one in it
Dequeued(q, a) ==
  LET i == CHOOSE i \in 1..Len(q) : q[i] = a
  IN SubSeq(q, 1, i - 1) \o SubSeq(q, i + 1, Len(q))

\* an order of the queue is filled and closed, or stays
OrderTried(d, a) ==
  LET rex == d.order[a].requested
  IN IF CanFill(d, rex)
     THEN [Filled(d, a, rex) EXCEPT
             !.order[a] = [open |-> FALSE, requested |-> rex, proceeds |-> Proceeds(d, rex)],
             !.queue = Dequeued(@, a)]
     ELSE d

\* the queue's first orders, in turn
OrdersTried(d, max) ==
  LET After[i \in 0..max] ==
        IF i = 0 THEN d
        ELSE IF i > Len(d.queue) THEN After[i - 1]
        ELSE OrderTried(After[i - 1], d.queue[i])
  IN After[max]

NamesChannelled(d) ==
  IF d.pool.namebid = 0 THEN d
  ELSE [ChannelledTo(d, d.pool.namebid) EXCEPT !.pool.namebid = 0]

\* what runrex may leave behind; nothing, if it fails
RunRex(d, max) ==
  IF d.pool.open
  THEN {OrdersTried(e, max) : e \in
          LoansProcessed(LoansProcessed({NamesChannelled(d)}, "cpu", max), "net", max)}
  ELSE {}

(***************************************************************************)
(* Actions                                                                 *)
(***************************************************************************)
Deposit(a, x) ==
  /\ a \in Buyers \cup Renters
  /\ 0 < x /\ x <= liquid[a]
  /\ liquid' = [liquid EXCEPT ![a] = @ - x]
  /\ Commit(ToFund([Db EXCEPT !.held = @ + x], a, x))
  /\ UNCHANGED delband

Withdraw(a, x) ==
  LET d == Settled(Db, a, 0)
  IN /\ InFund(d, a, x)
     /\ liquid' = [liquid EXCEPT ![a] = @ + x]
     /\ Commit([FromFund(d, a, x) EXCEPT !.held = @ - x])
     /\ UNCHANGED delband

BuyRex(a, x) ==
  /\ a \in Buyers
  /\ InFund(Db, a, x)
  /\ MayBuy(Db)
  /\ \E d \in RunRex(Bought(FromFund(Db, a, x), a, x), RunMax) :
       Commit(Settled(d, a, 0))
  /\ UNCHANGED <<liquid, delband>>

UnstakeToRex(o, r, net, cpu) ==
  LET payment == net + cpu
      unstaked == Weighted(Weighted([Db EXCEPT !.held = @ + payment],
                                    r, "net", 0 - net), r, "cpu", 0 - cpu)
  IN /\ payment > 0
     /\ net <= delband[o][r]["net"] /\ cpu <= delband[o][r]["cpu"]
     /\ HasWeight(Db, r, "net", 0 - net) /\ HasWeight(Db, r, "cpu", 0 - cpu)
     /\ MayBuy(Db)
     /\ delband' = [delband EXCEPT ![o][r]["net"] = @ - net, ![o][r]["cpu"] = @ - cpu]
     /\ \E d \in RunRex(Bought(unstaked, o, payment), RunMax) :
          Commit(Settled(d, o, 0))
     /\ UNCHANGED liquid

SoldAtOnce(d, a, rex) ==
  LET d1 == Settled(Filled(d, a, rex), a, Proceeds(d, rex))
  IN /\ CanFill(d, rex)
     /\ Proceeds(d, rex) # 0
     /\ InOrder(d1, a) <= d1.rexbal[a].matured
     /\ Commit(d1)

\* an open order grows where it stands; a new one queues behind all but those of
\* the same block that belong to accounts whose names come later
SoldLater(d, a, rex) ==
  LET d1 == Settled(d, a, 0)
      requested == InOrder(d1, a) + rex
      placed == [d1 EXCEPT !.order[a] =
                   [open |-> TRUE, requested |-> requested, proceeds |-> 0]]
      n == Len(d1.queue)
  IN /\ ~CanFill(d, rex)
     /\ a # B1
     /\ requested <= d1.rexbal[a].matured
     /\ IF d1.order[a].open
        THEN Commit(placed)
        ELSE \E i \in 0..n :
               /\ \A j \in i + 1..n : a < d1.queue[j]
               /\ Commit([placed EXCEPT !.queue =
                            SubSeq(@, 1, i) \o <<a>> \o SubSeq(@, i + 1, n)])

SellRex(a, rex) ==
  /\ \E d \in RunRex(Db, RunMax) :
       /\ a \in d.holders
       /\ 0 < rex /\ rex <= Matured(d, a).rexbal[a].matured
       /\ \/ SoldAtOnce(Matured(d, a), a, rex)
          \/ SoldLater(Matured(d, a), a, rex)
  /\ UNCHANGED <<liquid, delband>>

CnclRexOrder(a) ==
  /\ order[a].open
  /\ Commit([Db EXCEPT !.order[a] = NoOrder,
                       !.queue = Dequeued(@, a)])
  /\ UNCHANGED <<liquid, delband>>

\* rentcpu and rentnet
RentRex(from, receiver, kind, payment, balance) ==
  /\ from \in Renters /\ receiver \in Receivers
  /\ 0 < payment /\ 0 <= balance
  /\ \E d \in RunRex(Db, RunMax) :
       LET n == d.pool.loan_num + 1
       IN /\ n <= MaxLoans
          /\ RexLoansAvailable(d)
          /\ InFund(d, from, payment + balance)
          /\ \E rented \in payment + 1..d.pool.unlent :
               Commit(Weighted(
                 [Lent(FromFund(d, from, payment + balance), payment, rented) EXCEPT
                    !.pool.loan_num = n,
                    !.loans[n] = [kind |-> kind, from |-> from, receiver |-> receiver,
                                  payment |-> payment, balance |-> balance,
                                  staked |-> rented, days |-> LoanDays]],
                 receiver, kind, rented))
  /\ UNCHANGED <<liquid, delband>>

RunsStill(n) == loans[n] # NoLoan /\ loans[n].days > 0

\* fundcpuloan and fundnetloan
FundLoan(a, n, x) ==
  /\ InFund(Db, a, x)
  /\ RunsStill(n) /\ loans[n].from = a
  /\ Commit([FromFund(Db, a, x) EXCEPT !.loans[n].balance = @ + x])
  /\ UNCHANGED <<liquid, delband>>

\* defcpuloan and defnetloan
DefundLoan(a, n, x) ==
  /\ RunsStill(n) /\ loans[n].from = a
  /\ 0 < x /\ x <= loans[n].balance
  /\ Commit(ToFund([Db EXCEPT !.loans[n].balance = @ - x], a, x))
  /\ UNCHANGED <<liquid, delband>>

UpdateRex(a) ==
  /\ \E d \in RunRex(Db, RunMax) :
       a \in d.holders /\ Commit(Matured(Settled(d, a, 0), a))
  /\ UNCHANGED <<liquid, delband>>

RexExec(max) ==
  /\ \E d \in RunRex(Db, max) : Commit(d)
  /\ UNCHANGED <<liquid, delband>>

\* consolidate_rex_balance: all but the open order and the savings matures anew
Consolidated(d, a) ==
  LET d1 == WithoutSavings(d, a)
      m == d1.rexbal[a].maturities
      total == d1.rexbal[a].matured - InOrder(d, a) + AmountIn(m, Len(m))
  IN WithSavings([d1 EXCEPT !.rexbal[a].matured = InOrder(d, a),
                            !.rexbal[a].maturities =
                               IF total > 0 THEN <<<<MaturityDays, total>>>> ELSE <<>>],
                 a, Savings(d, a))

Consolidate(a) ==
  /\ \E d \in RunRex(Db, RunMax) :
       a \in d.holders /\ Commit(Consolidated(Settled(d, a, 0), a))
  /\ UNCHANGED <<liquid, delband>>

\* an amount is taken from the last buckets, which are popped as they empty, and
\* what they lack from the matured REX
TakenFromLast(d, a, rex) ==
  LET m == d.rexbal[a].maturities
      all == AmountIn(m, Len(m))
      Kept(n) == AmountIn(m, n) <= all - rex   \* by the first n buckets
      n == CHOOSE n \in 0..Len(m) : Kept(n) /\ (n = Len(m) \/ ~Kept(n + 1))
      rest == all - rex - AmountIn(m, n)
  IN IF all < rex
     THEN [d EXCEPT !.rexbal[a].maturities = <<>>,
                    !.rexbal[a].matured = @ - (rex - all)]
     ELSE [d EXCEPT !.rexbal[a].maturities =
             IF rest = 0 THEN SubSeq(m, 1, n)
             ELSE Append(SubSeq(m, 1, n), <<m[n + 1][1], rest>>)]

MvToSavings(a, rex) ==
  /\ 0 < rex
  /\ \E d \in RunRex(Db, RunMax) :
       LET d1 == Settled(d, a, 0)
           d2 == TakenFromLast(Matured(WithoutSavings(d1, a), a), a, rex)
       IN /\ a \in d.holders
          /\ rex + InOrder(d1, a) + Savings(d1, a) <= d1.rexbal[a].rex
          /\ InOrder(d1, a) <= d2.rexbal[a].matured  \* "logic error in mvtosavings"
          /\ Commit(WithSavings(d2, a, Savings(d1, a) + rex))
  /\ UNCHANGED <<liquid, delband>>

MvFrSavings(a, rex) ==
  /\ 0 < rex
  /\ \E d \in RunRex(Db, RunMax) :
       LET d1 == Matured(WithoutSavings(d, a), a)
       IN /\ a \in d.holders
          /\ rex <= Savings(d, a)
          /\ Commit(Settled(WithSavings(
               [d1 EXCEPT !.rexbal[a].maturities = AddedBucket(@, MaturityDays, rex)],
               a, Savings(d, a) - rex), a, 0))
  /\ UNCHANGED <<liquid, delband>>

\* a bug: loans are not looked for
DropEmptyFund(d, a) == a \in d.funded /\ d.fund[a] = 0

\* the fund's row is left while the account has loans
MayDropFund(d, a) ==
  /\ a \in d.funded /\ d.fund[a] = 0
  /\ \A n \in 1..MaxLoans : d.loans[n].from # a

CloseRex(a) ==
  /\ \E d \in (IF pool.open THEN RunRex(Db, RunMax) ELSE {Db}) :
       LET d1 == Settled(d, a, 0)
       IN /\ a \in d1.holders => d1.rexbal[a].rex = 0
          /\ Commit([d1 EXCEPT !.funded = IF MayDropFund(d1, a) THEN @ \ {a} ELSE @,
                               !.holders = @ \ {a},
                               !.rexbal[a] = NoShares])
  /\ UNCHANGED <<liquid, delband>>

\* buyram, buyrambytes and sellram channel their fee
ChannelToRex(x) ==
  /\ x <= outside - pool.namebid
  /\ Commit(ChannelledTo(Db, x))
  /\ UNCHANGED <<liquid, delband>>

\* onblock channels the price of a name
ChannelNamebidToRex(x) ==
  /\ x <= outside - pool.namebid
  /\ RexAvailable(Db)
  /\ Commit([Db EXCEPT !.pool.namebid = @ + x])
  /\ UNCHANGED <<liquid, delband>>

DayLater(m) == [i \in 1..Len(m) |->
  IF m[i][1] \in 1..MaturityDays THEN <<m[i][1] - 1, m[i][2]>> ELSE m[i]]

Tick ==
  /\ \A n \in 1..MaxLoans : loans[n] # NoLoan => loans[n].days > 0 - MaxOverdue
  /\ rexbal' = [a \in Accounts |->
                  [rexbal[a] EXCEPT !.maturities = DayLater(@)]]
  /\ loans' = [n \in 1..MaxLoans |->
                 IF loans[n] = NoLoan THEN NoLoan ELSE [loans[n] EXCEPT !.days = @ - 1]]
  /\ UNCHANGED <<liquid, held, outside, pool, fund, funded, holders, order, queue,
                 delband, weight>>

\* nobody has more than celes.rex, or more shares than there are
Next ==
  \/ Tick
  \/ \E max \in 0..RunMax + 1 : RexExec(max)
  \/ \E x \in 1..Fees : ChannelToRex(x) \/ ChannelNamebidToRex(x)
  \/ \E a \in Accounts :
       \/ CnclRexOrder(a) \/ UpdateRex(a) \/ Consolidate(a) \/ CloseRex(a)
       \/ \E x \in 1..liquid[a] : Deposit(a, x)
       \/ \E x \in 1..held :
            \/ Withdraw(a, x) \/ BuyRex(a, x)
            \/ \E n \in 1..MaxLoans : FundLoan(a, n, x) \/ DefundLoan(a, n, x)
            \/ \E r \in Receivers, k \in Kinds, b \in 0..held - x : RentRex(a, r, k, x, b)
       \/ \E rex \in 1..pool.rex : SellRex(a, rex) \/ MvToSavings(a, rex) \/ MvFrSavings(a, rex)
       \/ \E r \in Accounts, net, cpu \in 0..Staked : UnstakeToRex(a, r, net, cpu)

(***************************************************************************)
(* Time goes on, and somebody keeps running the maintenance, which every   *)
(* account may do with rexexec and every user of REX does unasked.         *)
(***************************************************************************)
Fairness == WF_vars(Tick) /\ WF_vars(RexExec(RunMax))

Spec == Init /\ [][Next]_vars /\ Fairness

-----------------------------------------------------------------------------
LoanType == [kind : Kinds, from : Renters, receiver : Receivers, payment : Nat \ {0},
             balance : Nat, staked : Nat \ {0}, days : (0 - MaxOverdue)..LoanDays]

\* The tables keep their types: no balance, total or weight goes below 0, and only
\* accounts with a row in a table have anything there.
TypeOK ==
  /\ liquid \in [Accounts -> Nat]
  /\ held \in Nat /\ outside \in Nat
  /\ pool \in [open : BOOLEAN, lent : Nat, unlent : Nat, lendable : Nat, rex : Nat,
               namebid : Nat, loan_num : 0..MaxLoans]
  /\ fund \in [Accounts -> Nat] /\ funded \subseteq Accounts
  /\ \A a \in Accounts \ funded : fund[a] = 0
  /\ holders \subseteq Accounts
  /\ \A a \in Accounts :
       /\ DOMAIN rexbal[a] = {"rex", "matured", "maturities"}
       /\ rexbal[a].rex \in Nat /\ rexbal[a].matured \in Nat
       /\ rexbal[a].maturities \in Seq((0..EndOfDays) \X Nat)
       /\ a \notin holders => rexbal[a] = NoShares
  /\ order \in [Accounts -> [open : BOOLEAN, requested : Nat, proceeds : Nat]]
  /\ loans \in [1..MaxLoans -> {NoLoan} \cup LoanType]
  /\ delband \in [Accounts -> [Accounts -> [Kinds -> Nat]]]
  /\ weight \in [Accounts -> [Kinds -> Nat]]

LoanSum(Part(_)) ==
  AccountTotal([n \in 1..MaxLoans |-> IF loans[n] = NoLoan THEN 0 ELSE Part(loans[n])],
               MaxLoans)

\* The tokens of celes.rex are what the funds, the loans' balances, the pool and the
\* proceeds of filled orders add up to, whichever of the handlers moved them.
RexIsBacked ==
  held = AccountTotal(fund, N) + LoanSum(LAMBDA l : l.balance) + pool.lendable
         + AccountTotal([a \in Accounts |-> order[a].proceeds], N)

\* The pool's totals, which the handlers update apart from each other, agree with
\* each other, with the loans and with the shares of all accounts, and a pool with
\* shares has tokens ("total_lendable > 0 if total_rex > 0 except in a rare case").
PoolAddsUp ==
  /\ pool.lendable = pool.unlent + pool.lent
  /\ pool.lent = LoanSum(LAMBDA l : l.staked)
  /\ pool.rex = AccountTotal([a \in Accounts |-> rexbal[a].rex], N)
  /\ (pool.rex = 0) = (pool.lendable = 0)

\* An account's shares are its matured ones and those in its buckets, which stand in
\* the order they mature with savings last; what its open order asks for is matured,
\* and the queue holds just the open orders, all of them of accounts with shares.
SharesAreHeld ==
  /\ \A a \in Accounts :
       LET m == rexbal[a].maturities
       IN /\ rexbal[a].rex = rexbal[a].matured + AmountIn(m, Len(m))
          /\ \A i \in 2..Len(m) : m[i - 1][1] < m[i][1] \/ m[i][1] = 0
          /\ InOrder(Db, a) <= rexbal[a].matured
          /\ order[a].open => a \in holders /\ order[a].requested > 0
  /\ {queue[i] : i \in 1..Len(queue)} = {a \in Accounts : order[a].open}
  /\ \A i, j \in 1..Len(queue) : queue[i] = queue[j] => i = j

\* An account's resource totals are what is staked for it and what is rented for it:
\* a loan's weight goes when the loan does, through all renewals.
LimitsAreRented ==
  \A r \in Accounts, k \in Kinds :
    weight[r][k] =
      AccountTotal([o \in Accounts |-> delband[o][r][k]], N)
      + LoanSum(LAMBDA l : IF l.receiver = r /\ l.kind = k THEN l.staked ELSE 0)

\* runrex works on other accounts' loans and orders and nobody can act without it:
\* it never fails, in any of its outcomes, on what it finds there.
RunRexCannotFail ==
  pool.open =>
    /\ \A k \in Kinds : \A n \in Expired(Db, k) : Closings(Db, n) # {}
    /\ RunRex(Db, RunMax) # {}

\* A share never loses value: whatever is bought, sold, rented, closed or channelled,
\* the tokens per share of the pool do not fall, the rounding included.
ShareValueNeverFalls ==
  [][pool.rex > 0 /\ pool'.rex > 0 =>
       pool'.lendable * pool.rex >= pool.lendable * pool'.rex]_vars

\* While an order waits, no more is lent: a loan is neither made nor renewed to more.
NoLoanPassesAnOrder ==
  [][\A a \in Accounts : order[a].open /\ order'[a].open => pool'.lent <= pool.lent]_vars

\* An order that waits is filled or cancelled in the end, whatever the others do ("the
\* system is designed to execute this sell order within 30 days").
OrdersAreFilled == \A a \in Accounts : order[a].open ~> ~order[a].open
=============================================================================
