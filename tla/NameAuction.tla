---------------------------- MODULE NameAuction ----------------------------
(***************************************************************************)
(* The auction of premium account names in celesos.system: bidname and     *)
(* bidrefund in name_bidding.cpp, the close in onblock, the claim of a     *)
(* name in newaccount, and the way of the proceeds to REX.                 *)
(*                                                                         *)
(* A bid is moved to celes.names at once.  When it is outbid it becomes a  *)
(* refund; a deferred transaction is to call bidrefund, which anybody may  *)
(* call as well.  An election may close one auction: its row stays, with   *)
(* the bid negated, until the winner creates the account.                  *)
(***************************************************************************)
EXTENDS Integers, AccountSums

CONSTANTS
  N,           \* accounts that bid, ordered, are 1..N
  M,           \* premium names, ordered, are 1..M
  Liquid,      \* tokens each bidder starts with
  RaisePart,   \* 10: the part of the highest bid that a raise must exceed
  IdleTime,    \* useconds_six_hour (24 hours), in blocks
  SingingSep,  \* SINGING_TICKER_SEP
  CloseSep,    \* 6 * SINGING_TICKER_SEP
  KeyLimit,    \* 2^64, the modulus of by_high_bid
  MaxBid,      \* bounds on the states explored: a bid,
  MaxTime      \*   and the time, in blocks

ASSUME AuctionAssumption ==
  /\ N \in Nat /\ M \in Nat /\ Liquid \in Nat /\ RaisePart \in Nat \ {0}
  /\ IdleTime \in Nat /\ SingingSep \in Nat /\ CloseSep \in Nat
  /\ MaxBid \in Nat /\ MaxTime \in Nat
  /\ KeyLimit \in Nat \ {0} /\ KeyLimit > 4 * Liquid

Bidder  == 1..N
Auction == 1..M

VARIABLES
  now,             \* current_time_point; the head block is now - 1
  last_schedule,   \* last_producer_schedule_block
  network_active,  \* is_network_active
  last_name_close, \* last_name_close, a slot
  rex_available,   \* the REX pool is initialized and not empty
  proceeds,        \* namebid_proceeds of the REX pool
  liquid,          \* the bidders' balances in the token contract
  names_balance,   \* the balance of celes.names
  high_bid,        \* name_bid.high_bid: negative is closed, 0 is no row
  high_bidder,     \* name_bid.high_bidder, kept when the row is erased
  last_bid_time,   \* name_bid.last_bid_time, likewise
  refunds,         \* bidrefunds: amounts by name and bidder; 0 is no row
  deferred,        \* <<name, bidder>> of the deferred bidrefunds to come
  accounts,        \* premium names that are accounts
  attempted,       \* history: refunds a deferred call has tried
  spent,           \* history: what each bidder paid for auctions it won
  kept             \* history: proceeds that are not channelled to REX

rowVars  == <<high_bid, high_bidder, last_bid_time>>
callVars == <<refunds, deferred, attempted>>
timeVars == <<now, last_schedule, network_active, last_name_close>>
saleVars == <<spent, kept>>
rexVars  == <<rex_available, proceeds>>
vars == <<timeVars, rexVars, liquid, names_balance, rowVars, callVars, accounts, saleVars>>

TypeOK ==
  /\ now \in Nat
  /\ last_schedule \in 0..now
  /\ network_active \in BOOLEAN
  /\ last_name_close \in 0..now
  /\ rex_available \in BOOLEAN
  /\ proceeds \in Nat
  /\ liquid \in [Bidder -> Nat]
  /\ names_balance \in Nat
  /\ high_bid \in [Auction -> Int]
  /\ high_bidder \in [Auction -> 0..N]
  /\ \A x \in Auction : high_bid[x] # 0 => high_bidder[x] \in Bidder
  /\ last_bid_time \in [Auction -> 0..now]
  /\ refunds \in [Auction -> [Bidder -> Nat]]
  /\ deferred \in SUBSET (Auction \X Bidder)
  /\ accounts \in SUBSET Auction
  /\ attempted \in SUBSET (Auction \X Bidder)
  /\ spent \in [Bidder -> Nat]
  /\ kept \in Nat

Init ==
  /\ now = 1 /\ last_schedule = 0 /\ network_active = FALSE /\ last_name_close = 0
  /\ rex_available = FALSE /\ proceeds = 0
  /\ liquid = [a \in Bidder |-> Liquid] /\ names_balance = 0
  /\ high_bid = [x \in Auction |-> 0]
  /\ high_bidder = [x \in Auction |-> 0]
  /\ last_bid_time = [x \in Auction |-> 0]
  /\ refunds = [x \in Auction |-> [a \in Bidder |-> 0]]
  /\ deferred = {} /\ accounts = {} /\ attempted = {}
  /\ spent = [a \in Bidder |-> 0] /\ kept = 0

-----------------------------------------------------------------------------
(* bidname.                                                                *)

(* A closed auction has a negative bid, which any bid would raise.         *)
MayRaiseAny(x, q) == q - high_bid[x] > high_bid[x] \div RaisePart
MayRaise(x, q) ==
  /\ high_bid[x] > 0
  /\ q - high_bid[x] > high_bid[x] \div RaisePart

(* The refund due to the one outbid, and the deferred call for it, which   *)
(* replaces the one before.                                                *)
RefundReplaced(x) == [refunds EXCEPT ![x][high_bidder[x]] = high_bid[x]]
RefundAdded(x) == [refunds EXCEPT ![x][high_bidder[x]] = @ + high_bid[x]]
CallOf(bidder, x) == {<<x, bidder>>}
CallFor(bidder, x) == {<<x, high_bidder[x]>>}

Bid(bidder, x, q) ==
  /\ high_bid' = [high_bid EXCEPT ![x] = q]
  /\ high_bidder' = [high_bidder EXCEPT ![x] = bidder]
  /\ last_bid_time' = [last_bid_time EXCEPT ![x] = now]
  /\ liquid' = [liquid EXCEPT ![bidder] = @ - q]
  /\ names_balance' = names_balance + q

BidName(bidder, x, q) ==
  /\ x \notin accounts
  /\ q > 0
  /\ q <= liquid[bidder]
  /\ Bid(bidder, x, q)
  /\ \/ /\ high_bid[x] = 0
        /\ UNCHANGED callVars
     \/ /\ high_bid[x] # 0
        /\ MayRaise(x, q)
        /\ high_bidder[x] # bidder
        /\ refunds' = RefundAdded(x)
        /\ deferred' = deferred \union CallFor(bidder, x)
        /\ attempted' = attempted \ CallFor(bidder, x)
  /\ UNCHANGED <<timeVars, rexVars, accounts, saleVars>>

-----------------------------------------------------------------------------
(* bidrefund: by anybody, or by the deferred call.                         *)
Erased(x, bidder) == [refunds EXCEPT ![x][bidder] = 0]

PayRefund(x, bidder) ==
  /\ refunds[x][bidder] > 0
  /\ liquid' = [liquid EXCEPT ![bidder] = @ + refunds[x][bidder]]
  /\ names_balance' = names_balance - refunds[x][bidder]
  /\ refunds' = Erased(x, bidder)
  /\ attempted' = attempted \ {<<x, bidder>>}

BidRefund(x, bidder) ==
  /\ PayRefund(x, bidder)
  /\ UNCHANGED <<timeVars, rexVars, rowVars, deferred, accounts, saleVars>>

(* The chain runs a deferred call if it can afford to, and drops it anyway. *)
DeferredRefund(x, bidder) ==
  /\ <<x, bidder>> \in deferred
  /\ deferred' = deferred \ {<<x, bidder>>}
  /\ \/ PayRefund(x, bidder)
     \/ /\ attempted' = attempted \union {<<x, bidder>>}
        /\ UNCHANGED <<refunds, liquid, names_balance>>
  /\ UNCHANGED <<timeVars, rexVars, rowVars, accounts, saleVars>>

-----------------------------------------------------------------------------
(* The close in onblock.                                                   *)

(* The index orders the rows by the opposite of the bid, as an unsigned:   *)
(* open auctions, the highest bid first, are in its upper half.            *)
ByHighBid(x) == (-high_bid[x]) % KeyLimit
WholeIndex == 0
UpperHalf == (KeyLimit - 1) \div 2

Rows == {x \in Auction : high_bid[x] # 0}
Precedes(x, y) ==
  \/ ByHighBid(x) < ByHighBid(y)
  \/ ByHighBid(x) = ByHighBid(y) /\ x <= y

(* What lower_bound finds: one row or none.                                *)
LowerBound == {x \in Rows : ByHighBid(x) >= UpperHalf /\
                 \A y \in Rows : ByHighBid(y) >= UpperHalf => Precedes(x, y)}

BidIsIdle(x) == now + 1 - last_bid_time[x] > IdleTime
Closable == {x \in LowerBound : high_bid[x] > 0 /\ BidIsIdle(x)}

(* channel_namebid_to_rex                                                  *)
Channelled(q) == IF rex_available THEN q ELSE 0

Close(x) ==
  /\ last_name_close' = now
  /\ high_bid' = [high_bid EXCEPT ![x] = -@]
  /\ proceeds' = proceeds + Channelled(high_bid[x])
  /\ kept' = kept + high_bid[x] - Channelled(high_bid[x])
  /\ spent' = [spent EXCEPT ![high_bidder[x]] = @ + high_bid[x]]

IsElection == now - last_schedule >= SingingSep

(* onblock, whose election may activate the network.                       *)
OnBlock(activates) ==
  /\ now < MaxTime
  /\ now' = now + 1
  /\ last_schedule' = IF IsElection THEN now ELSE last_schedule
  /\ network_active' = (network_active \/ (IsElection /\ activates))
  /\ LET closing == {x \in Closable : IsElection /\ network_active'
                                      /\ now - last_name_close >= CloseSep}
     IN \/ \E x \in closing : Close(x)
        \/ closing = {} /\ UNCHANGED <<last_name_close, high_bid, proceeds, saleVars>>
  /\ UNCHANGED <<rex_available, liquid, names_balance, high_bidder, last_bid_time,
                 callVars, accounts>>

-----------------------------------------------------------------------------
(* newaccount for a premium name: by the winner of a closed auction, and   *)
(* by the system account, which the auction does not concern.              *)
NewAccount(creator, x) ==
  /\ x \notin accounts
  /\ high_bid[x] < 0
  /\ high_bidder[x] = creator
  /\ accounts' = accounts \union {x}
  /\ high_bid' = [high_bid EXCEPT ![x] = 0]
  /\ UNCHANGED <<timeVars, rexVars, liquid, names_balance, high_bidder, last_bid_time,
                 callVars, saleVars>>

NewAccountBySystem(x) ==
  /\ x \notin accounts
  /\ accounts' = accounts \union {x}
  /\ UNCHANGED <<timeVars, rexVars, liquid, names_balance, rowVars, callVars, saleVars>>

(* A REX action.  Each runs runrex, which channels the proceeds, and only  *)
(* afterwards may a sale empty the pool (or, before the first purchase and *)
(* while there are no proceeds, a purchase fill it).                       *)
Unpaid(q) == names_balance
PaidToRex(q) == names_balance - Channelled(q)
RunRex(available) ==
  /\ proceeds' = 0
  /\ names_balance' = PaidToRex(proceeds)
  /\ rex_available' = available
  /\ UNCHANGED <<timeVars, liquid, rowVars, callVars, accounts, saleVars>>

Next ==
  \/ \E a \in Bidder, x \in Auction, q \in 1..MaxBid : BidName(a, x, q)
  \/ \E x \in Auction, a \in Bidder : BidRefund(x, a)
  \/ \E x \in Auction, a \in Bidder : DeferredRefund(x, a)
  \/ \E activates \in BOOLEAN : OnBlock(activates)
  \/ \E a \in Bidder, x \in Auction : NewAccount(a, x)
  \/ \E x \in Auction : NewAccountBySystem(x)
  \/ \E available \in BOOLEAN : RunRex(available)

Spec == Init /\ [][Next]_vars

-----------------------------------------------------------------------------
OpenBid(x) == IF high_bid[x] > 0 THEN high_bid[x] ELSE 0

(* celes.names holds exactly the open bids, the refunds and the proceeds,  *)
(* those due to REX and those nobody takes: no refund can fail for lack of *)
(* tokens, however often a bidder is outbid before it is refunded.         *)
NamesAreBacked ==
  names_balance = AccountTotal([x \in Auction |-> OpenBid(x) + AccountTotal(refunds[x], N)], M)
                  + proceeds + kept

(* What an account has in one auction.                                     *)
InAuction(a, x) == (IF high_bidder[x] = a THEN OpenBid(x) ELSE 0) + refunds[x][a]

(* A bidder's tokens go nowhere but to auctions it won.                    *)
OnlyWinnersPay ==
  \A a \in Bidder :
    liquid[a] + AccountTotal([x \in Auction |-> InAuction(a, x)], M) + spent[a] = Liquid

(* "The system will attempt to automatically do this on behalf of" the one *)
(* outbid (celesos.system.contracts.md.in:29): a refund has a deferred     *)
(* call to come, or one has been tried since the bid was last outbid.      *)
RefundsAreScheduled ==
  \A x \in Auction, a \in Bidder :
    refunds[x][a] > 0 => <<x, a>> \in deferred \union attempted

(* "Only highest bidder can claim" (celesos.system.cpp:356): a closed      *)
(* auction keeps its winner and its price until the winner's claim; a name *)
(* is not auctioned again.                                                 *)
SalesAreFinal ==
  [][\A x \in Auction : high_bid[x] < 0
       => \/ high_bid'[x] = high_bid[x] /\ high_bidder'[x] = high_bidder[x]
          \/ high_bid'[x] = 0 /\ x \in accounts' \ accounts]_vars

(* An auction closes in an election, a spacing after the last one, if and  *)
(* only if its bid is highest of the open ones and was made over 24 hours  *)
(* ago; closed auctions waiting to be claimed are never in the way.        *)
HighestOpen(x) == high_bid[x] > 0 /\ \A y \in Auction : high_bid[y] <= high_bid[x]
ClosedNow(x) == high_bid[x] > 0 /\ high_bid'[x] < 0
AuctionsCloseInOrder ==
  [][/\ \A x \in Auction : ClosedNow(x) => HighestOpen(x) /\ BidIsIdle(x)
     /\ /\ now' # now /\ IsElection /\ network_active' /\ now - last_name_close >= CloseSep
        /\ \E x \in Auction : HighestOpen(x)
        /\ \A x \in Auction : HighestOpen(x) => BidIsIdle(x)
        => \E x \in Auction : ClosedNow(x)]_vars
=============================================================================
