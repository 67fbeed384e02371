----------------------------- MODULE PoolStake ------------------------------
(***************************************************************************)
(* poolcontract: a transfer of CELES to it is a stake, and an unstaking is *)
(* returned by a deferred transfer.  Every settlement (calculate_reward)   *)
(* of an account updates a reward and a coefficient of the whole pool and  *)
(* pays the account its share.                                             *)
(*                                                                         *)
(* calculate_reward reads a row through the end iterator when the account  *)
(* has none; a null object in the zeroed memory of a contract reads as a   *)
(* stake of 0.  The log and pow of the reward are taken as what they       *)
(* compute on the amounts.                                                 *)
(*                                                                         *)
(* Integers have their widths.  A stake or the total times a number of     *)
(* blocks is a product of 64 bits with a sign, extended to the 128 bits    *)
(* without a sign of the coefficient; a reward is cut back to 64.  An      *)
(* asset refuses to be larger than MaxAsset, which fails the action.       *)
(*                                                                         *)
(* A stake is a transfer and so positive.  unstake compares its quantity   *)
(* only with the row: it takes 0 and negative ones, which raise the row    *)
(* and the total, and whose transfer the token then refuses.               *)
(*                                                                         *)
(* A deferred transfer is known by its sender id, the second it was sent   *)
(* in, so those that wait are a function of the seconds of a run.          *)
(***************************************************************************)
EXTENDS Integers, AccountSums

CONSTANTS
  Stakers,    \* accounts are 1..Stakers
  Tokens,     \* what each has
  AllReward,  \* ALL_REWARD
  HalfLife,   \* HALF_LIFT_PERIOD
  Delay,      \* delay_sec of an unstaking
  MaxAsset,   \* asset::max_amount, one less than a quarter of a word
  MaxBlock    \* bound on the head block

\* ALL_REWARD / 2 / HALF_LIFT_PERIOD is 0 with the values in the code; the supply of the
\* token is an asset
ASSUME PoolAssumption ==
  /\ Stakers \in Nat \ {0} /\ Tokens \in Nat /\ AllReward \in Nat \ {0}
  /\ HalfLife \in Nat \ {0} /\ AllReward \div 2 < HalfLife
  /\ Delay \in Nat /\ MaxBlock \in Nat \ {0}
  /\ MaxAsset \in Nat /\ AllReward <= MaxAsset /\ Stakers * Tokens <= MaxAsset

Accounts == 1..Stakers

Amounts == -MaxAsset..MaxAsset

\* 2^63, 2^64 and 2^128
SignBit == 2 * (MaxAsset + 1)
Word == 2 * SignBit
DoubleWord == Word * Word

\* what an int64 and a uint128 hold of a result; a negative int64 that becomes a uint128
\* is extended by its sign
Int64(x) == ((x + SignBit) % Word) - SignBit
Uint128(x) == x % DoubleWord

Positive(x) == IF x > 0 THEN x ELSE 0

\* there are two blocks in a second
SecondOf(b) == (b + 1) \div 2

LastSecond == SecondOf(MaxBlock)

NoTransfer == [to |-> 0, quantity |-> 0]

VARIABLES
  block,    \* the head block
  liquid,   \* token balance per account
  held,     \* token balance of the pool
  gstate,   \* the fields of stake_global_state
  stakes,   \* s_stake_amount, and 0 without a row
  settled,  \* s_settlement, and 0 without a row
  deferred, \* the deferred transfers that wait, by sender id
  lost,     \* what those that failed or expired would have returned
  first,    \* history: the stake that opened the pool
  conjured, \*   what negative unstakings raised rows by,
  rewarded, \*   the rewards transferred,
  wrapped   \*   and whether a settlement met a number too large for its width

history == <<first, conjured, rewarded, wrapped>>
poolVars == <<block, liquid, held, gstate, stakes, settled, deferred, lost, history>>

PoolInit ==
  /\ block = 1
  /\ liquid = [a \in Accounts |-> Tokens]
  /\ held = 0
  /\ gstate = [all_stake |-> 0, last_settlement |-> 0, all_coefficient |-> 0,
               all_unreceived_reward |-> 0, all_reward |-> 0]
  /\ stakes = [a \in Accounts |-> 0]
  /\ settled = [a \in Accounts |-> 0]
  /\ deferred = [s \in 1..LastSecond |-> NoTransfer]
  /\ lost = 0
  /\ first = 0 /\ conjured = 0 /\ rewarded = 0 /\ wrapped = FALSE

Seconds == SecondOf(block)

-----------------------------------------------------------------------------
IsPowerOf2(p) == \A e \in 3..p : p % e = 0 => e % 2 = 0

\* half_life_period is how often what is left of the reward was halved, the logarithm of
\* a quotient rounded down: this is two to that power
Halvings(left) ==
  CHOOSE p \in 1..AllReward :
    /\ IsPowerOf2(p)
    /\ p <= AllReward \div left /\ AllReward \div left < 2 * p

\* The reward of some blocks; the quotient of the two constants is an integer.
IncreasedReward(blocks, left) ==
  (((AllReward \div 2) \div HalfLife) * blocks) \div Halvings(left)

\* A mutant: the head block is not counted.
AccruedToTheLast(g) ==
  LET blocks == block - g.last_settlement
      left == g.all_reward - g.all_unreceived_reward
  IN IF blocks = 0 THEN g
     ELSE [g EXCEPT !.all_coefficient = Uint128(@ + Int64((blocks - 1) * g.all_stake)),
                    !.all_unreceived_reward = @ + IncreasedReward(blocks - 1, left)]

\* the first part of calculate_reward: nothing is settled twice in a block
Accrued(g) ==
  LET blocks == block - g.last_settlement
      left == g.all_reward - g.all_unreceived_reward
  IN IF blocks = 0 THEN g
     ELSE [g EXCEPT !.all_coefficient = Uint128(@ + Int64(blocks * g.all_stake)),
                    !.all_unreceived_reward = @ + IncreasedReward(blocks, left)]

StakeBlocks(a) == stakes[a] * (block - settled[a])

Divisor(g) == Uint128(g.all_stake * g.all_coefficient)

\* A mutant: a share of the stake alone.
RewardByStake(a, g) == Int64(Uint128(Int64(StakeBlocks(a))) \div g.all_stake)

\* what the account's part of a reward comes to, which is negative if it is cut so
Reward(a, g) == Int64(Uint128(Int64(StakeBlocks(a))) \div Divisor(g))

\* what is subtracted for an account that settles, and what of it is transferred
Due(a) == IF stakes[a] = 0 THEN 0 ELSE Reward(a, Accrued(gstate))
Payable(a) == Positive(Due(a))

\* calculate_reward divides by the coefficient, and by what the pool still has to pay;
\* the reward and the two amounts it is subtracted from are assets
CanSettle(a) ==
  /\ gstate.all_reward > 0
  /\ block > gstate.last_settlement => gstate.all_reward # gstate.all_unreceived_reward
  /\ stakes[a] > 0 =>
       /\ Divisor(Accrued(gstate)) # 0
       /\ Due(a) \in Amounts
       /\ gstate.all_reward - Due(a) \in Amounts
       /\ Accrued(gstate).all_unreceived_reward - Due(a) \in Amounts

\* no number of the settlement is too large for its width
Exact(a) ==
  LET grown == (block - gstate.last_settlement) * gstate.all_stake
      coefficient == gstate.all_coefficient + grown
  IN /\ grown < SignBit /\ coefficient < DoubleWord
     /\ stakes[a] > 0 => /\ StakeBlocks(a) < SignBit
                         /\ gstate.all_stake * coefficient < DoubleWord

\* calculate_reward; an account with no stake returns before last_settlement moves
Settled(a) ==
  LET g == Accrued(gstate)
  IN IF stakes[a] = 0 THEN g
     ELSE [g EXCEPT !.all_unreceived_reward = @ - Due(a),
                    !.all_reward = @ - Due(a),
                    !.last_settlement = block]

-----------------------------------------------------------------------------
\* the stake that opens the pool gets no row
StakeFirst(a, quantity) ==
  /\ gstate.last_settlement = 0
  /\ quantity <= liquid[a]
  /\ gstate' = [all_stake |-> quantity, last_settlement |-> block, all_coefficient |-> 0,
                all_unreceived_reward |-> 0, all_reward |-> AllReward]
  /\ liquid' = [liquid EXCEPT ![a] = @ - quantity]
  /\ held' = held + quantity
  /\ first' = quantity
  /\ UNCHANGED <<block, stakes, settled, deferred, lost, conjured, rewarded, wrapped>>

\* staketoken and unstake settle first, and the reward is transferred if it is positive
Settles(a) ==
  /\ CanSettle(a)
  /\ rewarded' = rewarded + Payable(a)
  /\ wrapped' = (wrapped \/ ~Exact(a))
  /\ settled' = [settled EXCEPT ![a] = block]
  /\ UNCHANGED <<block, lost, first>>

\* apply and staketoken, for a transfer to a pool that is open
Stake(a, quantity) ==
  /\ gstate.last_settlement > 0
  /\ quantity <= liquid[a]
  /\ Settles(a)
  /\ Payable(a) <= held + quantity
  /\ stakes[a] + quantity \in Amounts /\ gstate.all_stake + quantity \in Amounts
  /\ gstate' = [Settled(a) EXCEPT !.all_stake = @ + quantity]
  /\ liquid' = [liquid EXCEPT ![a] = @ - quantity + Payable(a)]
  /\ held' = held + quantity - Payable(a)
  /\ stakes' = [stakes EXCEPT ![a] = @ + quantity]
  /\ UNCHANGED <<deferred, conjured>>

\* A mutant: the pool's total is left as it was.
UnstakedFromRow(g, quantity) == g

\* unstake's last line
Unstaked(g, quantity) == [g EXCEPT !.all_stake = @ - quantity]

\* unstake, of any quantity up to the row: the sender id of the deferred transfer is the
\* second, and one that waits is not replaced
Unstake(a, quantity) ==
  /\ settled[a] > 0
  /\ quantity <= stakes[a]
  /\ Settles(a)
  /\ Payable(a) <= held
  /\ deferred[Seconds] = NoTransfer
  /\ stakes[a] - quantity \in Amounts /\ gstate.all_stake - quantity \in Amounts
  /\ deferred' = [deferred EXCEPT ![Seconds] = [to |-> a, quantity |-> quantity]]
  /\ gstate' = Unstaked(Settled(a), quantity)
  /\ liquid' = [liquid EXCEPT ![a] = @ + Payable(a)]
  /\ held' = held - Payable(a)
  /\ stakes' = [stakes EXCEPT ![a] = @ - quantity]
  /\ conjured' = conjured + Positive(-quantity)

\* The chain executes a deferred transfer when its delay is over; or the transfer fails,
\* as one that is not positive always does, or expires, and the chain has no more of it.
Return(id) ==
  /\ deferred[id] # NoTransfer
  /\ Seconds >= id + Delay
  /\ deferred[id].quantity \in 1..held
  /\ liquid' = [liquid EXCEPT ![deferred[id].to] = @ + deferred[id].quantity]
  /\ held' = held - deferred[id].quantity
  /\ deferred' = [deferred EXCEPT ![id] = NoTransfer]
  /\ UNCHANGED <<block, gstate, stakes, settled, lost, history>>

Lose(id) ==
  /\ deferred[id] # NoTransfer
  /\ Seconds >= id + Delay
  /\ lost' = lost + Positive(deferred[id].quantity)
  /\ deferred' = [deferred EXCEPT ![id] = NoTransfer]
  /\ UNCHANGED <<block, liquid, held, gstate, stakes, settled, history>>

Tick ==
  /\ block' = block + 1
  /\ UNCHANGED <<liquid, held, gstate, stakes, settled, deferred, lost, history>>

PoolNext ==
  \/ block < MaxBlock /\ Tick
  \/ \E a \in Accounts, quantity \in 1..MaxAsset : StakeFirst(a, quantity) \/ Stake(a, quantity)
  \/ \E a \in Accounts, quantity \in Amounts : Unstake(a, quantity)
  \/ \E id \in 1..LastSecond : Return(id) \/ Lose(id)

PoolSpec == PoolInit /\ [][PoolNext]_poolVars

-----------------------------------------------------------------------------
Waiting(transfers) ==
  AccountTotal([id \in 1..LastSecond |-> Positive(transfers[id].quantity)], LastSecond)

\* The pool's books, through every order of settlements, unstakings and returns: all_stake
\* is the stakes in the rows and the stake that opened the pool; what the pool holds falls
\* short of all_stake, the transfers that wait and those lost by exactly the rewards paid
\* and what negative unstakings raised rows by, so it holds all it owes where there were
\* neither; and what a reward takes from all_reward it takes from all_unreceived_reward.
PoolAddsUp ==
  /\ gstate.all_stake = first + AccountTotal(stakes, Stakers)
  /\ held + conjured + rewarded = gstate.all_stake + lost + Waiting(deferred)
  /\ first > 0 => gstate.all_reward - gstate.all_unreceived_reward = AllReward

\* As long as no number has left its width, no settlement pays or subtracts a reward: the
\* reward per block is an integer quotient that is 0, and the coefficient an account's
\* share is divided by grows at least as fast as the share, because the stake that opened
\* the pool has no row to be withdrawn from.  After a product wrapped, one may.
NoRewardIsPaid ==
  ~wrapped =>
    /\ rewarded = 0 /\ gstate.all_unreceived_reward = 0
    /\ first > 0 => gstate.all_reward = AllReward
    /\ first > 0 => \A a \in Accounts : CanSettle(a) /\ Exact(a) => Due(a) = 0

\* As long as no number has left its width, and once the block that opened the pool is
\* over, every account can settle: nothing is divided by zero and no asset is refused, so
\* that no stake and no unstaking fails for it.
SettlementsGoThrough ==
  \A a \in Accounts :
    first > 0 /\ ~wrapped /\ Exact(a) /\ (block > gstate.last_settlement \/ gstate.all_coefficient > 0)
      => CanSettle(a)
=============================================================================
