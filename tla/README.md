# A verification development for the CELES system contracts

TLA+ specifications of the contracts under `src/contracts/` (C++ for an EOSIO
chain), the TLC configurations that check them on small instances, and
theorems about them that the TLA+ proof system checks for every instance.

EOSIO runs actions one after another. An action either succeeds as a whole or,
when a check fails, changes nothing. So each action handler is one TLA+ action
here, its checks are the guard, and a failed check is a disabled action. What
makes the contracts hard is not threads but the *sequences*: any account may call any
action at any time, deferred transactions arrive later, in an order nobody
chose and perhaps never, every block runs `onblock`, and tables that must agree
are changed by different handlers, often a few rows at a time.

## 1. Inventory

| Component | State | Operations | Interacts with |
|---|---|---|---|
| **celes.token** (`celes.token.cpp`) | `stat` (supply, max_supply, issuer), `accounts` (a balance per holder) | create, issue, retire, transfer, open, close | every other contract, by inline transfers and `get_balance` |
| **Wood voting and election** (`voting.cpp`, `producer_pay.cpp:69-89`) | `producers` (active, valid_woods), `voters` (proxy), `woodburns`, `woodbpblocks`, `woodblocks`; of the global row: schedule block, network activation, total_wood | regproducer, unregprod, rmvproducer, regproxy, setproxy, voteproducer; in onblock: difficulty, cleaning, election | the chain (`verify_wood`, `set_proposed_producers`, difficulty); pay (unpaid woods) |
| **Producer and DBP pay** (`producer_pay.cpp`) | unpaid fee and woods per producer and in total, claim times, `dbps`, `bppunish`, activation flags; six token accounts | onblock, claimrewards, regdbp, unregdbp, activedbp, limitbps, unlimitbp | token (pools), voting (woods), msig (limitbps) |
| **celesos.msig** | `proposal`, `approvals` (four lists), `invals`, `bppunish` | propose, approve, abstain, unapprove, cancel, exec, invalidate | the chain's authorization check and deferred queue; limitbps |
| **Bandwidth staking** (`delegate_bandwidth.cpp:272-511`) | `delband`, `userres`, `refunds`, the account celes.stake, one deferred refund per account | delegatebw, undelegatebw, refund | token; the deferred queue; REX (unstaketorex); limits |
| **RAM market** (`delegate_bandwidth.cpp:28-262`, `exchange_state.cpp`) | `rammarket`, ram_bytes in `userres`, total_ram_bytes_reserved, total_ram_stake, celes.ram | buyram, buyrambytes, sellram, both ramattenuators, setram, setramrate | token; REX (fees); onblock |
| **Name auction** (`name_bidding.cpp`, `producer_pay.cpp:90-108`) | `namebids`, `bidrefunds`, celes.names, deferred refunds | bidname, bidrefund, the close in onblock, newaccount | token; REX (proceeds); account creation |
| **REX** (`rex.cpp`) | pool, fund, balances with maturities, loans, sell queue | deposit, withdraw, buyrex, sellrex, loans, savings, rexexec, ... | token; staking; RAM and name fees |
| **System settings** (`celesos.system.cpp`) | parameters, resource flags in `voters`, the limits the chain enforces | setram, setacct*, setalimits, newaccount, init, ... | all of the above |
| **poolcontract** | a stake and a settlement block per account; of the pool: total stake, coefficient, rewards, last settlement | apply (on a transfer), unstake | token; the deferred queue |
| **celes.unregd** | `addresses` (an amount per Ethereum address), `settings` (the most it pays for RAM) | add, chngaddress, setmaxceles, regaccount | account creation; RAM; staking; token |
| celesos.bios, celesos.wrap, native, celesos.test | (none to speak of) | forwarders | - |

What makes each correct, and what is hard about it:

* *Token*: the supply is exactly what the holders hold, and unchecked additions
  cannot overflow. Hard: issue, retire and transfer write two rows each, close
  erases one.
* *Voting*: a producer's `valid_woods` is the sum of its rows per block; a wood
  counts once; a live wood keeps counting; the election takes the most voted.
  Hard: every table is cleaned in slices of at most five rows, by votes and by
  blocks before an election, each with its own bound, and an index orders
  inactive producers by the opposite sign.
* *Pay*: fees noted in two places stay covered by the paying account; a share
  never exceeds what it is a share of; payouts are spaced. Hard: claims that
  forget without paying, 32-bit counters, a balance read while transfers
  are queued, two roles of one account with a claim time each.
* *Msig*: an execution rests on approvals that stand; one who voted is not
  punished as silent. Hard: three lists with repeated entries, a requested level
  that may be repeated too, times that are equal within a block, names used again, state
  kept from one execution to the next.
* *Staking*: celes.stake covers stakes and refunds; refunds are never early.
  Hard: a stake paid partly from a refund, a deferred transaction that is
  replaced, cancelled, or left behind by a refund by hand.
* *Names*: celes.names holds what is bid, refunded or earned; a sale is final.
  Hard: refunds that add up when an account is outbid twice, a deferred call per name
  and bidder that is replaced, one signed number for bid and state, read by an
  index as unsigned.
* *RAM market*: bytes reserved and bytes for sale are the size of the RAM, the quote
  connector is what was staked, no sale wants more than that, no order of trades
  gains. Hard: two fees and two conversions per trade, doubles that are cut, supply that
  comes late and a few bytes a block, attenuators that change the market first and
  decide afterwards whom to charge, limits that four handlers set.
* *REX*: the tokens of celes.rex are what it owes, lent and unlent are lendable,
  shares never lose value, an order that waits is filled. Hard: nearly every action first works on other
  accounts' loans and orders; one failing there would stop everybody; a balance's
  buckets of maturities are consolidated, moved and spent in order.
* *Pool*: the stakes, what waits to be returned and what the contract holds agree; settling
  never divides by zero. Hard: rows read through an end iterator, integer quotients
  that are 0, products that wrap before they are widened, unstakings of negative
  quantities, sender ids of deferred transfers that are a second.
* *Unregd*: an amount is granted once. Hard: an address may get a second row; one
  registration is five actions over three contracts, all or nothing.

`PROJECT.json` lists the hazards of all of these, each at its line.

## 2. Plan

Order: most important behaviour first. Done in this state of the project:

1. `AccountSums`, the sum every conservation invariant is stated with, and its lemmas.
2. `CelesToken`, with all its properties proved.
3. `WoodVoting`, the algorithm that is this chain's own, with proofs.
4. `ProducerPay`, with proofs.
5. `Multisig`, with all its checked properties proved.
6. `StakeVault` (abstract) and `StakeBandwidth` (detailed), with all the
   invariants and the refinement proved.
7. `NameAuction`, with all its properties proved.
8. `RamMarket`, with the RAM limits that newaccount, changebw, setalimits and setacctram
   set; all its properties proved.
9. `Rex`, with the chain's time and maintenance as its fairness, and `unstaketorex` within it;
   all but its liveness proved.
10. `Unregd`, composed with `RamMarket`: a registration buys RAM from that market. Proved
    over the proved market, whose theorems are shown to survive registrations.
11. `PoolStake`, with all its properties proved.

To come:

12. Compositions: `Multisig` with `ProducerPay` (a punishment reaches the
    claim); `NameAuction` and `RamMarket` with `Rex` (proceeds and fees, now
    `ChannelNamebidToRex` and `ChannelToRex`, which take them from `outside`).
13. An abstract specification of REX, a fund whose shares never lose value. The lemmas
    of `RexTheorems` already reduce each action to the pool before and after
    (`Steps`), which is what its refinement would rest on.
14. The net and cpu limits.

## 3. Modules

Accounts are the numbers `1..N` in name order (an EOSIO name is an ordered
64-bit number). A table with a row per account is a function on `1..N`, where a
default value stands for no row when the code cannot tell the two apart, and a
function and a set of row owners when it can.

| Module | Models | State and actions |
|---|---|---|
| `AccountSums` | - | `AccountTotal(f, n)`, a sum by a recursive function |
| `CelesToken` | `celes.token.cpp` | One symbol. One TLA+ action per action; `Credited`, `Debited` and `Covers` are add_balance and sub_balance. The memo, the symbol's precision and who pays for RAM are left out. |
| `WoodVoting` | `voting.cpp`, onblock 69-89 | One TLA+ action per action, and `OnBlock`. `prodstat[p][b]` is the row of woodbpblocks; `StatSlices` and `BurnSlices` are the sets of rows a cleaning may erase (the first few by block; within a block the order of row ids is any). `counted` is a history variable. The difficulty's value is left out, which rows it is computed from is kept. |
| `ProducerPay` | `producer_pay.cpp`, regdbp, unregdbp | `OnBlock`, `ClaimRewards`, `ActiveDbp`, `LimitBp`, `UnlimitBp`, registration. `funds` are the six token accounts. `Rewards` computes the halvings with integers; above the full mark the C++ converts minus infinity to an unsigned, and any halving is allowed. One block is one unit of time. limitbps over a list is a series of `LimitBp`. |
| `Multisig`, `MCMultisig` | `celesos.msig.cpp` | `requested` is the vector that was passed, repetitions included (`Requests` are those proposers pass): a level is looked up in `LevelsIn` it, and who was silent twice is reported once per entry (`Reported` is a set of positions). The agreeing list is kept as a sequence of times per level, the other two as counts: exec reads times of the first only. `stance`, `standing` and `was_silent` are history: what was really said. A transaction's expiration and whether it is the system account's are data of the proposal. |
| `StakeVault` | - | The promise of staking: liquid, staked, returning. |
| `StakeBandwidth` | `delegate_bandwidth.cpp:272-511` | `ChangeBw` with the two actions that call it, `Refund`, and the chain's `DeferredRefund`, which may run late or fail. `due[a]` is the deferred transaction with sender id a. |
| `NameAuction` | `name_bidding.cpp`, onblock 85-110, newaccount, channel_namebid_to_rex | `BidName`, `BidRefund` and the chain's `DeferredRefund`, `OnBlock`, `NewAccount` (a winner's claim) and `NewAccountBySystem`. `RunRex` stands for any REX action: each runs runrex, which takes the proceeds, before it may fill or empty the pool. As in the code, `high_bid` is positive while an auction is open and negative when it is closed; 0 is no row. `attempted`, `spent` and `kept` are history. One block is one unit of time. Names that need no auction (12 characters, or with a dot) are left out. |
| `RamMarket` | `delegate_bandwidth.cpp:28-262`, `exchange_state.cpp`, init, setram, setramrate, update_ram_supply, newaccount, changebw, setalimits, setacctram | `BuyRam`, `BuyRamBytes`, `SellRam`, `OnBlock` (with the attenuation the chain asks for), `SetRam`, `SetRamRate`, and the actions on limits. `market` is the row of rammarket, `gstate` three fields of the global row. The blocks since the last update of the supply are kept (`behind`) in place of two block numbers. An action is written as operators on the record `Db`, as the handlers call each other, and its result is committed. `leaked` is history: bytes an attenuator put up for sale without taking them from anybody. Amounts are small enough for a double to be exact, so a conversion is the integer part of the quotient. |
| `Unregd` | `celes.unregd.cpp`, `snapshot.hpp` | EXTENDS `RamMarket`. `Add`, `ChngAddress`, `SetMaxCeles` and `RegAccount`, which does the newaccount, buyram, delegatebw and transfer that regaccount sends: they succeed or fail with it. The table is a sequence of rows in id order, because a search finds the row with the lowest id. Signatures are left out: whoever registers has an address. |
| `Rex` | `rex.cpp`, and the parts of `celesos.system.hpp` it uses | One TLA+ action per action but setrex. As in the code, an action checks, runs runrex (`RunRex`) and works on what that leaves: each step is an operator on the record `Db`. `loans[n]` is cpuloan and netloan by loan number, `queue` is rexqueue in the order of its index. Times are days left, so that time goes on for ever with finitely many states. The price of a loan is left open: a payment rents anything up to what is unlent. |
| `PoolStake` | `poolcontract.cpp` | `StakeFirst` and `Stake` (a transfer to the contract), `Unstake`, the chain's `Return` and `Lose` of a deferred transfer, which is known by its sender id: the second it was sent in. The clock is the block number, two blocks a second, as the code computes it. A row read through the end iterator reads as zero. The stake of a transfer is positive; `Unstake` takes any quantity up to the row, as the code does, and the deferred transfer of one that is not positive always fails. Integers have their widths (`Int64`, `Uint128`), given by the largest amount of an asset, `MaxAsset`; an asset beyond it fails the action. `first`, `conjured`, `rewarded` and `wrapped` are history: the opening stake, what negative unstakings raised rows by, rewards transferred, and whether a settlement met a number too large for its width. |
| `AccountSumsTheorems`; `TokenPoolTheorems`, `WoodVotingTheorems`, `ProducerTheorems`, `StakeBandwidthTheorems`, `NameAuctionTheorems`, `RamMarketTheorems`, `RexTheorems` | - | Proofs: lemmas on sums, and the theorems of the state machines. `TokenPoolTheorems` has those of `CelesToken` and `PoolStake`, `ProducerTheorems` those of `ProducerPay` and `Multisig`, `RamMarketTheorems` those of `RamMarket` and `Unregd`. |

The chain itself (authorization, `verify_wood`, deferred transactions, resource
weights) is modelled from its use, as the most general behaviour the contracts
may meet: a deferred transaction runs at any time after its delay, or never, or
fails and is dropped; a DBP's resource weight gives any share; a wood verifies for any block of the
forest period.

`VoteProducer` and `RegProducer` are each two views of one handler:
`WoodVoting` has their effect on the vote tables and `ProducerPay` that on the
unpaid counters. Neither reads what the other writes, but for `is_active`,
which both keep.

## 4. Runs

Every run is an exhaustive search. The type invariants of `CelesToken`,
`WoodVoting`, `ProducerPay`, `Multisig`, `StakeBandwidth` and `NameAuction` are theorems
(section 5) and no run repeats them; that of `PoolStake` is part of its proved invariant. `CHECK_DEADLOCK FALSE` is set where a bound (blocks, time)
stops the model.

| Run | Shows | Bounds, and why they are enough |
|---|---|---|
| `CelesToken` | supply = sum of balances; 0 <= balance <= max_supply | four names of which one is no account; amounts to 4, so issue, retire and transfer each meet their limits |
| `WoodVotingElection` | an election proposes the most-voted active producers, ties by name | three candidates for two seats, so that an inactive producer can lie before, between and after the elected; blocks to 5 with an election every 2 and woods expiring after 3 |
| `WoodVotingHistory` | valid_woods is backed by rows, live woods are kept, no wood counts twice, the rows of the last three difficulties exist | a slice of one row, so that a backlog is normal; nine blocks, more than four periods and three elections; a proxy voting for the wood's owner |
| `ProducerPay` | fees <= total <= fund; wood shares fit; payouts spaced | two accounts, one in both roles; pools of 4 with rewards of 2, so every halving and the floor of 1 occurs; FeeLimit 4 so that the 32-bit row wraps; a pool starts at its full mark and deposits disturb a paying account |
| `ProducerPayUnpaid` (violated) | a claim of exactly the fund's balance forgets fees without paying | smallest |
| `Multisig` | voters are listed; executions rest on standing approvals; exactly the twice silent are reported, once per requested entry | two levels; vectors of one, of both, and of both with one twice; one name used three times, three times, two entries of a level in the lists: repeated requests, repeated approvals and equal times occur |
| `MultisigRevoke` (violated) | one unapprove does not revoke two approvals | three entries |
| `StakeBandwidth` | celes.stake is backed, totals are sums, the deferred refund is not early, refinement of `StakeVault` | two accounts with 2 tokens, delay 2 of 4 times: a request, a second one, a restake and both refunds fit |
| `NameAuction` | celes.names is backed, only winners pay, refunds are scheduled, sales are final, auctions close in order | two bidders, two names, bids to 4, so that a bidder is outbid twice on one name before a refund; time for two closes; every block after the first an election; index keys modulo 32, the smallest power of 2 above four times the tokens |
| `RamMarket` (module `Unregd`) | bytes and tokens add up, sales are covered, the product of the connectors never falls, limits follow quotas, every grant is paid out once | three accounts: the system's, unregd's and one not yet there; 6 bytes for sale against a quote of 4 and tokens of 5, so that conversions and fees round in every direction; 7 bytes at most, so that setram, the supply per block and the attenuators all meet the limit; one block behind and one byte attenuated at once; a supply modulo 4 wraps; two addresses and grants of 4 in all, so that an address gets a second row and the tokens do not reach for all; trades until fees are 2. About a million states |
| `Rex` | the books agree, shares and limits are held, runrex cannot fail, shares keep their value, no loan passes an order, orders are filled | a buyer with one token, a renter with two, another staker with one and one token of fees or name proceeds: enough for an empty pool, one whose all is lent, an order that waits for a loan to expire, a renewal and shares that grow; a pool's first token is one share; maintenance of one loan and one order at a time; shares mature in two days, loans end after one and may be a day overdue, so that several are; two loans |
| `PoolStake` | the books add up; until a number leaves its width no settlement pays and every one goes through | two accounts with 2 tokens, six blocks, three seconds; quantities from -4 to 4 with assets of at most 4 and words of 20 values, so that negative unstakings raise rows up to the limit, products of 64 bits wrap, a reward is then paid or a settlement fails, and the pool holds less than it owes; two stakes, settlements, unstakings within one second, and returns that are late or lost. ALL_REWARD / 2 / HALF_LIFT_PERIOD is 0, as it is with the values in the code, and as `PoolAssumption` has it for every instance |

`REWARD_TIME_SEP`, `SINGING_TICKER_SEP`, the forest period and the other
constants of the code are CONSTANTS. The instances keep the order the code has
among them where a property depends on it (`SingingSep` at most the clean-ahead
window and more than the difficulty spacing is not assumed by any property).

Fairness is stated for `Rex` only: `WF_vars(Tick) /\ WF_vars(RexExec(RunMax))`. Time
passes whatever anybody does, and the maintenance is run again and again: any
account may call `rexexec`, and every action on REX runs it unasked. Under it
`OrdersAreFilled` holds: a sell order that waits is filled or cancelled in the end
(the ricardian contract says within 30 days, `celesos.system.contracts.md.in:403`). It needs
nothing from the seller or the renters, who may go on renewing: no loan is made
or renewed to more while an order waits (`NoLoanPassesAnOrder`), and a loan that
expires meanwhile is closed. The other specifications state no fairness: their contracts act only
when somebody calls, and their one scheduled step, onblock, has nothing to wait
for. Where something should happen after a delay, that it is scheduled is a state predicate
instead (`RefundsAreScheduled` of `NameAuction`).

The ricardian contract has an auction close after its conditions held for "two
minutes" (`celesos.system.contracts.md.in:33`), while the code closes only at an election,
at least `6 * SINGING_TICKER_SEP` slots after the last close. `AuctionsCloseInOrder` states what the
code does; no run is spent on the difference.

### Disagreements found

* `ProducerPayUnpaid`: the global total "of blocks produced but not paid"
  (`celesos.system.hpp:180`) keeps fees no producer is owed after a claim that was not paid, because
  `claimrewards` pays only when the fund has strictly more than is due, and
  forgets the fees in either case (`producer_pay.cpp:208-235`).
* `MultisigRevoke`: a level that approved twice stays among the approvals after
  it unapproves (`celesos.msig.cpp:77`, `136-139`), against the ricardian
  contract and the header.

### Further observations, without a run

* A delegation to another account cancels the deferred refund of a pending
  request (`delegate_bandwidth.cpp:435-437`), although the ricardian contract says the
  system will attempt the return. `RefundsAreScheduled` of `StakeBandwidth` states
  the promise, which does not hold; the tokens stay due, and a refund by hand returns them.
* `voting.cpp:362` forbids an account with a proxy to become a proxy;
  `setproxy` allows the same state the other way round.
* Both attenuators add bytes to the market before they look for the account to
  charge, and look for it in the scope of the system account, where only the system
  account's own row is. So bytes for sale and bytes reserved may exceed max_ram_size,
  by `leaked`. `RamAddsUp` says by how much, `SalesAreCovered` that celes.ram is not
  overdrawn by it.
* regaccount pays what 8k of RAM would sell for, less the fee of buyram, and
  so buys fewer bytes than 8k. An amount of exactly the least that it accepts cannot
  be registered, because delegatebw would stake nothing.
* chngaddress may give an address a second row, and the address then registers
  twice, each time for another amount ("only once for each Ethereum address",
  `celes.unregd-regaccount-rc.md:5`). `GrantsAddUp` says that each row is still paid once.
* poolcontract's `unstake` does not ask for a positive quantity (`poolcontract.cpp:99-107`, unlike
  54 and 148). A negative one raises the row and the total without tokens, so that the pool may not
  hold what it owes. `PoolAddsUp` counts that as `conjured`.
* poolcontract pays no reward as long as every number fits its width (`NoRewardIsPaid`): the reward per
  block is an integer quotient that is 0. The products of lines 29 and 43 are of 64 bits and may wrap,
  for a large stake or after a large negative unstaking; then a reward may be paid, or every settlement
  fail.
* In poolcontract, the stake that opens the pool gets no row and cannot be
  unstaked. Two unstakings in one second have the same sender id, and the second fails
  while the first waits.

## 5. Proofs

All theorems hold for every value of the constants that the modules' named
assumptions allow (sizes are naturals, name sets lie within `1..N`, lengths of
periods are positive where the code divides by them or steps by them;
`PoolAssumption` has half of ALL_REWARD less than HALF_LIFT_PERIOD, as the code's
values are). Of the 42 properties the runs check, 39 are theorems: all but the
three named at the end of this section.

* `AccountSumsTheorems`. The sum is a recursive function on an initial segment;
  `SegmentInduction` derives induction over 0..n from the library's induction on
  naturals without an operator parameter, and the rest follows: how the
  sum changes with one term (`AccountTotalChange`), equal functions have equal sums, a sum
  of naturals is a natural and no less than each term, sums split, at an index
  (`AccountTotalLast`, `AccountTotalTail`) or between two functions.
* `TokenPoolTheorems`, the token. The invariant `TokenInv` adds to the three checked
  properties that a name without a row has balance 0: without it `Open`, `Close` and
  `Transfer` to a new row would not preserve the sum. `BalancesBounded` follows
  from non-negative balances and the sum: no term exceeds the sum, which is at most max_supply.
* `TokenPoolTheorems`, the pool. `PoolInv` is the types (`PoolTyped`), `PoolAddsUp`, and
  two facts without which the properties are not inductive. `PoolOpened`: until the pool is opened nothing is
  staked or settled, and the stake that opens it stays in the total for ever, as it has no
  row. `CoefficientAhead`: as long as no number was cut, no reward was paid and the pool's coefficient
  is at least the number of blocks from any account's own settlement to the pool's last. So a share, the
  account's stake times its blocks over the total stake times the coefficient, is less than 1: the opening
  stake keeps the total above the account's, negative unstakings included, as they raise both. The lemmas on widths
  (`Int64Fits`, `Uint128Fits`) say that what fits is not cut. `NoRewardEver` needs the quotient of `PoolAssumption` besides,
  `NoSettlementFails` that a coefficient which has grown is positive. `PoolStaysBacked` and the
  last part of it, that `all_reward` and `all_unreceived_reward` stay ALL_REWARD apart, do not depend on widths.
* `WoodVotingTheorems`. `VotingInv` is the type invariant with
  `ValidWoodsAreBacked` and the facts about burn records that make
  `NoWoodCountedTwice` inductive: each counted vote has its burn record until its
  block is out of the period, and the head never goes back. The lemmas on slices say
  that a slice holds only rows out of the period. `HistoryInv` makes
  `LiveWoodsAreKept` and `DifficultyHistoryIsExact` inductive: an election is never overdue
  (`head < last_schedule + SingingSep`), so that the cleaning of a vote, which reckons from the head, and that of a
  block, which reckons from the next election, both spare the rows that election counts;
  and the row of a block is there before a wood is counted in it. `ElectionTakesTheMostVoted` is
  about the order the index walks in: `StrictOrder`, `Ahead` and `First` say that any strict
  order on finitely many candidates has exactly k with fewer than k ahead of them (if there are as many),
  and `TopIsFirst` that the walk through the index takes these, by woods and then by name (`Better`).
* `ProducerTheorems`, pay. `PayInv` is the type invariant with `BlockFeesAreFunded`,
  `WoodSharesFit` and `ClaimsFollowPayouts`: the claim time of every role an
  account has is no earlier than its last payout in any role. That a claim sets both
  claim times, and that registering sets them to the present, is what makes
  `PayoutsAreSpaced` hold; `PayoutWaited` derives it from one claim's waiting.
  The totals are typed as naturals only together with the two covers: a claim
  subtracts a row from a total, and no row exceeds the sum (`OneRow`). The row's
  modulus loses fees but never adds any (`RemainderFits`).
* `ProducerTheorems`, msig. `MsigInv` says that a level is in no list exactly when it
  said nothing (`ListsFollowStances`: `VotersAreNotSilent` alone says one
  direction, the reports need the other), that an approval which counts is one that
  stands (`ValidApprovalsStand`: an invalidation dates at or after every recorded
  approval), and that the bppunish row holds the levels that were silent. `SilentFacts`
  then has the reported entries of a vector be those of levels silent twice, one by one.
* `StakeBandwidthTheorems`. `StakeInv` is the type invariant with
  `StakeIsBacked`, `TotalsAreSums`, `DeferredIsNotEarly` and `RequestsArePast`. Both
  actions on stakes are first reduced to one statement of what a change of
  stake comes to (`Change`, from `RefundCovers`: what is left of a refund minus what is
  paid is the refund minus the change); the invariant and the refinement
  (`VaultStake`, `VaultRefund`, `VaultStep`) both follow from it.
* `NameAuctionTheorems`. `AuctionInv` adds two facts to the checked invariants:
  proceeds wait only while REX is available (`ProceedsReachRex`), without which
  `PaidToRex` would lose them, and no bid, open or closed, exceeds a bidder's tokens
  (`BidsAreBounded`), without which the signed and the unsigned order of the index
  would not agree. Each action on an auction is reduced to how that one auction's holdings
  and its bidders' stakes change (`Moves`), and `BalancesKept` draws the two
  conservation invariants from it. `KeyOfBid` and `KeysSplit` compute the index keys,
  `LowerBoundIsHighest` shows that the search finds a highest open bid whenever there is
  one, and `AuctionsStayInOrder` follows; `SalesStayFinal` follows from a list of what
  a step may do to a row (`RowChanges`).
* `RamMarketTheorems`. `RamInv` says of the record `Db` that it has its types, that
  totals add up, and that base * quote >= Quote * (base + reserved) (`Worth`). The
  last is why sales are covered: selling all bytes that accounts have would leave
  at least the first quote in the connector (`SaleIsCovered`); the product alone does not say
  so, since supply and attenuation change the sum of bytes. Every action is reduced to a chain of
  records that are each `Sound`, and the product grows along it (`ConversionKeepsProduct`),
  which gives `ProductNeverFalls` as well. `LimitsCoverQuota` is carried by `Covers`:
  each handler sets the limit of the accounts it touches after it changed their bytes
  (`Quota`), whatever it does on the way.
* `RamMarketTheorems`, registrations. A registration is one record after another through the market's own operators, so
  `RegistrationKeepsMarket` follows from the market's lemmas. `UnregInv` is `RamInv` and
  `LimitsCoverQuota` with `Registry` (the table's types, and that the first accounts stay, so that none is
  registered in place of unregd itself), `Accounted` (what was promised is in rows or granted) and `Backed` (all
  the tokens there are: a registration moves them between unregd, celes.ram, the fee account and
  the new account's balance and stake, and makes none).
* `RexTheorems`. The invariant is a predicate on the record `Db`, because an action is not
  in order between its statements: `Sound(d, b, s)` says that with the stakes b the database d is in order but
  for s tokens of celes.rex which are, for now, in nobody's books. Its parts are the types,
  `Books` (the tokens), `Totals` (the pool), `OwnShares` (an account's buckets and order),
  `Queued`, `LoansKept` and `Rented`. `RexInv` is `Sound(Db, delband, 0)`. Facts that the checked
  properties do not state and that it needs: the name proceeds are still outside when runrex fetches them; an open order has no
  proceeds yet; a loan's owner still has a fund row, to which a closed loan's balance is
  returned (closerex may drop the row, `MayDropFund` is why it does not too early); a loan's number has been given out.
  Each operator of `Rex` has a lemma that says what it does to s (`ToFundSound`, `BoughtSound`,
  `ClosingsSound`, `RenewalsSound`, `FilledSound`, ...), and an action's lemma composes them and ends with s = 0. While an
  order is being filled it may ask for more than is matured (`SoundBut`). What runrex does with up
  to max loans and orders is carried along its recursion (`LoansProcessedSound`, `OrdersTriedSound`), which
  also shows that there is always an outcome: `RunRexNeverFails`.
  The action properties come from the same lemmas: `Worth` (shares do not lose value) and the
  pool's lent tokens are followed from one record to the next (`Loaned`, `Sold`, `Ran`), and every
  action keeps to `Steps`. `SaleArithmetic` and `PoolBought` are where the quotients are rounded.
* Only model-checked: `OrdersAreFilled` of `Rex`, which rests on fairness, out of this prover's
  reach as is ENABLED; and the two disagreements, `TotalIsUnpaidFees` and
  `RevokedApprovalsAreGone`, which do not hold.

## 6. Not modelled

* Of REX: `setrex` and the price of loans (`total_rent`, a double, and the Bancor output it
  gives), for which every outcome is allowed; `vote_stake` and the votes needed to buy, which
  change no vote in this code.
* The net and cpu limits set by `changebw`, `setacctnet` and `setacctcpu`: they follow the
  totals, which are modelled. `setparams` and `setpriv` pass their argument on to the chain.
* Doubles whose rounding shows: the modules that convert say up to which amounts
  they are exact (a product of connectors and amount below 2^53 is), and a large market is outside.
* The signatures and addresses of `celes.unregd`, with its vendored elliptic curves,
  hashes and number formatting.
* `celesos.bios`, `celesos.wrap`, the native actions and `celesos.test`: forwarders to
  the chain and empty handlers without state of their own.
* Left out of the modules on purpose: `total_dbp_count` (nothing reads it), URLs, keys,
  locations, memos, notifications (`require_recipient`) and who pays for RAM.
