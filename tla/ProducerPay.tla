---------------------------- MODULE ProducerPay ----------------------------
(***************************************************************************)
(* Paying producers and dapp producers (DBPs), in celesos.system: the pay  *)
(* part of onblock, claimrewards and the punishments in producer_pay.cpp,  *)
(* regdbp and unregdbp in voting.cpp, and what registration and votes do   *)
(* to the unpaid counters.                                                 *)
(*                                                                         *)
(* onblock moves a reward from each of three pools to a paying account and *)
(* notes the block reward in two places, the producer's row and the global *)
(* total; claimrewards later pays from the paying accounts and settles the *)
(* same two places.  One block is one tick of time.                        *)
(***************************************************************************)
EXTENDS Integers, AccountSums

CONSTANTS
  N,               \* account names, ordered, are 1..N
  Producers,       \* names that register as producers
  Dapps,           \* names that register as DBPs
  OriginReward,    \* ORIGIN_REWARD_NUMBER_BPAY, _WPAY and _DPAY
  PoolFull,        \* BPAY_POOL_FULL and WPAY_POOL_FULL
  DappPoolFull,    \* DPAY_POOL_FULL
  DappPayUnactive, \* DAPP_PAY_UNACTIVE
  RewardGetMin,    \* REWARD_GET_MIN
  RewardTimeSep,   \* REWARD_TIME_SEP
  DbpActiveSep,    \* DBP_ACTIVE_SEP
  FeeLimit,        \* 2^32, the modulus of unpaid_block_fee
  GenesisPools,    \* what genesis transfers to each pool
  Punished,        \* names that limitbps is called with
  Deposited,       \* funds that receive transfers from outside
  MaxHead,         \* bounds on the states explored: blocks,
  MaxWood,         \*   unpaid woods,
  MaxPunish,       \*   punishments of one account,
  MaxFund          \*   and the balance up to which a fund is deposited to

(* celes.bpayp, celes.bpay and so on: a pool and a paying account for each *)
(* of the three rewards.                                                   *)
Fund == {"bpayp", "bpay", "wpayp", "wpay", "dpayp", "dpay"}

ASSUME PayAssumption ==
  /\ N \in Nat /\ Producers \subseteq 1..N /\ Dapps \subseteq 1..N
  /\ OriginReward \in Nat /\ PoolFull \in Nat /\ DappPoolFull \in Nat
  /\ DappPayUnactive \in Nat /\ RewardGetMin \in Nat
  /\ RewardTimeSep \in Nat \ {0} /\ DbpActiveSep \in Nat /\ FeeLimit \in Nat \ {0}
  /\ GenesisPools \in Nat /\ Punished \subseteq 1..N /\ Deposited \subseteq Fund
  /\ MaxHead \in Nat /\ MaxWood \in Nat /\ MaxPunish \in Nat /\ MaxFund \in Nat

Name == 1..N

VARIABLES
  head,            \* head block number, and the time in blocks
  registered,      \* owners of rows in the producers table
  active,          \* producer_info.is_active
  prod_claim,      \* producer_info.last_claim_time
  unpaid_fee,      \* producer_info.unpaid_block_fee
  unpaid_wood,     \* producer_info.unpaid_wood
  dbps,            \* owners of rows in the dbps table
  dbp_claim,       \* dbp_info.last_claim_time
  punish,          \* bppunish: punish_count; 0 is no row
  funds,           \* balance of each fund in the token contract
  total_fee,       \* total_unpaid_block_fee
  total_wood,      \* total_unpaid_wood
  network_active,  \* is_network_active
  network_block,   \* network_active_block
  dbp_active,      \* is_dbp_active
  last_payout      \* history: when an account was last paid; 0 is never

prodVars  == <<registered, active, prod_claim>>
dbpVars   == <<dbps, dbp_claim>>
oweVars   == <<unpaid_fee, unpaid_wood, total_fee, total_wood>>
phaseVars == <<network_active, network_block, dbp_active>>
vars == <<head, prodVars, dbpVars, oweVars, phaseVars, punish, funds, last_payout>>

TypeOK ==
  /\ head \in Nat
  /\ registered \in SUBSET Name
  /\ active \in SUBSET registered
  /\ prod_claim \in [Name -> 0..head]
  /\ unpaid_fee \in [Name -> 0..FeeLimit-1]
  /\ unpaid_wood \in [Name -> Nat]
  /\ dbps \in SUBSET Name
  /\ dbp_claim \in [Name -> 0..head]
  /\ punish \in [Name -> Nat]
  /\ funds \in [Fund -> Nat]
  /\ total_fee \in Nat
  /\ total_wood \in Nat
  /\ network_active \in BOOLEAN
  /\ network_block \in 0..head
  /\ dbp_active \in BOOLEAN
  /\ dbp_active => network_active
  /\ last_payout \in [Name -> 0..head]

Zero == [a \in Name |-> 0]

Init ==
  /\ head = 0
  /\ registered = {} /\ active = {} /\ prod_claim = Zero
  /\ unpaid_fee = Zero /\ unpaid_wood = Zero /\ total_fee = 0 /\ total_wood = 0
  /\ dbps = {} /\ dbp_claim = Zero
  /\ punish = Zero
  /\ funds = [f \in Fund |-> IF f \in {"bpayp", "wpayp", "dpayp"} THEN GenesisPools ELSE 0]
  /\ network_active = FALSE /\ network_block = 0 /\ dbp_active = FALSE
  /\ last_payout = Zero

-----------------------------------------------------------------------------
(* Registration.                                                           *)
RegProducer(p) ==
  /\ registered' = registered \union {p}
  /\ active' = active \union {p}
  /\ prod_claim' = IF p \in registered THEN prod_claim ELSE [prod_claim EXCEPT ![p] = head]
  /\ UNCHANGED <<head, dbpVars, oweVars, phaseVars, punish, funds, last_payout>>

(* unregprod, and rmvproducer by the system account.                       *)
UnregProd(p) ==
  /\ p \in registered
  /\ active' = active \ {p}
  /\ UNCHANGED <<head, registered, prod_claim, dbpVars, oweVars, phaseVars, punish, funds, last_payout>>

RegDbp(d) ==
  /\ dbps' = dbps \union {d}
  /\ dbp_claim' = [dbp_claim EXCEPT ![d] = head]
  /\ UNCHANGED <<head, prodVars, oweVars, phaseVars, punish, funds, last_payout>>

UnregDbp(d) ==
  /\ d \in dbps
  /\ dbps' = dbps \ {d}
  /\ dbp_claim' = [dbp_claim EXCEPT ![d] = 0]
  /\ UNCHANGED <<head, prodVars, oweVars, phaseVars, punish, funds, last_payout>>

(* What update_vote does to the unpaid woods (the rest is WoodVoting's).   *)
CountWood(p) ==
  /\ p \in active
  /\ total_wood < MaxWood
  /\ unpaid_wood' = [unpaid_wood EXCEPT ![p] = @ + 1]
  /\ total_wood' = total_wood + 1
  /\ UNCHANGED <<head, prodVars, dbpVars, unpaid_fee, total_fee, phaseVars, punish, funds, last_payout>>

-----------------------------------------------------------------------------
(* Transfers.  A transfer to a fund by anybody, and one between funds; the *)
(* token contract lets no fund be overdrawn.                               *)
Deposit(f) ==
  /\ funds[f] < MaxFund
  /\ funds' = [funds EXCEPT ![f] = @ + 1]
  /\ UNCHANGED <<head, prodVars, dbpVars, oweVars, phaseVars, punish, last_payout>>

Moved(fs, from, to, q) == [fs EXCEPT ![from] = @ - q, ![to] = @ + q]

AtLeastOne(x) == IF x < 1 THEN 1 ELSE x

(* The reward a pool pays per block: OriginReward, halved each time the    *)
(* pool has halved.  Above its full mark the code takes the logarithm of   *)
(* 0 and converts it to an unsigned: any number of halvings may result,    *)
(* the last ones leaving no reward but the least.                          *)
IsPowerOfTwo(d) == \A e \in 3..d : d % e = 0 => e % 2 = 0
Halved(d) == AtLeastOne(OriginReward \div d)
Rewards(full, pool) ==
  IF pool = 0 THEN {0}
  ELSE {Halved(d) : d \in {d \in 1..(full + 2 * OriginReward) :
                             /\ IsPowerOfTwo(d)
                             /\ pool <= full => d <= full \div pool /\ full \div pool < 2 * d}}

(* The block reward is noted in the producer's row, a uint32.              *)
FeeNoted(fees, p, q) == [fees EXCEPT ![p] = (@ + q) % FeeLimit]

(* activedbp empties the account the early DBPs were paid from.  It reads  *)
(* the balance when it starts: not what onblock is about to transfer.      *)
DappFundReturned(fs) == Moved(fs, "dpay", "dpayp", funds["dpay"])

(* onblock, with the rewards b, w and d it finds for the pools.  It may    *)
(* also be the block whose election activates the network.                 *)
OnBlock(producer, activates) ==
  /\ head < MaxHead
  /\ head' = head + 1
  /\ \E b \in Rewards(PoolFull, funds["bpayp"]), w \in Rewards(PoolFull, funds["wpayp"]),
        d \in Rewards(DappPoolFull, funds["dpayp"]) :
       LET bpay == IF network_active /\ producer \in registered THEN b ELSE 0
           wpay == IF network_active /\ producer \in registered THEN w ELSE 0
           dpay == IF network_active THEN d ELSE 0
           paid == Moved(Moved(Moved(funds, "bpayp", "bpay", bpay), "wpayp", "wpay", wpay),
                         "dpayp", "dpay", dpay)
           turn == ~dbp_active /\ network_active' /\ head' - network_block' >= DbpActiveSep
       IN
       /\ bpay <= funds["bpayp"] /\ wpay <= funds["wpayp"] /\ dpay <= funds["dpayp"]
       /\ unpaid_fee' = FeeNoted(unpaid_fee, producer, bpay)
       /\ total_fee' = total_fee + bpay
       /\ network_active' = (network_active \/ activates)
       /\ network_block' = IF ~network_active /\ activates THEN head' ELSE network_block
       /\ dbp_active' = (dbp_active \/ turn)
       /\ funds' = IF turn THEN DappFundReturned(paid) ELSE paid
  /\ UNCHANGED <<prodVars, dbpVars, unpaid_wood, total_wood, punish, last_payout>>

(* activedbp called by the system account.                                 *)
ActiveDbp ==
  /\ ~dbp_active
  /\ network_active
  /\ dbp_active' = TRUE
  /\ funds' = DappFundReturned(funds)
  /\ UNCHANGED <<head, prodVars, dbpVars, oweVars, network_active, network_block, punish, last_payout>>

-----------------------------------------------------------------------------
(* claimrewards.                                                           *)

(* What is due before the minimum is applied: an active producer's noted   *)
(* block fees, its share of the wood account, and a DBP's share of the     *)
(* dapp account (the shares come from the chain: any share is possible).   *)
FeeDue(p)  == IF p \in active THEN unpaid_fee[p] ELSE 0
WoodDue(p) ==
  IF p \in active /\ total_wood > 0 /\ unpaid_wood[p] > 0 /\ funds["wpay"] > 0
  THEN AtLeastOne((funds["wpay"] * unpaid_wood[p]) \div total_wood) ELSE 0
DappDue(d) == IF d \notin dbps THEN {0}
              ELSE IF ~dbp_active THEN {DappPayUnactive} ELSE 0..funds["dpay"]

(* Since the last claim more than one period has passed, and one more for  *)
(* every punishment.                                                       *)
Waited(since, owner) == head - since > (1 + punish[owner]) * RewardTimeSep

(* An amount is transferred only when the account has more than it.        *)
Transferred(fund, q) == IF q > 0 /\ funds[fund] > q THEN q ELSE 0

(* The counters after a claim: what was due is forgotten, paid or not; the *)
(* total of the woods loses what was paid for.                             *)
Kept(owed, p, q) == owed
Forgotten(owed, p, q) == IF q > 0 THEN [owed EXCEPT ![p] = 0] ELSE owed
TotalWoodLessPay(p, q) == IF Transferred("wpay", q) > 0 THEN total_wood - q ELSE total_wood
TotalWoodAfter(p, q) ==
  IF Transferred("wpay", q) > 0 THEN total_wood - unpaid_wood[p] ELSE total_wood

(* The claim time of a row, if the account has one.                        *)
ClaimUnset(times, rows, owner) == times
ClaimedNow(times, rows, owner) ==
  IF owner \in rows THEN [times EXCEPT ![owner] = head] ELSE times

ClaimRewards(owner) ==
  /\ network_active
  /\ owner \in active => Waited(prod_claim[owner], owner)
  /\ owner \in dbps => Waited(dbp_claim[owner], owner)
  /\ \E dapp \in DappDue(owner) :
       LET enough == FeeDue(owner) + WoodDue(owner) + dapp >= RewardGetMin
           bpay == IF enough THEN FeeDue(owner) ELSE 0
           wpay == IF enough THEN WoodDue(owner) ELSE 0
           dpay == IF enough THEN dapp ELSE 0
           b == Transferred("bpay", bpay)
           w == Transferred("wpay", wpay)
           d == Transferred("dpay", dpay)
       IN
       /\ funds' = [funds EXCEPT !["bpay"] = @ - b, !["wpay"] = @ - w, !["dpay"] = @ - d]
       /\ total_fee' = total_fee - b
       /\ total_wood' = TotalWoodAfter(owner, wpay)
       /\ unpaid_fee' = Forgotten(unpaid_fee, owner, bpay)
       /\ unpaid_wood' = Forgotten(unpaid_wood, owner, wpay)
       /\ last_payout' = IF b + w + d > 0 THEN [last_payout EXCEPT ![owner] = head] ELSE last_payout
  /\ prod_claim' = ClaimedNow(prod_claim, registered, owner)
  /\ dbp_claim' = ClaimedNow(dbp_claim, dbps, owner)
  /\ punish' = [punish EXCEPT ![owner] = 0]
  /\ UNCHANGED <<head, registered, active, dbps, phaseVars>>

-----------------------------------------------------------------------------
(* Punishments, by the system account: limitbps for each name of a list,   *)
(* and unlimitbp, which takes one back and then the row.                   *)
LimitBp(a) ==
  /\ punish[a] < MaxPunish
  /\ punish' = [punish EXCEPT ![a] = @ + 1]
  /\ UNCHANGED <<head, prodVars, dbpVars, oweVars, phaseVars, funds, last_payout>>

UnlimitBp(a) ==
  /\ punish[a] > 0
  /\ punish' = [punish EXCEPT ![a] = @ - 1]
  /\ UNCHANGED <<head, prodVars, dbpVars, oweVars, phaseVars, funds, last_payout>>

Next ==
  \/ \E p \in Producers : RegProducer(p)
  \/ \E p \in Producers : UnregProd(p)
  \/ \E d \in Dapps : RegDbp(d)
  \/ \E d \in Dapps : UnregDbp(d)
  \/ \E p \in Producers : CountWood(p)
  \/ \E f \in Deposited : Deposit(f)
  \/ \E p \in Name, activates \in BOOLEAN : OnBlock(p, activates)
  \/ ActiveDbp
  \/ \E a \in Name : ClaimRewards(a)
  \/ \E a \in Punished : LimitBp(a)
  \/ \E a \in Punished : UnlimitBp(a)

Spec == Init /\ [][Next]_vars

-----------------------------------------------------------------------------
(* The fees noted for the producers never exceed the global total, nor the *)
(* total what celes.bpay holds: any claim of noted fees can be paid, even  *)
(* after fees were forgotten unpaid or wrapped around in a producer's row. *)
BlockFeesAreFunded == /\ AccountTotal(unpaid_fee, N) <= total_fee
                      /\ total_fee <= funds["bpay"]

(* The unpaid woods of the producers never exceed their total, so a share  *)
(* of the wood account never exceeds it, and the total never wraps below 0 *)
(* when a claim subtracts the producer's woods from it.                    *)
WoodSharesFit == AccountTotal(unpaid_wood, N) <= total_wood

(* Two payouts to one account are more than a period apart, whatever it    *)
(* does in between: register again as producer or as DBP, drop out, be     *)
(* punished and pardoned, or claim in a role that needs no waiting.        *)
PayoutsAreSpaced ==
  [][\A a \in Name : last_payout'[a] # last_payout[a] /\ last_payout[a] > 0
       => last_payout'[a] - last_payout[a] > RewardTimeSep]_vars

(* "all blocks which have been produced but not paid"                      *)
(* (celesos.system.hpp:180): the total is the sum of the producers' fees.  *)
TotalIsUnpaidFees == total_fee = AccountTotal(unpaid_fee, N)
=============================================================================
