----------------------------- MODULE RamMarket ------------------------------
(***************************************************************************)
(* The RAM market of delegate_bandwidth.cpp and exchange_state.cpp:        *)
(* accounts buy bytes from a connector and sell them back, the system      *)
(* account may add bytes, at once or a few per block, and an attenuation   *)
(* takes bytes back.  Both attenuators look up userres in the scope of the *)
(* system account, where only its own row is, so whatever account they are *)
(* called for they charge the system account, if it has RAM.               *)
(*                                                                         *)
(* Amounts are small enough for a double to be exact, so a conversion is   *)
(* the integer part of the exact result.  Fees go to celes.ramfee, which   *)
(* may pass them on to REX (Rex!ChannelToRex).  How much is staked for an  *)
(* account is StakeBandwidth's; here it only decides whether the account   *)
(* has a row in userres.                                                   *)
(***************************************************************************)
EXTENDS Integers, AccountSums

CONSTANTS
  N,           \* accounts are 1..N
  Self,        \* the system account
  Existing,    \* the other accounts there are from the beginning
  Tokens,      \* what those have
  RamSize,     \* max_ram_size when the market is opened
  Quote,       \* a thousandth of the token supply then
  GiftBytes,   \* ram_gift_bytes
  Rates,       \* values of new_ram_per_block
  Limits,      \* RAM limits the system account sets
  Manageable,  \* bound: the accounts whose RAM it manages
  SupplyWrap,  \* 2^32, what new_ram is computed modulo
  MaxRam,      \* bound on max_ram_size, and on what leaks block by block
  MaxFees,     \* bound on the fees that accounts go on trading at
  MaxBehind,   \* bound on the blocks between two updates of the supply
  MaxDecay     \* bound on the bytes the chain asks to attenuate at once

ASSUME RamAssumption ==
  /\ N \in Nat /\ Self \in 1..N /\ Existing \subseteq 1..N /\ Self \notin Existing
  /\ Tokens \in Nat /\ RamSize \in Nat \ {0} /\ Quote \in Nat \ {0} /\ GiftBytes \in Nat
  /\ Rates \subseteq Nat /\ Limits \subseteq Int /\ Manageable \subseteq 1..N
  /\ SupplyWrap \in Nat \ {0}
  /\ MaxRam \in Nat /\ MaxFees \in Nat /\ MaxBehind \in Nat /\ MaxDecay \in Nat

Accounts == 1..N

VARIABLES
  exists,    \* the accounts there are
  liquid,    \* token balance per account
  held,      \* token balance of celes.ram
  fees,      \* what celes.ramfee was paid
  market,    \* the row of rammarket: balances of base and quote
  gstate,    \* max_ram_size, total_ram_bytes_reserved, total_ram_stake
  rate,      \* new_ram_per_block
  behind,    \* blocks since last_ram_increase
  rows,      \* the accounts that have a row in userres
  ram_bytes, \* its ram_bytes
  managed,   \* the accounts with flag ram_managed
  limit,     \* the RAM limit the chain enforces
  leaked     \* history: bytes that went to the market from no account

ramVars == <<exists, liquid, held, fees, market, gstate, rate, behind, rows,
             ram_bytes, managed, limit, leaked>>

\* What the actions on the market change, as one record they pass on.
Db == [liquid |-> liquid, held |-> held, fees |-> fees, market |-> market,
       gstate |-> gstate, behind |-> behind, rows |-> rows, ram_bytes |-> ram_bytes,
       limit |-> limit, leaked |-> leaked]

Commit(d) ==
  /\ liquid' = d.liquid
  /\ held' = d.held
  /\ fees' = d.fees
  /\ market' = d.market
  /\ gstate' = d.gstate
  /\ behind' = d.behind
  /\ rows' = d.rows
  /\ ram_bytes' = d.ram_bytes
  /\ limit' = d.limit
  /\ leaked' = d.leaked

\* the state init leaves: all RAM is for sale
RamInit ==
  /\ exists = {Self} \cup Existing
  /\ liquid = [a \in Accounts |-> IF a \in Existing THEN Tokens ELSE 0]
  /\ held = 0
  /\ fees = 0
  /\ market = [base |-> RamSize, quote |-> Quote]
  /\ gstate = [max_ram |-> RamSize, reserved |-> 0, stake |-> 0]
  /\ rate = 0
  /\ behind = 0
  /\ rows = {}
  /\ ram_bytes = [a \in Accounts |-> 0]
  /\ managed = {}
  /\ limit = [a \in Accounts |-> 0]
  /\ leaked = 0

(***************************************************************************)
(* Conversions                                                             *)
(***************************************************************************)
\* A mutant: a conversion that rounds up.
BancorRoundedUp(inp_reserve, out_reserve, inp) ==
  (inp * out_reserve + inp_reserve + inp - 1) \div (inp_reserve + inp)

\* exchange_state::get_bancor_output
BancorOutput(inp_reserve, out_reserve, inp) == (inp * out_reserve) \div (inp_reserve + inp)

\* exchange_state::get_bancor_input; buyrambytes of all there is divides by zero and fails
BancorInput(out_reserve, inp_reserve, out) ==
  IF out > out_reserve THEN 0 ELSE (inp_reserve * out) \div (out_reserve - out)

\* exchange_state::convert goes through the supply of a third symbol, whose truncation
\* may cost one unit of the result
Converted(m, bytes) ==
  LET out == BancorOutput(m.base, m.quote, bytes)
  IN {out} \cup ({out - 1} \cap Nat)

\* the fee of half a percent, rounded up
Fee(amount) == (amount + 199) \div 200

(***************************************************************************)
(* Supply and attenuation                                                  *)
(***************************************************************************)
\* A mutant: the new bytes are for sale, and max_ram_size stays.
SuppliedUncounted(d) ==
  [d EXCEPT !.market.base = @ + ((d.behind * rate) % SupplyWrap), !.behind = 0]

\* update_ram_supply
Supplied(d) ==
  LET new_ram == (d.behind * rate) % SupplyWrap
  IN [d EXCEPT !.gstate.max_ram = @ + new_ram,
               !.market.base = @ + new_ram,
               !.behind = 0]

\* A mutant: whatever the account has left.
NothingToAttenuate(d, bytes) == Self \notin d.rows \/ bytes <= 0

\* the early returns of ramattenuator
NotAttenuated(d, bytes) ==
  \/ Self \notin d.rows
  \/ bytes <= 0
  \/ d.ram_bytes[Self] - bytes <= 0

\* ramattenuator(account), for what the chain says is to be attenuated
Attenuated(d, bytes) ==
  LET Charged(out) ==
        IF out = 0
        THEN [d EXCEPT !.market.base = @ + bytes, !.leaked = @ + bytes]
        ELSE [d EXCEPT !.market.base = @ + bytes,
                       !.market.quote = @ - out,
                       !.gstate.reserved = @ - bytes,
                       !.gstate.stake = @ - out,
                       !.ram_bytes[Self] = @ - bytes,
                       !.held = @ - out,
                       !.fees = @ + out,
                       !.limit[Self] = d.ram_bytes[Self] - bytes]
  IN IF NotAttenuated(d, bytes) THEN {d}
     ELSE {Charged(out) : out \in Converted(d.market, bytes)}

Decays == 0..MaxDecay

\* A mutant: the managed accounts and the others taken for each other.
LimitedIfManaged(d, a) ==
  IF a \notin managed THEN d
  ELSE [d EXCEPT !.limit[a] = d.ram_bytes[a] + GiftBytes]

\* the limit of an account that is not managed is its quota and a gift
Limited(d, a) ==
  IF a \in managed THEN d
  ELSE [d EXCEPT !.limit[a] = d.ram_bytes[a] + GiftBytes]

(***************************************************************************)
(* Buying and selling                                                      *)
(***************************************************************************)
BytesOut(d, quant) == BancorOutput(d.market.quote, d.market.base, quant - Fee(quant))

TokensOut(d, bytes) == BancorOutput(d.market.base, d.market.quote, bytes)

\* A mutant: the payment is not counted into total_ram_stake.
BoughtUnstaked(d, receiver, quant) ==
  LET after_fee == quant - Fee(quant)
      bytes == BytesOut(d, quant)
  IN Limited([d EXCEPT !.held = @ + after_fee,
                       !.fees = @ + Fee(quant),
                       !.market.quote = @ + after_fee,
                       !.market.base = @ - bytes,
                       !.gstate.reserved = @ + bytes,
                       !.ram_bytes[receiver] = @ + bytes,
                       !.rows = @ \cup {receiver}], receiver)

\* buyram after the payment was taken from whoever pays
Bought(d, receiver, quant) ==
  LET after_fee == quant - Fee(quant)
      bytes == BytesOut(d, quant)
  IN Limited([d EXCEPT !.held = @ + after_fee,
                       !.fees = @ + Fee(quant),
                       !.market.quote = @ + after_fee,
                       !.market.base = @ - bytes,
                       !.gstate.reserved = @ + bytes,
                       !.gstate.stake = @ + after_fee,
                       !.ram_bytes[receiver] = @ + bytes,
                       !.rows = @ \cup {receiver}], receiver)

\* what buyram checks: a token transfer of nothing fails
MayBuy(d, payer, quant) ==
  /\ 0 < quant /\ quant <= d.liquid[payer]
  /\ quant - Fee(quant) > 0
  /\ BytesOut(d, quant) > 0

\* every outcome of buyram
Purchases(d, payer, receiver, quant) ==
  LET ready == UNION {Attenuated(Supplied(d), bytes) : bytes \in Decays}
  IN {[Bought(e, receiver, quant) EXCEPT !.liquid[payer] = @ - quant] :
        e \in {r \in ready : MayBuy(r, payer, quant)}}

BuyRam(payer, receiver, quant) ==
  /\ {payer, receiver} \subseteq exists
  /\ \E d \in Purchases(Db, payer, receiver, quant) : Commit(d)
  /\ UNCHANGED <<exists, rate, managed>>

\* the price is that before buyram updates the supply and attenuates
CostPlusFee(bytes) == (BancorInput(market.base, market.quote, bytes) * 1000) \div 995

BuyRamBytes(payer, receiver, bytes) ==
  /\ bytes # market.base
  /\ BuyRam(payer, receiver, CostPlusFee(bytes))

\* sellram after its checks; the proceeds pay the fee
Sold(d, a, bytes) ==
  LET out == TokensOut(d, bytes)
  IN Limited([d EXCEPT !.market.base = @ + bytes,
                       !.market.quote = @ - out,
                       !.gstate.reserved = @ - bytes,
                       !.gstate.stake = @ - out,
                       !.ram_bytes[a] = @ - bytes,
                       !.held = @ - out,
                       !.liquid[a] = @ + out - Fee(out),
                       !.fees = @ + Fee(out)], a)

\* the check of total_ram_stake and the transfer from celes.ram could fail too
MaySell(d, a, bytes) ==
  /\ 0 < bytes
  /\ a \in d.rows
  /\ bytes <= d.ram_bytes[a]
  /\ TokensOut(d, bytes) > 1
  /\ d.gstate.stake - TokensOut(d, bytes) >= 0
  /\ TokensOut(d, bytes) <= d.held

SellRam(a, bytes) ==
  /\ a \in exists
  /\ \E decay \in Decays : \E d \in Attenuated(Supplied(Db), decay) :
       MaySell(d, a, bytes) /\ Commit(Sold(d, a, bytes))
  /\ UNCHANGED <<exists, rate, managed>>

(***************************************************************************)
(* The system account's part                                               *)
(***************************************************************************)
SetRam(max) ==
  /\ gstate.max_ram < max /\ max > gstate.reserved
  /\ Commit([Db EXCEPT !.market.base = @ + max - gstate.max_ram,
                       !.gstate.max_ram = max])
  /\ UNCHANGED <<exists, rate, managed>>

SetRamRate(bytes_per_block) ==
  /\ Commit(Supplied(Db))
  /\ rate' = bytes_per_block
  /\ UNCHANGED <<exists, managed>>

\* onblock attenuates the one account there is a row of
OnBlock ==
  /\ \E bytes \in Decays : \E d \in Attenuated([Db EXCEPT !.behind = @ + 1], bytes) :
       Commit(d)
  /\ UNCHANGED <<exists, rate, managed>>

\* newaccount: a row, and no RAM at all
Created(d, a) == [d EXCEPT !.rows = @ \cup {a}, !.limit[a] = 0]

NewAccount(a) ==
  /\ a \notin exists
  /\ exists' = exists \cup {a}
  /\ Commit(Created(Db, a))
  /\ UNCHANGED <<rate, managed>>

\* changebw, as far as RAM is concerned: the limit is raised to the quota, unless net
\* and cpu are managed both
Staked(d, a) ==
  IF a \in managed THEN d
  ELSE [d EXCEPT !.limit[a] = IF d.ram_bytes[a] + GiftBytes > @
                              THEN d.ram_bytes[a] + GiftBytes ELSE @]

\* a delegation leaves a row; an undelegation may leave it empty, and then it is erased
ChangeBw(a) ==
  /\ a \in exists
  /\ \E d \in {Db, Staked(Db, a)} :
       \/ Commit([d EXCEPT !.rows = @ \cup {a}])
       \/ /\ a \in rows /\ ram_bytes[a] = 0
          /\ Commit([d EXCEPT !.rows = @ \ {a}])
  /\ UNCHANGED <<exists, rate, managed>>

SetALimits(a, ram) ==
  /\ a \in exists /\ a \notin rows /\ a \notin managed
  /\ Commit([Db EXCEPT !.limit[a] = ram])
  /\ UNCHANGED <<exists, rate, managed>>

\* setacctram with a value, and with none
ManageRam(a, ram) ==
  /\ a \in exists /\ 0 <= ram
  /\ a \in Manageable
  /\ managed' = managed \cup {a}
  /\ Commit([Db EXCEPT !.limit[a] = ram])
  /\ UNCHANGED <<exists, rate>>

UnmanageRam(a) ==
  /\ a \in managed
  /\ managed' = managed \ {a}
  /\ Commit([Db EXCEPT !.limit[a] = GiftBytes + ram_bytes[a]])
  /\ UNCHANGED <<exists, rate>>

Trade(a) ==
  \/ \E bytes \in 1..ram_bytes[a] : SellRam(a, bytes)
  \/ \E b \in Accounts :
       \/ \E quant \in 1..liquid[a] : BuyRam(a, b, quant)
       \/ \E bytes \in 1..market.base + 1 : BuyRamBytes(a, b, bytes)

RamNext ==
  \/ /\ behind < MaxBehind
     /\ gstate.max_ram + leaked + (behind + 1) * rate <= MaxRam
     /\ OnBlock
  \/ \E max \in 0..MaxRam : SetRam(max)
  \/ \E r \in Rates : SetRamRate(r)
  \/ \E a \in Accounts :
       \/ NewAccount(a) \/ ChangeBw(a) \/ UnmanageRam(a)
       \/ \E ram \in Limits : SetALimits(a, ram) \/ ManageRam(a, ram)
       \/ fees < MaxFees /\ Trade(a)

RamSpec == RamInit /\ [][RamNext]_ramVars

-----------------------------------------------------------------------------
\* The market keeps its types: nothing is sold that is not there, and neither the
\* connectors nor the unsigned and signed totals go below what they may be.
RamTypeOK ==
  /\ exists \subseteq Accounts /\ rows \subseteq exists /\ managed \subseteq exists
  /\ liquid \in [Accounts -> Nat] /\ held \in Nat /\ fees \in Nat
  /\ market \in [base : Nat \ {0}, quote : Nat \ {0}]
  /\ gstate \in [max_ram : Nat, reserved : Nat, stake : Nat]
  /\ rate \in Rates \cup {0} /\ behind \in 0..MaxBehind
  /\ ram_bytes \in [Accounts -> Nat] /\ limit \in [Accounts -> Int]
  /\ leaked \in Nat
  /\ \A a \in Accounts \ rows : ram_bytes[a] = 0

\* The bytes accounts have are the bytes reserved, and with those for sale they are
\* max_ram_size and what leaked; the tokens in the quote connector are those it began
\* with and the stake, which celes.ram holds.
RamAddsUp ==
  /\ gstate.reserved = AccountTotal(ram_bytes, N)
  /\ market.base + gstate.reserved = gstate.max_ram + leaked
  /\ market.quote = Quote + gstate.stake
  /\ held = gstate.stake

\* Selling can never want more tokens than were staked, whatever was bought, sold,
\* attenuated or added before ("this shouldn't happen" of sellram): not even if all
\* the bytes there are were sold at once.
SalesAreCovered ==
  \A bytes \in 1..gstate.reserved : TokensOut(Db, bytes) <= gstate.stake

\* No conversion is worth more than the price: the product of the connectors never
\* falls, so that nobody gains by buying and selling in any order.
ProductNeverFalls ==
  [][market'.base * market'.quote >= market.base * market.quote]_market

\* An account that is not managed may use the RAM it bought, and the gift with it but
\* for the system account once it was attenuated.
LimitsCoverQuota ==
  \A a \in exists \ managed : ram_bytes[a] > 0 =>
    \/ limit[a] = ram_bytes[a] + GiftBytes
    \/ a = Self /\ limit[a] = ram_bytes[a]
=============================================================================
