-------------------------- MODULE ProducerTheorems --------------------------
(***************************************************************************)
(* What the producers earn and what they sign.  Claims and rewards keep,   *)
(* for every number of accounts and every amount and period, their types,  *)
(* the cover of the noted fees, the fit of the wood shares, and the        *)
(* spacing of payouts.  Proposals keep, for any number of them, of levels  *)
(* and of votes, that no voter is taken for silent, that only approvals    *)
(* that stand execute, and that the levels reported are those that said    *)
(* nothing twice.                                                          *)
(***************************************************************************)
EXTENDS ProducerPay, Multisig, AccountSumsTheorems, FiniteSetTheorems

-----------------------------------------------------------------------------
(* Pay.                                                                    *)

(* What the payouts' spacing rests on: the claim time of a role an account *)
(* has is never before its last payout, in whichever role that was.        *)
ClaimsFollowPayouts ==
  \A a \in Name : /\ a \in registered => prod_claim[a] >= last_payout[a]
                  /\ a \in dbps => dbp_claim[a] >= last_payout[a]

(* The parts of the type invariant that actions change together.           *)
PhaseTyped == /\ head \in Nat
              /\ network_active \in BOOLEAN
              /\ network_block \in 0..head
              /\ dbp_active \in BOOLEAN
              /\ dbp_active => network_active
RolesTyped == /\ registered \in SUBSET Name
              /\ active \in SUBSET registered
              /\ prod_claim \in [Name -> 0..head]
              /\ dbps \in SUBSET Name
              /\ dbp_claim \in [Name -> 0..head]
              /\ punish \in [Name -> Nat]
              /\ last_payout \in [Name -> 0..head]
OwedTyped  == /\ unpaid_fee \in [Name -> 0..FeeLimit-1]
              /\ unpaid_wood \in [Name -> Nat]
              /\ funds \in [Fund -> Nat]
              /\ total_fee \in Nat
              /\ total_wood \in Nat

(* The inductive invariant: the totals stay naturals because a row never   *)
(* exceeds its total, and the funds because a transfer is covered.         *)
PayInv == /\ PhaseTyped
          /\ RolesTyped /\ ClaimsFollowPayouts
          /\ OwedTyped /\ BlockFeesAreFunded /\ WoodSharesFit

LEMMA PayTypes == TypeOK <=> PhaseTyped /\ RolesTyped /\ OwedTyped
BY DEF TypeOK, PhaseTyped, RolesTyped, OwedTyped

LEMMA PayConstants ==
  /\ N \in Nat /\ Producers \subseteq 1..N /\ Dapps \subseteq 1..N
  /\ OriginReward \in Nat /\ PoolFull \in Nat /\ DappPoolFull \in Nat
  /\ DappPayUnactive \in Nat /\ RewardGetMin \in Nat
  /\ RewardTimeSep \in Nat \ {0} /\ DbpActiveSep \in Nat /\ FeeLimit \in Nat \ {0}
  /\ GenesisPools \in Nat /\ Punished \subseteq 1..N /\ Deposited \subseteq Fund
  /\ MaxHead \in Nat /\ MaxWood \in Nat /\ MaxPunish \in Nat /\ MaxFund \in Nat
BY PayAssumption DEF PayAssumption

-----------------------------------------------------------------------------
(* The arithmetic.                                                         *)
LEMMA RemainderFits ==
  ASSUME NEW x \in Nat, NEW m \in Nat \ {0}
  PROVE  x % m \in 0..m-1 /\ x % m <= x
<1>1. x % m \in 0..m-1
  OBVIOUS
<1>2. x = m * (x \div m) + (x % m) /\ x \div m \in Nat
  OBVIOUS
<1>3. m * (x \div m) >= 0
  BY <1>2
<1>4. QED  BY <1>1, <1>2, <1>3

LEMMA PeriodsAdd ==
  ASSUME NEW k \in Nat
  PROVE  (1 + k) * RewardTimeSep \in Nat /\ (1 + k) * RewardTimeSep >= RewardTimeSep
BY PayConstants

LEMMA RewardIsNatural ==
  ASSUME NEW full \in Nat, NEW pool \in Nat, NEW r \in Rewards(full, pool)
  PROVE  r \in Nat
<1>1. CASE pool = 0
  BY <1>1 DEF Rewards
<1>2. CASE pool # 0
  <2>1. PICK d \in 1..(full + 2 * OriginReward) : r = Halved(d)
    BY <1>2 DEF Rewards
  <2>2. OriginReward \in Nat /\ d \in Nat \ {0}
    BY <2>1, PayConstants
  <2>3. OriginReward \div d \in Int
    BY <2>2
  <2>4. QED  BY <2>1, <2>3 DEF Halved, AtLeastOne
<1>3. QED  BY <1>1, <1>2

(* Changing one row of what is owed changes the total by as much, and no   *)
(* row is more than the total.                                             *)
LEMMA OneRow ==
  ASSUME NEW f \in [Name -> Nat], NEW g \in [Name -> Nat], NEW k \in Name,
         \A i \in Name : i # k => g[i] = f[i]
  PROVE  /\ AccountTotal(f, N) \in Nat /\ AccountTotal(g, N) \in Nat
         /\ f[k] \in Nat /\ g[k] \in Nat /\ f[k] <= AccountTotal(f, N)
         /\ AccountTotal(g, N) = AccountTotal(f, N) - f[k] + g[k]
<1>1. N \in Nat /\ Name = 1..N
  BY PayConstants DEF Name
<1>2. \A i \in 1..N : f[i] \in Nat /\ g[i] \in Nat /\ f[i] \in Int /\ g[i] \in Int
  BY <1>1
<1>3. \A i \in 1..N : i # k => g[i] = f[i]
  BY <1>1
<1>4. k \in 1..N
  BY <1>1
<1>5. /\ AccountTotal(f, N) \in Nat /\ AccountTotal(g, N) \in Nat
      /\ f[k] <= AccountTotal(f, N)
  BY <1>1, <1>2, <1>4, AccountTotalNat
<1>6. AccountTotal(g, N) = AccountTotal(f, N) - f[k] + g[k]
  BY <1>1, <1>2, <1>3, <1>4, AccountTotalChange
<1>7. QED  BY <1>2, <1>4, <1>5, <1>6

-----------------------------------------------------------------------------
LEMMA PayInit == Init => PayInv
<1> SUFFICES ASSUME Init PROVE PayInv
  OBVIOUS
<1> USE PayConstants DEF Init, Zero
<1>1. AccountTotal(Zero, N) = 0
  BY AccountTotalZero DEF Name
<1>2. PhaseTyped
  <2>1. network_active \in BOOLEAN /\ dbp_active \in BOOLEAN /\ (dbp_active => network_active)
    BY Zenon
  <2>2. head \in Nat /\ network_block \in 0..head
    OBVIOUS
  <2>3. QED  BY <2>1, <2>2 DEF PhaseTyped
<1>3. RolesTyped /\ ClaimsFollowPayouts
  BY DEF RolesTyped, ClaimsFollowPayouts
<1>4. OwedTyped
  BY DEF OwedTyped, Name, Fund
<1>5. BlockFeesAreFunded /\ WoodSharesFit
  <2>1. unpaid_fee = Zero /\ unpaid_wood = Zero /\ total_fee = 0 /\ total_wood = 0
    OBVIOUS
  <2>2. funds["bpay"] \in Nat
    BY <1>4 DEF OwedTyped, Fund
  <2> HIDE DEF Init, Zero
  <2>3. QED  BY <1>1, <2>1, <2>2 DEF BlockFeesAreFunded, WoodSharesFit
<1>6. QED  BY <1>2, <1>3, <1>4, <1>5 DEF PayInv

-----------------------------------------------------------------------------
(* Steps that touch only some of the parts.                                *)
LEMMA PhaseUntouched ==
  ASSUME PhaseTyped, UNCHANGED <<head, phaseVars>> PROVE PhaseTyped'
<1>1. /\ head' = head /\ network_active' = network_active
      /\ network_block' = network_block /\ dbp_active' = dbp_active
  BY DEF phaseVars
<1>2. QED  BY <1>1 DEF PhaseTyped

LEMMA OwedUntouched ==
  ASSUME OwedTyped, BlockFeesAreFunded, WoodSharesFit, UNCHANGED <<oweVars, funds>>
  PROVE  OwedTyped' /\ BlockFeesAreFunded' /\ WoodSharesFit'
BY DEF oweVars, OwedTyped, BlockFeesAreFunded, WoodSharesFit

LEMMA RolesUntouched ==
  ASSUME PhaseTyped, RolesTyped, ClaimsFollowPayouts,
         UNCHANGED <<prodVars, dbpVars, punish, last_payout>>, head' \in Nat, head' >= head
  PROVE  RolesTyped' /\ ClaimsFollowPayouts'
BY DEF PhaseTyped, prodVars, dbpVars, RolesTyped, ClaimsFollowPayouts

(* Registering, leaving, punishing and pardoning: the roles change.        *)
LEMMA RoleSteps ==
  ASSUME PayInv,
         \/ \E p \in Producers : RegProducer(p) \/ UnregProd(p)
         \/ \E d \in Dapps : RegDbp(d) \/ UnregDbp(d)
         \/ \E a \in Punished : LimitBp(a) \/ UnlimitBp(a)
  PROVE  PayInv'
<1>c. Producers \subseteq Name /\ Dapps \subseteq Name /\ Punished \subseteq Name
  BY PayConstants DEF Name
<1>u. UNCHANGED <<head, phaseVars, oweVars, funds>>
  BY DEF RegProducer, UnregProd, RegDbp, UnregDbp, LimitBp, UnlimitBp
<1>i. /\ PhaseTyped /\ RolesTyped /\ ClaimsFollowPayouts
      /\ OwedTyped /\ BlockFeesAreFunded /\ WoodSharesFit
  BY DEF PayInv
<1>1. PhaseTyped' /\ OwedTyped' /\ BlockFeesAreFunded' /\ WoodSharesFit'
  BY <1>i, <1>u, PhaseUntouched, OwedUntouched
<1>h. head' = head /\ head \in Nat
  BY <1>i, <1>u DEF PhaseTyped
<1>2. RolesTyped' /\ ClaimsFollowPayouts'
  <2>1. ASSUME NEW p \in Producers, RegProducer(p) PROVE RolesTyped' /\ ClaimsFollowPayouts'
    BY <2>1, <1>c, <1>i, <1>h DEF RegProducer, dbpVars, RolesTyped, ClaimsFollowPayouts
  <2>2. ASSUME NEW p \in Producers, UnregProd(p) PROVE RolesTyped' /\ ClaimsFollowPayouts'
    BY <2>2, <1>c, <1>i, <1>h DEF UnregProd, dbpVars, RolesTyped, ClaimsFollowPayouts
  <2>3. ASSUME NEW d \in Dapps, RegDbp(d) PROVE RolesTyped' /\ ClaimsFollowPayouts'
    BY <2>3, <1>c, <1>i, <1>h DEF RegDbp, prodVars, RolesTyped, ClaimsFollowPayouts
  <2>4. ASSUME NEW d \in Dapps, UnregDbp(d) PROVE RolesTyped' /\ ClaimsFollowPayouts'
    BY <2>4, <1>c, <1>i, <1>h DEF UnregDbp, prodVars, RolesTyped, ClaimsFollowPayouts
  <2>5. ASSUME NEW a \in Punished, LimitBp(a) \/ UnlimitBp(a)
        PROVE  RolesTyped' /\ ClaimsFollowPayouts'
    <3>1. UNCHANGED <<head, registered, active, prod_claim, dbps, dbp_claim, last_payout>>
      BY <2>5 DEF LimitBp, UnlimitBp, prodVars, dbpVars
    <3>2. punish' \in [Name -> Nat]
      BY <2>5, <1>c, <1>i DEF LimitBp, UnlimitBp, RolesTyped
    <3>3. QED  BY <3>1, <3>2, <1>i DEF RolesTyped, ClaimsFollowPayouts
  <2>6. QED  BY <2>1, <2>2, <2>3, <2>4, <2>5
<1>3. QED  BY <1>1, <1>2 DEF PayInv

-----------------------------------------------------------------------------
(* Counting a wood adds to the row and to the total.                       *)
LEMMA WoodStep ==
  ASSUME PayInv, NEW p \in Producers, CountWood(p)
  PROVE  PayInv'
<1>i. /\ PhaseTyped /\ RolesTyped /\ ClaimsFollowPayouts
      /\ OwedTyped /\ BlockFeesAreFunded /\ WoodSharesFit
  BY DEF PayInv
<1>1. p \in Name
  BY PayConstants DEF Name
<1>2. PhaseTyped' /\ RolesTyped' /\ ClaimsFollowPayouts'
  <2>1. UNCHANGED <<head, phaseVars, prodVars, dbpVars, punish, last_payout>> /\ head' \in Nat /\ head' >= head
    BY <1>i DEF CountWood, PhaseTyped
  <2>2. QED  BY <1>i, <2>1, PhaseUntouched, RolesUntouched
<1>3. /\ unpaid_wood' = [unpaid_wood EXCEPT ![p] = unpaid_wood[p] + 1]
      /\ total_wood' = total_wood + 1
      /\ unpaid_fee' = unpaid_fee /\ total_fee' = total_fee /\ funds' = funds
  BY DEF CountWood
<1>4. unpaid_wood \in [Name -> Nat] /\ total_wood \in Nat /\ AccountTotal(unpaid_wood, N) <= total_wood
  BY <1>i DEF OwedTyped, WoodSharesFit
<1>5. /\ unpaid_wood' \in [Name -> Nat] /\ AccountTotal(unpaid_wood, N) \in Nat
      /\ AccountTotal(unpaid_wood', N) = AccountTotal(unpaid_wood, N) + 1
  <2>1. /\ unpaid_wood' \in [Name -> Nat] /\ unpaid_wood'[p] = unpaid_wood[p] + 1
        /\ \A i \in Name : i # p => unpaid_wood'[i] = unpaid_wood[i]
    BY <1>1, <1>3, <1>4
  <2>2. /\ AccountTotal(unpaid_wood, N) \in Nat /\ unpaid_wood[p] \in Nat
        /\ AccountTotal(unpaid_wood', N)
             = AccountTotal(unpaid_wood, N) - unpaid_wood[p] + unpaid_wood'[p]
    BY <1>1, <1>4, <2>1, OneRow
  <2>3. QED  BY <2>1, <2>2
<1>6. WoodSharesFit'
  BY <1>3, <1>4, <1>5 DEF WoodSharesFit
<1>7. OwedTyped' /\ BlockFeesAreFunded'
  BY <1>i, <1>3, <1>5 DEF OwedTyped, BlockFeesAreFunded
<1>8. QED  BY <1>2, <1>6, <1>7 DEF PayInv

(* A deposit only adds to a fund.                                          *)
LEMMA DepositStep ==
  ASSUME PayInv, NEW f \in Deposited, Deposit(f)
  PROVE  PayInv'
<1>i. /\ PhaseTyped /\ RolesTyped /\ ClaimsFollowPayouts
      /\ OwedTyped /\ BlockFeesAreFunded /\ WoodSharesFit
  BY DEF PayInv
<1>1. PhaseTyped' /\ RolesTyped' /\ ClaimsFollowPayouts'
  <2>1. UNCHANGED <<head, phaseVars, prodVars, dbpVars, punish, last_payout>> /\ head' \in Nat /\ head' >= head
    BY <1>i DEF Deposit, PhaseTyped
  <2>2. QED  BY <1>i, <2>1, PhaseUntouched, RolesUntouched
<1>2. UNCHANGED <<unpaid_fee, unpaid_wood, total_fee, total_wood>>
  BY DEF Deposit, oweVars
<1>3. /\ funds' \in [Fund -> Nat] /\ funds'["bpay"] >= funds["bpay"]
      /\ funds["bpay"] \in Nat /\ funds'["bpay"] \in Nat /\ total_fee \in Nat
  <2>1. f \in Fund /\ "bpay" \in Fund /\ funds \in [Fund -> Nat] /\ total_fee \in Nat
    BY <1>i, PayConstants DEF OwedTyped, Fund
  <2>2. funds' = [funds EXCEPT ![f] = funds[f] + 1]
    BY DEF Deposit
  <2>3. QED  BY <2>1, <2>2
<1>4. OwedTyped' /\ WoodSharesFit'
  BY <1>i, <1>2, <1>3 DEF OwedTyped, WoodSharesFit
<1>5. BlockFeesAreFunded'
  <2>1. AccountTotal(unpaid_fee, N) <= total_fee /\ total_fee <= funds["bpay"]
    BY <1>i DEF BlockFeesAreFunded
  <2>2. AccountTotal(unpaid_fee', N) <= total_fee'
    BY <1>2, <2>1, Zenon
  <2>3. total_fee' = total_fee
    BY <1>2
  <2>4. total_fee' <= funds'["bpay"]
    BY <1>3, <2>1, <2>3
  <2>5. QED  BY <2>2, <2>4 DEF BlockFeesAreFunded
<1>6. QED  BY <1>1, <1>4, <1>5 DEF PayInv

-----------------------------------------------------------------------------
(* Transfers between funds.                                                *)
LEMMA MovedFunds ==
  ASSUME NEW fs \in [Fund -> Nat], NEW from \in Fund, NEW to \in Fund, from # to,
         NEW q \in Nat, q <= fs[from]
  PROVE  /\ Moved(fs, from, to, q) \in [Fund -> Nat]
         /\ Moved(fs, from, to, q)[to] = fs[to] + q
         /\ \A f \in Fund : f # from /\ f # to => Moved(fs, from, to, q)[f] = fs[f]
BY DEF Moved

LEMMA DappFundMoves ==
  ASSUME NEW fs \in [Fund -> Nat], funds \in [Fund -> Nat], funds["dpay"] <= fs["dpay"]
  PROVE  /\ DappFundReturned(fs) \in [Fund -> Nat]
         /\ DappFundReturned(fs)["bpay"] = fs["bpay"]
<1> DEFINE q == funds["dpay"]
<1>1. /\ "dpay" \in Fund /\ "dpayp" \in Fund /\ "bpay" \in Fund
      /\ q \in Nat /\ q <= fs["dpay"]
  BY DEF Fund
<1>2. /\ Moved(fs, "dpay", "dpayp", q) \in [Fund -> Nat]
      /\ Moved(fs, "dpay", "dpayp", q)["bpay"] = fs["bpay"]
  <2> HIDE DEF q
  <2>1. QED  BY <1>1, MovedFunds
<1>3. QED  BY <1>2 DEF DappFundReturned

LEMMA ActiveDbpStep ==
  ASSUME PayInv, ActiveDbp
  PROVE  PayInv'
<1>i. /\ PhaseTyped /\ RolesTyped /\ ClaimsFollowPayouts
      /\ OwedTyped /\ BlockFeesAreFunded /\ WoodSharesFit
  BY DEF PayInv
<1>1. RolesTyped' /\ ClaimsFollowPayouts'
  <2>1. UNCHANGED <<prodVars, dbpVars, punish, last_payout>> /\ head' \in Nat /\ head' >= head
    BY <1>i DEF ActiveDbp, PhaseTyped
  <2>2. QED  BY <1>i, <2>1, RolesUntouched
<1>2. PhaseTyped'
  <2>1. dbp_active' \in BOOLEAN /\ network_active' \in BOOLEAN /\ (dbp_active' => network_active')
    BY <1>i, Zenon DEF ActiveDbp, PhaseTyped
  <2>2. head' = head /\ network_block' = network_block
    BY DEF ActiveDbp
  <2>3. QED  BY <1>i, <2>1, <2>2 DEF PhaseTyped
<1>3. funds' \in [Fund -> Nat] /\ funds'["bpay"] = funds["bpay"]
  <2>1. funds \in [Fund -> Nat] /\ funds["dpay"] <= funds["dpay"]
    BY <1>i DEF OwedTyped, Fund
  <2>2. funds' = DappFundReturned(funds)
    BY DEF ActiveDbp
  <2>3. QED  BY <2>1, <2>2, DappFundMoves
<1>4. UNCHANGED <<unpaid_fee, unpaid_wood, total_fee, total_wood>>
  BY DEF ActiveDbp, oweVars
<1>5. OwedTyped' /\ BlockFeesAreFunded' /\ WoodSharesFit'
  BY <1>i, <1>3, <1>4 DEF OwedTyped, BlockFeesAreFunded, WoodSharesFit
<1>6. QED  BY <1>1, <1>2, <1>5 DEF PayInv

-----------------------------------------------------------------------------
(* A block adds the same reward to celes.bpay and to the total, and to the *)
(* producer's row no more than that.                                       *)
LEMMA BlockStep ==
  ASSUME PayInv, NEW producer \in Name, NEW activates \in BOOLEAN, OnBlock(producer, activates)
  PROVE  PayInv'
<1>i. /\ PhaseTyped /\ RolesTyped /\ ClaimsFollowPayouts
      /\ OwedTyped /\ BlockFeesAreFunded /\ WoodSharesFit
  BY DEF PayInv
<1>o. /\ funds \in [Fund -> Nat] /\ total_fee \in Nat /\ total_wood \in Nat
      /\ unpaid_fee \in [Name -> Nat] /\ unpaid_fee \in [Name -> 0..FeeLimit-1]
      /\ unpaid_wood \in [Name -> Nat]
      /\ AccountTotal(unpaid_fee, N) <= total_fee /\ total_fee <= funds["bpay"]
  BY <1>i, PayConstants DEF OwedTyped, BlockFeesAreFunded
<1>f. /\ "bpayp" \in Fund /\ "bpay" \in Fund /\ "wpayp" \in Fund /\ "wpay" \in Fund
      /\ "dpayp" \in Fund /\ "dpay" \in Fund
  BY DEF Fund
<1>1. PICK b \in Rewards(PoolFull, funds["bpayp"]), w \in Rewards(PoolFull, funds["wpayp"]),
           d \in Rewards(DappPoolFull, funds["dpayp"]) :
       LET bpay == IF network_active /\ producer \in registered THEN b ELSE 0
           wpay == IF network_active /\ producer \in registered THEN w ELSE 0
           dpay == IF network_active THEN d ELSE 0
           paid == Moved(Moved(Moved(funds, "bpayp", "bpay", bpay), "wpayp", "wpay", wpay),
                         "dpayp", "dpay", dpay)
           turn == ~dbp_active /\ network_active' /\ head' - network_block' >= DbpActiveSep
       IN
       /\ bpay <= funds["bpayp"] /\ wpay <= funds["wpayp"] /\ dpay <= funds["dpayp"]
       /\ unpaid_fee' = FeeNoted(unpaid_fee, producer, bpay)
       /\ total_fee' = total_fee + bpay
       /\ network_active' = (network_active \/ activates)
       /\ network_block' = IF ~network_active /\ activates THEN head' ELSE network_block
       /\ dbp_active' = (dbp_active \/ turn)
       /\ funds' = IF turn THEN DappFundReturned(paid) ELSE paid
  BY Zenon DEF OnBlock
<1> DEFINE bpay == IF network_active /\ producer \in registered THEN b ELSE 0
           wpay == IF network_active /\ producer \in registered THEN w ELSE 0
           dpay == IF network_active THEN d ELSE 0
           afterB == Moved(funds, "bpayp", "bpay", bpay)
           afterW == Moved(afterB, "wpayp", "wpay", wpay)
           paid == Moved(afterW, "dpayp", "dpay", dpay)
           turn == ~dbp_active /\ network_active' /\ head' - network_block' >= DbpActiveSep
<1>2. b \in Nat /\ w \in Nat /\ d \in Nat
  BY <1>f, <1>o, RewardIsNatural, PayConstants
<1>3. bpay \in Nat /\ wpay \in Nat /\ dpay \in Nat
  <2> HIDE <1>1
  <2>1. QED  BY <1>2
<1>4. /\ bpay <= funds["bpayp"] /\ wpay <= funds["wpayp"] /\ dpay <= funds["dpayp"]
      /\ unpaid_fee' = FeeNoted(unpaid_fee, producer, bpay)
      /\ total_fee' = total_fee + bpay
      /\ network_active' = (network_active \/ activates)
      /\ network_block' = IF ~network_active /\ activates THEN head' ELSE network_block
      /\ dbp_active' = (dbp_active \/ turn)
      /\ funds' = IF turn THEN DappFundReturned(paid) ELSE paid
  BY <1>1, Zenon
<1> HIDE <1>1
<1>h. head' = head + 1 /\ head \in Nat
  BY <1>i DEF OnBlock, PhaseTyped
<1>5. RolesTyped' /\ ClaimsFollowPayouts'
  <2>1. UNCHANGED <<prodVars, dbpVars, punish, last_payout>> /\ head' \in Nat /\ head' >= head
    BY <1>h DEF OnBlock
  <2>2. QED  BY <1>i, <2>1, RolesUntouched
<1>6. PhaseTyped'
  <2>1. network_active' \in BOOLEAN /\ (network_active => network_active')
    BY <1>4, <1>i, Zenon DEF PhaseTyped
  <2>2. dbp_active' \in BOOLEAN
    BY <1>4, <1>i, Zenon DEF PhaseTyped
  <2>3. dbp_active' => network_active'
    BY <1>4, <1>i, <2>1, Zenon DEF PhaseTyped
  <2>4. network_block' \in 0..head' /\ head' \in Nat
    BY <1>4, <1>i, <1>h DEF PhaseTyped
  <2>5. QED  BY <2>1, <2>2, <2>3, <2>4 DEF PhaseTyped
<1>7. funds' \in [Fund -> Nat] /\ funds'["bpay"] = funds["bpay"] + bpay
  <2>q. bpay <= funds["bpayp"] /\ wpay <= funds["wpayp"] /\ dpay <= funds["dpayp"]
    BY <1>4
  <2> HIDE DEF bpay, wpay, dpay
  <2>1. /\ afterB \in [Fund -> Nat] /\ afterB["bpay"] = funds["bpay"] + bpay
        /\ \A f \in Fund \ {"bpay", "bpayp"} : afterB[f] = funds[f]
    BY <1>3, <1>f, <1>o, <2>q, MovedFunds
  <2> HIDE DEF afterB
  <2>2. /\ afterW \in [Fund -> Nat] /\ afterW["bpay"] = funds["bpay"] + bpay
        /\ afterW["dpay"] = funds["dpay"] /\ afterW["dpayp"] = funds["dpayp"]
    <3>1. wpay <= afterB["wpayp"]
      BY <1>f, <2>1, <2>q
    <3>2. /\ afterB \in [Fund -> Nat] /\ wpay \in Nat /\ "wpayp" # "wpay"
          /\ "wpayp" \in Fund /\ "wpay" \in Fund
      BY <1>3, <1>f, <2>1
    <3>3. /\ Moved(afterB, "wpayp", "wpay", wpay) \in [Fund -> Nat]
          /\ \A f \in Fund : f # "wpayp" /\ f # "wpay"
               => Moved(afterB, "wpayp", "wpay", wpay)[f] = afterB[f]
      BY <3>1, <3>2, MovedFunds, Zenon
    <3>4. afterW \in [Fund -> Nat] /\ \A f \in Fund : f # "wpayp" /\ f # "wpay" => afterW[f] = afterB[f]
      BY <3>3, Zenon DEF afterW
    <3>5. QED  BY <1>f, <2>1, <3>4
  <2> HIDE DEF afterW
  <2>3. /\ paid \in [Fund -> Nat] /\ paid["bpay"] = funds["bpay"] + bpay
        /\ paid["dpay"] = funds["dpay"] + dpay
    BY <1>3, <1>f, <2>2, <2>q, MovedFunds
  <2> HIDE DEF paid
  <2>4. funds["dpay"] <= paid["dpay"]
    BY <1>3, <1>f, <1>o, <2>3
  <2>5. /\ DappFundReturned(paid) \in [Fund -> Nat]
        /\ DappFundReturned(paid)["bpay"] = funds["bpay"] + bpay
    BY <1>o, <2>3, <2>4, DappFundMoves
  <2>6. funds' = DappFundReturned(paid) \/ funds' = paid
    <3> HIDE DEF turn
    <3>1. QED  BY <1>4
  <2>7. QED  BY <2>3, <2>5, <2>6
<1>8. /\ unpaid_fee' \in [Name -> 0..FeeLimit-1]
      /\ AccountTotal(unpaid_fee', N) <= AccountTotal(unpaid_fee, N) + bpay
      /\ AccountTotal(unpaid_fee, N) \in Nat /\ AccountTotal(unpaid_fee', N) \in Nat
  <2> HIDE DEF bpay
  <2> DEFINE x == unpaid_fee[producer] + bpay
  <2>1. x \in Nat /\ unpaid_fee[producer] \in Nat /\ FeeLimit \in Nat \ {0}
    BY <1>3, <1>o, PayConstants
  <2>2. x % FeeLimit \in 0..FeeLimit-1 /\ x % FeeLimit <= x
    <3> HIDE DEF x
    <3>1. QED  BY <2>1, RemainderFits
  <2>3. unpaid_fee' = [unpaid_fee EXCEPT ![producer] = x % FeeLimit]
    BY <1>4 DEF FeeNoted
  <2>4. /\ unpaid_fee' \in [Name -> 0..FeeLimit-1] /\ unpaid_fee' \in [Name -> Nat]
        /\ unpaid_fee'[producer] <= unpaid_fee[producer] + bpay
        /\ \A i \in Name : i # producer => unpaid_fee'[i] = unpaid_fee[i]
    <3>1. \A y \in 0..FeeLimit-1 : y \in Nat
      BY <2>1
    <3> DEFINE r == x % FeeLimit
    <3>2. r \in 0..FeeLimit-1 /\ r <= unpaid_fee[producer] + bpay /\ unpaid_fee' = [unpaid_fee EXCEPT ![producer] = r]
      BY <2>2, <2>3
    <3> HIDE DEF r
    <3>3. QED  BY <1>o, <3>1, <3>2
  <2>5. /\ AccountTotal(unpaid_fee, N) \in Nat /\ AccountTotal(unpaid_fee', N) \in Nat
        /\ unpaid_fee'[producer] \in Nat
        /\ AccountTotal(unpaid_fee', N)
             = AccountTotal(unpaid_fee, N) - unpaid_fee[producer] + unpaid_fee'[producer]
    BY <1>o, <2>4, OneRow
  <2>6. QED  BY <1>3, <2>1, <2>4, <2>5
<1>9. unpaid_wood' = unpaid_wood /\ total_wood' = total_wood
  BY DEF OnBlock
<1>10. OwedTyped' /\ WoodSharesFit'
  <2>1. total_fee' \in Nat
    BY <1>3, <1>4, <1>o
  <2>2. QED  BY <1>i, <1>7, <1>8, <1>9, <2>1 DEF OwedTyped, WoodSharesFit
<1>11. BlockFeesAreFunded'
  <2>1. total_fee' = total_fee + bpay
    BY <1>4
  <2> HIDE DEF bpay
  <2>2. funds["bpay"] \in Nat
    BY <1>o, <1>f
  <2>3. AccountTotal(unpaid_fee', N) <= total_fee' /\ total_fee' <= funds'["bpay"]
    BY <1>3, <1>7, <1>8, <1>o, <2>1, <2>2
  <2>4. QED  BY <2>3 DEF BlockFeesAreFunded
<1>12. QED  BY <1>5, <1>6, <1>10, <1>11 DEF PayInv

-----------------------------------------------------------------------------
(* Claims.  What is paid is covered by the fund it is paid from.           *)
LEMMA TransferIsCovered ==
  ASSUME OwedTyped, NEW f \in Fund, NEW q \in Nat
  PROVE  /\ Transferred(f, q) \in Nat /\ Transferred(f, q) <= funds[f]
         /\ Transferred(f, q) \in {0, q}
BY DEF OwedTyped, Transferred

(* A share of a product, at least one, is a natural.                       *)
LEMMA ShareIsNatural ==
  ASSUME NEW x \in Nat, NEW y \in Nat, NEW t \in Nat, t > 0
  PROVE  AtLeastOne((x * y) \div t) \in Nat
<1>1. x * y \in Nat
  OBVIOUS
<1> DEFINE m == x * y
<1>2. m \in Nat
  BY <1>1
<1> HIDE DEF m
<1>3. m \div t \in Int
  BY <1>2
<1>4. QED  BY <1>3 DEF AtLeastOne, m

(* Settling a row: it keeps its value or becomes 0.                        *)
LEMMA ForgottenRow ==
  ASSUME NEW owed \in [Name -> Nat], NEW p \in Name, NEW q \in Nat
  PROVE  LET left == Forgotten(owed, p, q) IN
         /\ left \in [Name -> Nat]
         /\ AccountTotal(owed, N) \in Nat /\ AccountTotal(left, N) \in Nat
         /\ AccountTotal(left, N) <= AccountTotal(owed, N)
         /\ q > 0 => AccountTotal(left, N) = AccountTotal(owed, N) - owed[p]
         /\ owed[p] \in Nat /\ owed[p] <= AccountTotal(owed, N)
         /\ \A i \in Name : left[i] \in {0, owed[i]}
<1> DEFINE left == Forgotten(owed, p, q)
<1>1. /\ left \in [Name -> Nat]
      /\ \A i \in Name : i # p => left[i] = owed[i]
      /\ left[p] \in {0, owed[p]} /\ (q > 0 => left[p] = 0)
  BY DEF Forgotten
<1> HIDE DEF left
<1>2. /\ AccountTotal(owed, N) \in Nat /\ AccountTotal(left, N) \in Nat
      /\ owed[p] \in Nat /\ left[p] \in Nat /\ owed[p] <= AccountTotal(owed, N)
      /\ AccountTotal(left, N) = AccountTotal(owed, N) - owed[p] + left[p]
  BY <1>1, OneRow
<1>3. left[p] <= owed[p]
  BY <1>1, <1>2
<1>4. AccountTotal(left, N) <= AccountTotal(owed, N)
  BY <1>2, <1>3
<1>5. q > 0 => AccountTotal(left, N) = AccountTotal(owed, N) - owed[p]
  BY <1>1, <1>2
<1>6. \A i \in Name : left[i] \in {0, owed[i]}
  BY <1>1
<1>7. QED  BY <1>1, <1>2, <1>4, <1>5, <1>6 DEF left

(* What a claim pays, and what it leaves.                                  *)
LEMMA ClaimPays ==
  ASSUME PayInv, NEW owner \in Name, ClaimRewards(owner)
  PROVE  \E bpay, wpay, dpay \in Nat :
           LET b == Transferred("bpay", bpay)
               w == Transferred("wpay", wpay)
               d == Transferred("dpay", dpay)
           IN
           /\ bpay > 0 => owner \in active /\ bpay = unpaid_fee[owner]
           /\ wpay > 0 => owner \in active
           /\ dpay > 0 => owner \in dbps
           /\ funds' = [funds EXCEPT !["bpay"] = @ - b, !["wpay"] = @ - w, !["dpay"] = @ - d]
           /\ total_fee' = total_fee - b
           /\ total_wood' = TotalWoodAfter(owner, wpay)
           /\ unpaid_fee' = Forgotten(unpaid_fee, owner, bpay)
           /\ unpaid_wood' = Forgotten(unpaid_wood, owner, wpay)
           /\ last_payout' = IF b + w + d > 0 THEN [last_payout EXCEPT ![owner] = head] ELSE last_payout
<1>i. OwedTyped /\ RolesTyped
  BY DEF PayInv
<1>1. PICK dapp \in DappDue(owner) :
       LET enough == FeeDue(owner) + WoodDue(owner) + dapp >= RewardGetMin
           bpay == IF enough THEN FeeDue(owner) ELSE 0
           wpay == IF enough THEN WoodDue(owner) ELSE 0
           dpay == IF enough THEN dapp ELSE 0
           b == Transferred("bpay", bpay)
           w == Transferred("wpay", wpay)
           d == Transferred("dpay", dpay)
       IN
       /\ funds' = [funds EXCEPT !["bpay"] = @ - b, !["wpay"] = @ - w, !["dpay"] = @ - d]
       /\ total_fee' = total_fee - b
       /\ total_wood' = TotalWoodAfter(owner, wpay)
       /\ unpaid_fee' = Forgotten(unpaid_fee, owner, bpay)
       /\ unpaid_wood' = Forgotten(unpaid_wood, owner, wpay)
       /\ last_payout' = IF b + w + d > 0 THEN [last_payout EXCEPT ![owner] = head] ELSE last_payout
  BY Zenon DEF ClaimRewards
<1>2. FeeDue(owner) \in Nat /\ (FeeDue(owner) > 0 => owner \in active /\ FeeDue(owner) = unpaid_fee[owner])
  <2>1. unpaid_fee[owner] \in Nat
    BY <1>i, PayConstants DEF OwedTyped
  <2>2. QED  BY <2>1 DEF FeeDue
<1>3. WoodDue(owner) \in Nat /\ (WoodDue(owner) > 0 => owner \in active)
  <2>1. funds["wpay"] \in Nat /\ unpaid_wood[owner] \in Nat /\ total_wood \in Nat
    BY <1>i DEF OwedTyped, Fund
  <2>2. total_wood > 0 => AtLeastOne((funds["wpay"] * unpaid_wood[owner]) \div total_wood) \in Nat
    BY <2>1, ShareIsNatural
  <2>3. QED  BY <2>2 DEF WoodDue
<1>4. dapp \in Nat /\ (dapp > 0 => owner \in dbps)
  <2>1. funds["dpay"] \in Nat
    BY <1>i DEF OwedTyped, Fund
  <2>2. QED  BY <2>1, PayConstants DEF DappDue
<1> DEFINE enough == FeeDue(owner) + WoodDue(owner) + dapp >= RewardGetMin
           bpay == IF enough THEN FeeDue(owner) ELSE 0
           wpay == IF enough THEN WoodDue(owner) ELSE 0
           dpay == IF enough THEN dapp ELSE 0
<1> HIDE <1>1 DEF enough
<1>5. bpay \in Nat /\ (bpay > 0 => owner \in active /\ bpay = unpaid_fee[owner])
  BY <1>2
<1>6. wpay \in Nat /\ (wpay > 0 => owner \in active)
  BY <1>3
<1>7. dpay \in Nat /\ (dpay > 0 => owner \in dbps)
  BY <1>4
<1>8. QED  BY <1>1, <1>5, <1>6, <1>7, Zenon DEF enough

LEMMA ClaimStep ==
  ASSUME PayInv, NEW owner \in Name, ClaimRewards(owner)
  PROVE  PayInv'
<1>i. /\ PhaseTyped /\ RolesTyped /\ ClaimsFollowPayouts
      /\ OwedTyped /\ BlockFeesAreFunded /\ WoodSharesFit
  BY DEF PayInv
<1>1. PICK bpay \in Nat, wpay \in Nat, dpay \in Nat :
           LET b == Transferred("bpay", bpay)
               w == Transferred("wpay", wpay)
               d == Transferred("dpay", dpay)
           IN
           /\ bpay > 0 => owner \in active /\ bpay = unpaid_fee[owner]
           /\ wpay > 0 => owner \in active
           /\ dpay > 0 => owner \in dbps
           /\ funds' = [funds EXCEPT !["bpay"] = @ - b, !["wpay"] = @ - w, !["dpay"] = @ - d]
           /\ total_fee' = total_fee - b
           /\ total_wood' = TotalWoodAfter(owner, wpay)
           /\ unpaid_fee' = Forgotten(unpaid_fee, owner, bpay)
           /\ unpaid_wood' = Forgotten(unpaid_wood, owner, wpay)
           /\ last_payout' = IF b + w + d > 0 THEN [last_payout EXCEPT ![owner] = head] ELSE last_payout
  BY ClaimPays, Zenon
<1> DEFINE b == Transferred("bpay", bpay)
           w == Transferred("wpay", wpay)
           d == Transferred("dpay", dpay)
<1>2. /\ bpay > 0 => bpay = unpaid_fee[owner]
      /\ funds' = [funds EXCEPT !["bpay"] = @ - b, !["wpay"] = @ - w, !["dpay"] = @ - d]
      /\ total_fee' = total_fee - b
      /\ total_wood' = TotalWoodAfter(owner, wpay)
      /\ unpaid_fee' = Forgotten(unpaid_fee, owner, bpay)
      /\ unpaid_wood' = Forgotten(unpaid_wood, owner, wpay)
      /\ last_payout' = IF b + w + d > 0 THEN [last_payout EXCEPT ![owner] = head] ELSE last_payout
  BY <1>1, Zenon
<1> HIDE <1>1
<1>o. /\ funds \in [Fund -> Nat] /\ total_fee \in Nat /\ total_wood \in Nat
      /\ unpaid_fee \in [Name -> Nat] /\ unpaid_fee \in [Name -> 0..FeeLimit-1]
      /\ unpaid_wood \in [Name -> Nat]
  BY <1>i, PayConstants DEF OwedTyped
<1>3. /\ b \in Nat /\ w \in Nat /\ d \in Nat
      /\ b <= funds["bpay"] /\ w <= funds["wpay"] /\ d <= funds["dpay"] /\ b \in {0, bpay}
  <2>1. "bpay" \in Fund /\ "wpay" \in Fund /\ "dpay" \in Fund
    BY DEF Fund
  <2>2. QED  BY <1>i, <2>1, TransferIsCovered
<1>h. head' = head /\ head \in Nat /\ UNCHANGED <<registered, active, dbps, phaseVars>>
  BY <1>i DEF ClaimRewards, PhaseTyped
<1>4. PhaseTyped'
  BY <1>i, <1>h, PhaseUntouched
<1>5. RolesTyped' /\ ClaimsFollowPayouts'
  <2>1. last_payout' \in [Name -> 0..head] /\ \A a \in Name : a # owner => last_payout'[a] = last_payout[a]
    <3> HIDE DEF b, w, d
    <3>1. QED  BY <1>2, <1>h, <1>i DEF RolesTyped
  <2>2. /\ prod_claim' = ClaimedNow(prod_claim, registered, owner)
        /\ dbp_claim' = ClaimedNow(dbp_claim, dbps, owner)
        /\ punish' = [punish EXCEPT ![owner] = 0]
    BY DEF ClaimRewards
  <2> HIDE <1>2
  <2>3. /\ prod_claim' \in [Name -> 0..head] /\ dbp_claim' \in [Name -> 0..head]
        /\ punish' \in [Name -> Nat]
        /\ owner \in registered => prod_claim'[owner] = head
        /\ owner \in dbps => dbp_claim'[owner] = head
        /\ \A a \in Name : a # owner => prod_claim'[a] = prod_claim[a] /\ dbp_claim'[a] = dbp_claim[a]
    BY <1>h, <1>i, <2>2 DEF RolesTyped, ClaimedNow
  <2>4. RolesTyped'
    BY <1>h, <1>i, <2>1, <2>3 DEF RolesTyped
  <2>5. ClaimsFollowPayouts'
    <3> SUFFICES ASSUME NEW a \in Name
                 PROVE  /\ a \in registered => prod_claim'[a] >= last_payout'[a]
                        /\ a \in dbps => dbp_claim'[a] >= last_payout'[a]
      BY <1>h DEF ClaimsFollowPayouts
    <3>1. CASE a = owner
      BY <1>h, <2>1, <2>3, <3>1
    <3>2. CASE a # owner
      BY <1>i, <2>1, <2>3, <3>2 DEF ClaimsFollowPayouts
    <3>3. QED  BY <3>1, <3>2
  <2>6. QED  BY <2>4, <2>5
<1>6. funds' \in [Fund -> Nat] /\ funds'["bpay"] = funds["bpay"] - b
  <2> HIDE DEF b, w, d
  <2>1. "bpay" \in Fund /\ "wpay" \in Fund /\ "dpay" \in Fund
    BY DEF Fund
  <2>2. funds["bpay"] - b \in Nat /\ funds["wpay"] - w \in Nat /\ funds["dpay"] - d \in Nat
    BY <1>3, <1>o, <2>1
  <2>3. QED  BY <1>2, <1>o, <2>1, <2>2
<1>7. /\ unpaid_fee' \in [Name -> 0..FeeLimit-1]
      /\ AccountTotal(unpaid_fee', N) \in Nat /\ AccountTotal(unpaid_fee, N) \in Nat
      /\ AccountTotal(unpaid_fee', N) <= AccountTotal(unpaid_fee, N) - b
  <2> DEFINE left == Forgotten(unpaid_fee, owner, bpay)
  <2>1. /\ left \in [Name -> Nat]
        /\ AccountTotal(unpaid_fee, N) \in Nat /\ AccountTotal(left, N) \in Nat
        /\ AccountTotal(left, N) <= AccountTotal(unpaid_fee, N)
        /\ bpay > 0 => AccountTotal(left, N) = AccountTotal(unpaid_fee, N) - unpaid_fee[owner]
        /\ \A i \in Name : left[i] \in {0, unpaid_fee[i]}
    BY <1>o, ForgottenRow, Zenon
  <2>2. left = unpaid_fee'
    BY <1>2
  <2>3. bpay > 0 => bpay = unpaid_fee[owner]
    BY <1>2
  <2> HIDE <1>2 DEF left, b
  <2>4. AccountTotal(left, N) <= AccountTotal(unpaid_fee, N) - b
    <3>1. CASE bpay = 0
      BY <1>3, <2>1, <3>1
    <3>2. CASE bpay > 0
      BY <1>3, <2>1, <2>3, <3>2
    <3>3. QED  BY <3>1, <3>2
  <2>5. left \in [Name -> 0..FeeLimit-1]
    BY <1>o, <2>1, PayConstants
  <2>6. QED  BY <2>1, <2>2, <2>4, <2>5, Zenon
<1>8. /\ unpaid_wood' \in [Name -> Nat] /\ total_wood' \in Nat
      /\ AccountTotal(unpaid_wood', N) <= total_wood'
  <2> DEFINE left == Forgotten(unpaid_wood, owner, wpay)
  <2>1. /\ left \in [Name -> Nat]
        /\ AccountTotal(unpaid_wood, N) \in Nat /\ AccountTotal(left, N) \in Nat
        /\ AccountTotal(left, N) <= AccountTotal(unpaid_wood, N)
        /\ wpay > 0 => AccountTotal(left, N) = AccountTotal(unpaid_wood, N) - unpaid_wood[owner]
        /\ unpaid_wood[owner] \in Nat /\ unpaid_wood[owner] <= AccountTotal(unpaid_wood, N)
    BY <1>o, ForgottenRow, Zenon
  <2>2. left = unpaid_wood'
    BY <1>2
  <2>3. \/ total_wood' = total_wood
        \/ wpay > 0 /\ total_wood' = total_wood - unpaid_wood[owner]
    BY <1>2 DEF TotalWoodAfter, Transferred
  <2>4. AccountTotal(unpaid_wood, N) <= total_wood
    BY <1>i DEF WoodSharesFit
  <2> HIDE <1>2 DEF left
  <2>5. AccountTotal(left, N) <= total_wood' /\ total_wood' \in Nat
    BY <1>o, <2>1, <2>3, <2>4
  <2>6. QED  BY <2>1, <2>2, <2>5, Zenon
<1>9. /\ total_fee' \in Nat /\ AccountTotal(unpaid_fee', N) <= total_fee'
      /\ total_fee' <= funds'["bpay"]
  <2>1. total_fee' = total_fee - b
    BY <1>2
  <2>2. AccountTotal(unpaid_fee, N) <= total_fee /\ total_fee <= funds["bpay"]
    BY <1>i DEF BlockFeesAreFunded
  <2>3. funds["bpay"] \in Nat
    BY <1>o DEF Fund
  <2> HIDE DEF b
  <2>4. QED  BY <1>3, <1>6, <1>7, <1>o, <2>1, <2>2, <2>3
<1>10. OwedTyped' /\ BlockFeesAreFunded' /\ WoodSharesFit'
  BY <1>6, <1>7, <1>8, <1>9 DEF OwedTyped, BlockFeesAreFunded, WoodSharesFit
<1>11. QED  BY <1>4, <1>5, <1>10 DEF PayInv

-----------------------------------------------------------------------------
LEMMA PayStep == PayInv /\ [Next]_vars => PayInv'
<1> SUFFICES ASSUME PayInv, [Next]_vars PROVE PayInv'
  OBVIOUS
<1>1. CASE \/ \E p \in Producers : RegProducer(p) \/ UnregProd(p)
           \/ \E d \in Dapps : RegDbp(d) \/ UnregDbp(d)
           \/ \E a \in Punished : LimitBp(a) \/ UnlimitBp(a)
  BY <1>1, RoleSteps
<1>2. ASSUME NEW p \in Producers, CountWood(p) PROVE PayInv'
  BY <1>2, WoodStep
<1>3. ASSUME NEW f \in Deposited, Deposit(f) PROVE PayInv'
  BY <1>3, DepositStep
<1>4. ASSUME NEW p \in Name, NEW activates \in BOOLEAN, OnBlock(p, activates) PROVE PayInv'
  BY <1>4, BlockStep
<1>5. CASE ActiveDbp
  BY <1>5, ActiveDbpStep
<1>6. ASSUME NEW a \in Name, ClaimRewards(a) PROVE PayInv'
  BY <1>6, ClaimStep
<1>7. CASE UNCHANGED vars
  <2>1. /\ UNCHANGED <<head, phaseVars>> /\ UNCHANGED <<oweVars, funds>>
        /\ UNCHANGED <<prodVars, dbpVars, punish, last_payout>>
    BY <1>7 DEF vars
  <2>2. head' \in Nat /\ head' >= head
    BY <2>1 DEF PayInv, PhaseTyped
  <2>3. QED  BY <2>1, <2>2, PhaseUntouched, OwedUntouched, RolesUntouched DEF PayInv
<1>8. QED  BY <1>1, <1>2, <1>3, <1>4, <1>5, <1>6, <1>7 DEF Next

THEOREM PayInvariance == Spec => []PayInv
BY PayInit, PayStep, PTL DEF Spec

(* Every variable keeps its type: in particular no balance and no total    *)
(* wraps below 0, and every claim time is in the past.                     *)
THEOREM PayTypeCorrect == Spec => []TypeOK
<1>1. PayInv => TypeOK
  BY PayTypes DEF PayInv
<1>2. QED  BY <1>1, PayInvariance, PTL

(* The noted fees never exceed their total, nor the total celes.bpay's     *)
(* balance, for any modulus of the producers' rows and any deposits.       *)
THEOREM FeesStayFunded == Spec => []BlockFeesAreFunded
<1>1. PayInv => BlockFeesAreFunded
  BY DEF PayInv
<1>2. QED  BY <1>1, PayInvariance, PTL

(* The unpaid woods of the producers never exceed the total they share.    *)
THEOREM SharesStayFitting == Spec => []WoodSharesFit
<1>1. PayInv => WoodSharesFit
  BY DEF PayInv
<1>2. QED  BY <1>1, PayInvariance, PTL

-----------------------------------------------------------------------------
(* A claim that pays waited a period since the last payout.                *)
LEMMA PayoutWaited ==
  ASSUME PayInv, NEW owner \in Name, ClaimRewards(owner),
         NEW a \in Name, last_payout'[a] # last_payout[a]
  PROVE  last_payout'[a] - last_payout[a] > RewardTimeSep
<1>i. PhaseTyped /\ RolesTyped /\ ClaimsFollowPayouts /\ OwedTyped
  BY DEF PayInv
<1>1. PICK bpay \in Nat, wpay \in Nat, dpay \in Nat :
           LET b == Transferred("bpay", bpay)
               w == Transferred("wpay", wpay)
               d == Transferred("dpay", dpay)
           IN
           /\ bpay > 0 => owner \in active
           /\ wpay > 0 => owner \in active
           /\ dpay > 0 => owner \in dbps
           /\ last_payout' = IF b + w + d > 0 THEN [last_payout EXCEPT ![owner] = head] ELSE last_payout
  BY ClaimPays, Zenon
<1>2. /\ last_payout' = [last_payout EXCEPT ![owner] = head]
      /\ Transferred("bpay", bpay) + Transferred("wpay", wpay) + Transferred("dpay", dpay) > 0
  BY <1>1
<1>3. a = owner /\ last_payout'[a] = head /\ last_payout[a] \in Nat /\ head \in Nat
  BY <1>2, <1>i DEF RolesTyped, PhaseTyped
<1>4. bpay > 0 \/ wpay > 0 \/ dpay > 0
  BY <1>2 DEF Transferred
<1>5. owner \in active \/ owner \in dbps
  BY <1>1, <1>4
<1>6. ASSUME NEW since \in Nat, Waited(since, owner), since >= last_payout[owner]
      PROVE  head - last_payout[owner] > RewardTimeSep
  <2>1. punish[owner] \in Nat
    BY <1>i DEF RolesTyped
  <2>2. /\ (1 + punish[owner]) * RewardTimeSep \in Nat
        /\ (1 + punish[owner]) * RewardTimeSep >= RewardTimeSep /\ RewardTimeSep \in Nat
    BY <2>1, PeriodsAdd, PayConstants
  <2> DEFINE m == (1 + punish[owner]) * RewardTimeSep
  <2>3. head - since > m /\ m \in Nat /\ m >= RewardTimeSep /\ RewardTimeSep \in Nat
    BY <1>6, <2>2 DEF Waited
  <2> HIDE DEF m
  <2>4. QED  BY <1>3, <1>6, <2>3
<1>7. CASE owner \in active
  <2>1. Waited(prod_claim[owner], owner) /\ owner \in registered
    BY <1>7, <1>i DEF ClaimRewards, RolesTyped
  <2>2. prod_claim[owner] \in Nat /\ prod_claim[owner] >= last_payout[owner]
    BY <1>i, <2>1 DEF RolesTyped, PhaseTyped, ClaimsFollowPayouts
  <2>3. QED  BY <1>3, <1>6, <2>1, <2>2
<1>8. CASE owner \in dbps
  <2>1. Waited(dbp_claim[owner], owner)
    BY <1>8 DEF ClaimRewards
  <2>2. dbp_claim[owner] \in Nat /\ dbp_claim[owner] >= last_payout[owner]
    BY <1>i, <1>8 DEF RolesTyped, PhaseTyped, ClaimsFollowPayouts
  <2>3. QED  BY <1>3, <1>6, <2>1, <2>2
<1>9. QED  BY <1>5, <1>7, <1>8

(* Two payouts to one account are more than a period apart, for any period *)
(* and any changes of role in between.                                     *)
THEOREM PayoutsStaySpaced == Spec => PayoutsAreSpaced
<1>1. PayInv /\ [Next]_vars
        => [\A a \in Name : last_payout'[a] # last_payout[a] /\ last_payout[a] > 0
              => last_payout'[a] - last_payout[a] > RewardTimeSep]_vars
  <2> SUFFICES ASSUME PayInv, Next, NEW a \in Name, last_payout'[a] # last_payout[a]
               PROVE  last_payout'[a] - last_payout[a] > RewardTimeSep
    OBVIOUS
  <2>1. \E owner \in Name : ClaimRewards(owner)
    BY DEF Next, RegProducer, UnregProd, RegDbp, UnregDbp, CountWood, Deposit, OnBlock,
           ActiveDbp, LimitBp, UnlimitBp
  <2>2. QED  BY <2>1, PayoutWaited
<1>2. QED  BY <1>1, PayInvariance, PTL DEF Spec, PayoutsAreSpaced

-----------------------------------------------------------------------------
(* Proposals.                                                              *)

(* The parts of the type invariant that actions change together.           *)
RowsTyped == /\ now \in Time
             /\ open \in SUBSET Proposals
             /\ expiration \in [Proposals -> 0..MaxTime]
             /\ system \in SUBSET Proposals
             /\ requested \in [Proposals -> Seq(Levels)]
             /\ invalidated \in [Actors -> 0..now]
             /\ deferred \in SUBSET Proposals
             /\ proposed \in Nat
ListsTyped == /\ agree \in [Proposals -> [Levels -> Seq(1..now)]]
              /\ abstained \in [Proposals -> [Levels -> Nat]]
              /\ disagree \in [Proposals -> [Levels -> Nat]]
              /\ stance \in [Proposals -> [Levels -> {"none", "agree", "abstain", "disagree"}]]
              /\ standing \in [Proposals -> SUBSET Levels]
PunishTyped == /\ noted \in BOOLEAN
               /\ last_silent \in SUBSET Levels
               /\ punished \in [Actors -> Nat]
               /\ was_silent \in SUBSET Levels

(* A level has an entry in one of the lists just when it has said          *)
(* something.                                                              *)
Unlisted(k, l) == agree[k][l] = << >> /\ abstained[k][l] = 0 /\ disagree[k][l] = 0
ListsFollowStances ==
  \A k \in Proposals, l \in Levels : Unlisted(k, l) <=> stance[k][l] = "none"

(* An approval that counts is one that stands.                             *)
ValidApprovalsStand ==
  \A k \in Proposals, l \in Levels : \A i \in 1..Len(agree[k][l]) :
    Valid(l, agree[k][l][i]) => l \in standing[k]

(* The bppunish row holds the levels that said nothing.                    *)
SilentAreRemembered == last_silent = was_silent /\ (~noted => was_silent = {})

MsigInv == /\ RowsTyped /\ ListsTyped /\ PunishTyped
           /\ ListsFollowStances /\ ValidApprovalsStand /\ SilentAreRemembered

LEMMA MsigTypes == MsigTypeOK <=> RowsTyped /\ ListsTyped /\ PunishTyped
BY DEF MsigTypeOK, RowsTyped, ListsTyped, PunishTyped

LEMMA MsigConstants ==
  /\ IsFiniteSet(Levels) /\ Requests \subseteq Seq(Levels)
  /\ Threshold \in Nat /\ MaxTime \in Nat \ {0}
BY MsigAssumption DEF MsigAssumption

-----------------------------------------------------------------------------
(* Sequences.                                                              *)
LEMMA SeqElement ==
  ASSUME NEW S, NEW s \in Seq(S), NEW i \in 1..Len(s)
  PROVE  s[i] \in S
OBVIOUS

LEMMA SeqTail ==
  ASSUME NEW S, NEW s \in Seq(S), s # << >>
  PROVE  /\ Tail(s) \in Seq(S) /\ Len(Tail(s)) = Len(s) - 1
         /\ \A i \in 1..Len(Tail(s)) : Tail(s)[i] = s[i+1] /\ i+1 \in 1..Len(s)
OBVIOUS

LEMMA SeqAppend ==
  ASSUME NEW S, NEW s \in Seq(S), NEW e \in S
  PROVE  Append(s, e) \in Seq(S) /\ Append(s, e) # << >>
<1>1. Append(s, e) \in Seq(S) /\ Len(Append(s, e)) = Len(s) + 1 /\ Len(s) \in Nat
  OBVIOUS
<1>2. Len(Append(s, e)) # 0
  BY <1>1
<1>3. QED  BY <1>1, <1>2

(* No votes on a proposal.                                                 *)
LEMMA BlankLists ==
  /\ NoTimes \in [Levels -> Seq(1..now)] /\ NoVotes \in [Levels -> Nat]
  /\ NoStance \in [Levels -> {"none", "agree", "abstain", "disagree"}]
  /\ \A l \in Levels : NoTimes[l] = << >> /\ NoVotes[l] = 0 /\ NoStance[l] = "none"
BY DEF NoTimes, NoVotes, NoStance

LEMMA MsigInvInit == MsigInit => MsigInv
<1> SUFFICES ASSUME MsigInit PROVE MsigInv
  OBVIOUS
<1>1. RowsTyped
  BY MsigConstants DEF MsigInit, RowsTyped, Time
<1>2. ListsTyped
  BY BlankLists DEF MsigInit, ListsTyped
<1>3. PunishTyped /\ SilentAreRemembered
  BY DEF MsigInit, PunishTyped, SilentAreRemembered
<1>4. ListsFollowStances
  BY BlankLists DEF MsigInit, ListsFollowStances, Unlisted
<1>5. ValidApprovalsStand
  <2> SUFFICES ASSUME NEW k \in Proposals, NEW l \in Levels, NEW i \in 1..Len(agree[k][l])
               PROVE  FALSE
    BY DEF ValidApprovalsStand
  <2>1. agree[k][l] = << >>
    BY BlankLists DEF MsigInit
  <2>2. QED  BY <2>1
<1>6. QED  BY <1>1, <1>2, <1>3, <1>4, <1>5 DEF MsigInv

-----------------------------------------------------------------------------
(* Time passing leaves the lists typed.                                    *)
LEMMA LaterTimes ==
  ASSUME NEW m \in Nat, NEW n \in Nat, m <= n, NEW s \in Seq(1..m)
  PROVE  s \in Seq(1..n)
<1>1. 1..m \subseteq 1..n
  OBVIOUS
<1>2. QED  BY <1>1

LEMMA RowsUntouched ==
  ASSUME RowsTyped,
         UNCHANGED <<now, open, expiration, system, requested, invalidated, deferred, proposed>>
  PROVE  RowsTyped'
BY DEF RowsTyped

LEMMA PunishUntouched ==
  ASSUME PunishTyped, SilentAreRemembered, UNCHANGED punishVars
  PROVE  PunishTyped' /\ SilentAreRemembered'
<1>1. noted' = noted /\ last_silent' = last_silent /\ punished' = punished /\ was_silent' = was_silent
  BY DEF punishVars
<1>2. noted' \in BOOLEAN
  BY <1>1, Zenon DEF PunishTyped
<1>3. QED  BY <1>1, <1>2 DEF PunishTyped, SilentAreRemembered

(* The part of the invariant about the lists.                              *)
ListsKept == ListsTyped /\ ListsFollowStances /\ ValidApprovalsStand

LEMMA TickStep ==
  ASSUME MsigInv, Tick
  PROVE  MsigInv'
<1>i. RowsTyped /\ ListsTyped /\ PunishTyped /\ ListsFollowStances /\ ValidApprovalsStand /\ SilentAreRemembered
  BY DEF MsigInv
<1>u. UNCHANGED <<open, expiration, system, requested, agree, abstained, disagree, invalidated,
                  deferred, punishVars, proposed, stance, standing>>
  BY DEF Tick, listVars
<1>1. now \in Nat /\ now' \in Time /\ now <= now' /\ now' \in Nat
  BY <1>i, MsigConstants DEF Tick, RowsTyped, Time
<1>2. RowsTyped'
  BY <1>i, <1>u, <1>1 DEF RowsTyped
<1>3. ListsTyped'
  <2>1. \A k \in Proposals, l \in Levels : agree[k][l] \in Seq(1..now')
    BY <1>i, <1>1, LaterTimes DEF ListsTyped
  <2>2. agree' \in [Proposals -> [Levels -> Seq(1..now')]]
    BY <1>i, <1>u, <2>1 DEF ListsTyped
  <2>3. QED  BY <1>i, <1>u, <2>2 DEF ListsTyped
<1>4. ListsFollowStances' /\ ValidApprovalsStand'
  BY <1>i, <1>u DEF ListsFollowStances, Unlisted, ValidApprovalsStand, Valid
<1>5. QED  BY <1>i, <1>u, <1>2, <1>3, <1>4, PunishUntouched DEF MsigInv

(* Proposing anew and erasing both leave no votes.                         *)
LEMMA BlankKeeps ==
  ASSUME ListsKept, NEW k \in Proposals, Blank(k), UNCHANGED <<now, invalidated>>
  PROVE  ListsKept'
<1>i. ListsTyped /\ ListsFollowStances /\ ValidApprovalsStand
  BY DEF ListsKept
<1>b. /\ agree' = [agree EXCEPT ![k] = NoTimes]
      /\ abstained' = [abstained EXCEPT ![k] = NoVotes]
      /\ disagree' = [disagree EXCEPT ![k] = NoVotes]
      /\ stance' = [stance EXCEPT ![k] = NoStance]
      /\ standing' = [standing EXCEPT ![k] = {}]
      /\ now' = now /\ invalidated' = invalidated
  BY DEF Blank
<1>1. ListsTyped'
  BY <1>i, <1>b, BlankLists DEF ListsTyped
<1>2. ListsFollowStances'
  BY <1>i, <1>b, BlankLists DEF ListsFollowStances, Unlisted, ListsTyped
<1>3. ValidApprovalsStand'
  <2> SUFFICES ASSUME NEW j \in Proposals, NEW l \in Levels, NEW i \in 1..Len(agree'[j][l]),
                      invalidated[Actor(l)] = 0 \/ invalidated[Actor(l)] < agree'[j][l][i]
               PROVE  l \in standing'[j]
    BY <1>b DEF ValidApprovalsStand, Valid
  <2>1. CASE j = k
    <3>1. agree'[j][l] = << >>
      BY <1>i, <1>b, <2>1, BlankLists DEF ListsTyped
    <3>2. QED  BY <3>1
  <2>2. CASE j # k
    <3>1. agree'[j] = agree[j] /\ standing'[j] = standing[j]
      BY <1>i, <1>b, <2>2 DEF ListsTyped
    <3>2. QED  BY <1>i, <1>b, <3>1 DEF ValidApprovalsStand, Valid
  <2>3. QED  BY <2>1, <2>2
<1>4. QED  BY <1>1, <1>2, <1>3 DEF ListsKept

LEMMA ProposeStep ==
  ASSUME MsigInv, NEW k \in Proposals, NEW levels \in Requests, NEW expires \in Time,
         NEW isSystem \in BOOLEAN, Propose(k, levels, expires, isSystem)
  PROVE  MsigInv'
<1>i. RowsTyped /\ ListsKept /\ PunishTyped /\ SilentAreRemembered
  BY DEF MsigInv, ListsKept
<1>1. RowsTyped'
  BY <1>i, MsigConstants DEF Propose, RowsTyped, Time
<1>2. ListsKept'
  BY <1>i, BlankKeeps DEF Propose
<1>3. PunishTyped' /\ SilentAreRemembered'
  BY <1>i, PunishUntouched DEF Propose
<1>4. QED  BY <1>1, <1>2, <1>3 DEF MsigInv, ListsKept

LEMMA CancelStep ==
  ASSUME MsigInv, NEW k \in Proposals, NEW byProposer \in BOOLEAN, Cancel(k, byProposer)
  PROVE  MsigInv'
<1>i. RowsTyped /\ ListsKept /\ PunishTyped /\ SilentAreRemembered
  BY DEF MsigInv, ListsKept
<1>1. RowsTyped'
  BY <1>i, MsigConstants DEF Cancel, Gone, RowsTyped
<1>2. ListsKept'
  BY <1>i, BlankKeeps DEF Cancel, Gone
<1>3. PunishTyped' /\ SilentAreRemembered'
  BY <1>i, PunishUntouched DEF Cancel
<1>4. QED  BY <1>1, <1>2, <1>3 DEF MsigInv, ListsKept

LEMMA DeferredDoneStep ==
  ASSUME MsigInv, NEW k \in Proposals, DeferredDone(k)
  PROVE  MsigInv'
<1>i. RowsTyped /\ ListsTyped /\ PunishTyped /\ ListsFollowStances /\ ValidApprovalsStand /\ SilentAreRemembered
  BY DEF MsigInv
<1>1. RowsTyped'
  BY <1>i DEF DeferredDone, RowsTyped
<1>2. UNCHANGED <<now, agree, abstained, disagree, stance, standing, invalidated, punishVars>>
  BY DEF DeferredDone, listVars
<1>3. ListsTyped' /\ ListsFollowStances' /\ ValidApprovalsStand'
  BY <1>i, <1>2 DEF ListsTyped, ListsFollowStances, Unlisted, ValidApprovalsStand, Valid
<1>4. QED  BY <1>i, <1>1, <1>2, <1>3, PunishUntouched DEF MsigInv

(* After an invalidation no earlier approval of the actor counts.          *)
LEMMA InvalidateStep ==
  ASSUME MsigInv, NEW a \in Actors, Invalidate(a)
  PROVE  MsigInv'
<1>i. RowsTyped /\ ListsTyped /\ PunishTyped /\ ListsFollowStances /\ ValidApprovalsStand /\ SilentAreRemembered
  BY DEF MsigInv
<1>u. UNCHANGED <<now, open, expiration, system, requested, agree, abstained, disagree,
                  deferred, punishVars, proposed, stance>>
  BY DEF Invalidate, listVars
<1>n. now \in Nat /\ now > 0
  BY <1>i, MsigConstants DEF RowsTyped, Time
<1>1. invalidated' = [invalidated EXCEPT ![a] = now]
  BY DEF Invalidate
<1>2. standing' = [k \in Proposals |-> {l \in standing[k] : Actor(l) # a}]
  BY DEF Invalidate
<1>3. RowsTyped'
  BY <1>i, <1>u, <1>n, <1>1 DEF RowsTyped
<1>4. ListsTyped' /\ ListsFollowStances'
  BY <1>i, <1>u, <1>2 DEF ListsTyped, ListsFollowStances, Unlisted
<1>5. ValidApprovalsStand'
  <2> SUFFICES ASSUME NEW k \in Proposals, NEW l \in Levels, NEW i \in 1..Len(agree[k][l]),
                      invalidated'[Actor(l)] = 0 \/ invalidated'[Actor(l)] < agree[k][l][i]
               PROVE  l \in standing'[k]
    BY <1>u DEF ValidApprovalsStand, Valid
  <2>1. agree[k][l][i] \in 1..now
    <3>1. agree[k][l] \in Seq(1..now)
      BY <1>i DEF ListsTyped
    <3>2. QED  BY <3>1, SeqElement
  <2>2. Actor(l) \in Actors
    BY DEF Actors
  <2>3. Actor(l) # a
    BY <1>i, <1>1, <1>n, <2>1, <2>2 DEF RowsTyped
  <2>4. Valid(l, agree[k][l][i])
    BY <1>i, <1>1, <2>2, <2>3 DEF Valid, RowsTyped
  <2>5. QED  BY <1>i, <1>2, <2>3, <2>4 DEF ValidApprovalsStand
<1>6. QED  BY <1>i, <1>u, <1>3, <1>4, <1>5, PunishUntouched DEF MsigInv

-----------------------------------------------------------------------------
(* The votes.                                                              *)
LEMMA ErasedTyped ==
  ASSUME NEW list \in [Proposals -> [Levels -> Nat]], NEW k \in Proposals, NEW l \in Levels
  PROVE  /\ Erased(list, k, l) \in [Proposals -> [Levels -> Nat]]
         /\ \A j \in Proposals, m \in Levels : j # k \/ m # l =>
              Erased(list, k, l)[j][m] = list[j][m]
BY DEF Erased

LEMMA PushedTyped ==
  ASSUME NEW list \in [Proposals -> [Levels -> Nat]], NEW k \in Proposals, NEW l \in Levels
  PROVE  /\ Pushed(list, k, l) \in [Proposals -> [Levels -> Nat]]
         /\ Pushed(list, k, l)[k][l] # 0
         /\ \A j \in Proposals, m \in Levels : j # k \/ m # l =>
              Pushed(list, k, l)[j][m] = list[j][m]
BY DEF Pushed

LEMMA AgreeErasedTyped ==
  ASSUME ListsTyped, NEW k \in Proposals, NEW l \in Levels
  PROVE  /\ AgreeErased(k, l) \in [Proposals -> [Levels -> Seq(1..now)]]
         /\ AgreeErased(k, l)[k][l] = IF agree[k][l] # << >> THEN Tail(agree[k][l]) ELSE agree[k][l]
         /\ \A j \in Proposals, m \in Levels : j # k \/ m # l =>
              AgreeErased(k, l)[j][m] = agree[j][m]
<1> DEFINE left == IF agree[k][l] # << >> THEN Tail(agree[k][l]) ELSE agree[k][l]
<1>1. agree \in [Proposals -> [Levels -> Seq(1..now)]] /\ agree[k][l] \in Seq(1..now)
  BY DEF ListsTyped
<1>2. left \in Seq(1..now)
  BY <1>1, SeqTail
<1>3. AgreeErased(k, l) = [agree EXCEPT ![k][l] = left]
  BY DEF AgreeErased
<1> HIDE DEF left
<1>4. /\ AgreeErased(k, l) \in [Proposals -> [Levels -> Seq(1..now)]]
      /\ AgreeErased(k, l)[k][l] = left
      /\ \A j \in Proposals, m \in Levels : j # k \/ m # l => AgreeErased(k, l)[j][m] = agree[j][m]
  BY <1>1, <1>2, <1>3
<1>5. QED  BY <1>4 DEF left

(* A vote gives its level a stance and an entry, and adds no approval that *)
(* does not stand.                                                         *)
LEMMA VoteKeeps ==
  ASSUME MsigInv, NEW k \in Proposals, NEW l \in Levels,
         NEW what \in {"agree", "abstain", "disagree"}, Said(k, l, what), UNCHANGED invalidated,
         agree' \in [Proposals -> [Levels -> Seq(1..now)]],
         abstained' \in [Proposals -> [Levels -> Nat]],
         disagree' \in [Proposals -> [Levels -> Nat]],
         standing' \in [Proposals -> SUBSET Levels],
         agree'[k][l] # << >> \/ abstained'[k][l] # 0 \/ disagree'[k][l] # 0,
         \A j \in Proposals, m \in Levels : j # k \/ m # l =>
           /\ agree'[j][m] = agree[j][m] /\ abstained'[j][m] = abstained[j][m]
           /\ disagree'[j][m] = disagree[j][m],
         \A j \in Proposals : standing[j] \subseteq standing'[j],
         \A i \in 1..Len(agree'[k][l]) : Valid(l, agree'[k][l][i]) => l \in standing'[k]
  PROVE  MsigInv'
<1>i. RowsTyped /\ ListsTyped /\ PunishTyped /\ ListsFollowStances /\ ValidApprovalsStand /\ SilentAreRemembered
  BY DEF MsigInv
<1>u. UNCHANGED <<now, open, expiration, system, requested, invalidated, deferred, punishVars, proposed>>
  BY DEF Said
<1>s. stance' = [stance EXCEPT ![k][l] = what]
  BY DEF Said
<1>1. RowsTyped' /\ PunishTyped' /\ SilentAreRemembered'
  BY <1>i, <1>u, RowsUntouched, PunishUntouched
<1>2. ListsTyped'
  BY <1>i, <1>u, <1>s DEF ListsTyped
<1>3. ListsFollowStances'
  <2> SUFFICES ASSUME NEW j \in Proposals, NEW m \in Levels
               PROVE  Unlisted(j, m)' <=> stance'[j][m] = "none"
    BY DEF ListsFollowStances
  <2>1. CASE j = k /\ m = l
    BY <1>i, <1>s, <2>1 DEF Unlisted, ListsTyped
  <2>2. CASE j # k \/ m # l
    <3>1. stance'[j][m] = stance[j][m]
      BY <1>i, <1>s, <2>2 DEF ListsTyped
    <3>2. Unlisted(j, m)' <=> Unlisted(j, m)
      BY <2>2 DEF Unlisted
    <3>3. QED  BY <1>i, <3>1, <3>2, Zenon DEF ListsFollowStances
  <2>3. QED  BY <2>1, <2>2
<1>4. ValidApprovalsStand'
  <2> SUFFICES ASSUME NEW j \in Proposals, NEW m \in Levels, NEW i \in 1..Len(agree'[j][m]),
                      invalidated[Actor(m)] = 0 \/ invalidated[Actor(m)] < agree'[j][m][i]
               PROVE  m \in standing'[j]
    BY <1>u DEF ValidApprovalsStand, Valid
  <2>1. CASE j = k /\ m = l
    BY <2>1 DEF Valid
  <2>2. CASE j # k \/ m # l
    BY <1>i, <2>2 DEF ValidApprovalsStand, Valid
  <2>3. QED  BY <2>1, <2>2
<1>5. QED  BY <1>1, <1>2, <1>3, <1>4 DEF MsigInv

LEMMA ApproveStep ==
  ASSUME MsigInv, NEW k \in Proposals, NEW l \in Levels, Approve(k, l)
  PROVE  MsigInv'
<1>i. ListsTyped /\ now \in 1..now
  BY MsigConstants DEF MsigInv, RowsTyped, Time
<1>1. /\ agree[k][l] \in Seq(1..now) /\ agree \in [Proposals -> [Levels -> Seq(1..now)]]
      /\ standing \in [Proposals -> SUBSET Levels]
  BY <1>i DEF ListsTyped
<1>2. Append(agree[k][l], now) \in Seq(1..now) /\ Append(agree[k][l], now) # << >>
  BY <1>i, <1>1, SeqAppend
<1>3. /\ agree' \in [Proposals -> [Levels -> Seq(1..now)]]
      /\ agree'[k][l] # << >>
      /\ \A j \in Proposals, m \in Levels : j # k \/ m # l => agree'[j][m] = agree[j][m]
  <2> DEFINE more == Append(agree[k][l], now)
  <2>1. agree' = [agree EXCEPT ![k][l] = more] /\ more \in Seq(1..now) /\ more # << >>
    BY <1>2 DEF Approve
  <2> HIDE DEF more
  <2>2. QED  BY <1>1, <2>1
<1>4. /\ abstained' \in [Proposals -> [Levels -> Nat]] /\ disagree' \in [Proposals -> [Levels -> Nat]]
      /\ \A j \in Proposals, m \in Levels : j # k \/ m # l =>
           abstained'[j][m] = abstained[j][m] /\ disagree'[j][m] = disagree[j][m]
  <2>1. abstained \in [Proposals -> [Levels -> Nat]] /\ disagree \in [Proposals -> [Levels -> Nat]]
    BY <1>i DEF ListsTyped
  <2>2. abstained' = Erased(abstained, k, l) /\ disagree' = Erased(disagree, k, l)
    BY DEF Approve
  <2>3. /\ Erased(abstained, k, l) \in [Proposals -> [Levels -> Nat]]
        /\ \A j \in Proposals, m \in Levels : j # k \/ m # l => Erased(abstained, k, l)[j][m] = abstained[j][m]
    BY <2>1, ErasedTyped, Zenon
  <2>4. /\ Erased(disagree, k, l) \in [Proposals -> [Levels -> Nat]]
        /\ \A j \in Proposals, m \in Levels : j # k \/ m # l => Erased(disagree, k, l)[j][m] = disagree[j][m]
    BY <2>1, ErasedTyped, Zenon
  <2>5. QED  BY <2>2, <2>3, <2>4, Zenon
<1>5. /\ standing' \in [Proposals -> SUBSET Levels] /\ l \in standing'[k]
      /\ \A j \in Proposals : standing[j] \subseteq standing'[j]
  <2>1. standing' = [standing EXCEPT ![k] = standing[k] \union {l}]
    BY DEF Approve
  <2>2. QED  BY <1>1, <2>1
<1>6. Said(k, l, "agree") /\ UNCHANGED invalidated
  BY DEF Approve, Said
<1>7. QED  BY <1>3, <1>4, <1>5, <1>6, VoteKeeps

(* Erasing the first approval of a level adds none.                        *)
LEMMA ErasedApprovalsStand ==
  ASSUME MsigInv, NEW k \in Proposals, NEW l \in Levels, agree' = AgreeErased(k, l), UNCHANGED standing
  PROVE  \A i \in 1..Len(agree'[k][l]) : Valid(l, agree'[k][l][i]) => l \in standing'[k]
<1> SUFFICES ASSUME NEW i \in 1..Len(agree'[k][l]), Valid(l, agree'[k][l][i])
             PROVE  l \in standing[k]
  OBVIOUS
<1>i. ListsTyped /\ ValidApprovalsStand
  BY DEF MsigInv
<1>1. agree[k][l] \in Seq(1..now)
  BY <1>i DEF ListsTyped
<1>2. agree'[k][l] = IF agree[k][l] # << >> THEN Tail(agree[k][l]) ELSE agree[k][l]
  BY <1>i, AgreeErasedTyped
<1>3. \E j \in 1..Len(agree[k][l]) : agree[k][l][j] = agree'[k][l][i]
  <2>1. CASE agree[k][l] # << >>
    <3>1. /\ Len(Tail(agree[k][l])) = Len(agree[k][l]) - 1
          /\ i \in 1..Len(Tail(agree[k][l])) /\ agree'[k][l] = Tail(agree[k][l])
      BY <1>1, <1>2, <2>1, SeqTail
    <3>2. Tail(agree[k][l])[i] = agree[k][l][i+1] /\ i+1 \in 1..Len(agree[k][l])
      BY <1>1, <2>1, <3>1, SeqTail
    <3>3. QED  BY <3>1, <3>2
  <2>2. CASE agree[k][l] = << >>
    BY <1>2, <2>2
  <2>3. QED  BY <2>1, <2>2
<1>4. QED  BY <1>i, <1>3 DEF ValidApprovalsStand

LEMMA AbstainStep ==
  ASSUME MsigInv, NEW k \in Proposals, NEW l \in Levels, Abstain(k, l)
  PROVE  MsigInv'
<1>i. ListsTyped
  BY DEF MsigInv
<1>1. /\ agree' = AgreeErased(k, l) /\ standing' = standing
      /\ abstained' = Pushed(abstained, k, l) /\ disagree' = Erased(disagree, k, l)
      /\ Said(k, l, "abstain")
  BY DEF Abstain
<1>2. /\ agree' \in [Proposals -> [Levels -> Seq(1..now)]]
      /\ \A j \in Proposals, m \in Levels : j # k \/ m # l => agree'[j][m] = agree[j][m]
  BY <1>i, <1>1, AgreeErasedTyped
<1>3. /\ abstained' \in [Proposals -> [Levels -> Nat]] /\ disagree' \in [Proposals -> [Levels -> Nat]]
      /\ abstained'[k][l] # 0
      /\ \A j \in Proposals, m \in Levels : j # k \/ m # l =>
           abstained'[j][m] = abstained[j][m] /\ disagree'[j][m] = disagree[j][m]
  <2>1. abstained \in [Proposals -> [Levels -> Nat]]
    BY <1>i DEF ListsTyped
  <2>2. disagree \in [Proposals -> [Levels -> Nat]]
    BY <1>i DEF ListsTyped
  <2>3. /\ Erased(disagree, k, l) \in [Proposals -> [Levels -> Nat]]
        /\ \A j \in Proposals, m \in Levels : j # k \/ m # l => Erased(disagree, k, l)[j][m] = disagree[j][m]
    BY <2>2, ErasedTyped, Zenon
  <2>4. /\ Pushed(abstained, k, l) \in [Proposals -> [Levels -> Nat]] /\ Pushed(abstained, k, l)[k][l] # 0
        /\ \A j \in Proposals, m \in Levels : j # k \/ m # l => Pushed(abstained, k, l)[j][m] = abstained[j][m]
    BY <2>1, PushedTyped, Zenon
  <2>5. QED  BY <1>1, <2>3, <2>4, Zenon
<1>4. \A i \in 1..Len(agree'[k][l]) : Valid(l, agree'[k][l][i]) => l \in standing'[k]
  BY <1>1, ErasedApprovalsStand
<1>5. standing' \in [Proposals -> SUBSET Levels] /\ UNCHANGED invalidated
  BY <1>i, <1>1 DEF ListsTyped, Said
<1>6. QED  BY <1>1, <1>2, <1>3, <1>4, <1>5, VoteKeeps

LEMMA UnapproveStep ==
  ASSUME MsigInv, NEW k \in Proposals, NEW l \in Levels, Unapprove(k, l)
  PROVE  MsigInv'
<1>i. ListsTyped
  BY DEF MsigInv
<1>1. /\ agree' = AgreeErased(k, l) /\ standing' = standing
      /\ abstained' = Erased(abstained, k, l) /\ disagree' = Pushed(disagree, k, l)
      /\ Said(k, l, "disagree")
  BY DEF Unapprove
<1>2. /\ agree' \in [Proposals -> [Levels -> Seq(1..now)]]
      /\ \A j \in Proposals, m \in Levels : j # k \/ m # l => agree'[j][m] = agree[j][m]
  BY <1>i, <1>1, AgreeErasedTyped
<1>3. /\ abstained' \in [Proposals -> [Levels -> Nat]] /\ disagree' \in [Proposals -> [Levels -> Nat]]
      /\ disagree'[k][l] # 0
      /\ \A j \in Proposals, m \in Levels : j # k \/ m # l =>
           abstained'[j][m] = abstained[j][m] /\ disagree'[j][m] = disagree[j][m]
  <2>1. abstained \in [Proposals -> [Levels -> Nat]]
    BY <1>i DEF ListsTyped
  <2>2. disagree \in [Proposals -> [Levels -> Nat]]
    BY <1>i DEF ListsTyped
  <2>3. /\ Erased(abstained, k, l) \in [Proposals -> [Levels -> Nat]]
        /\ \A j \in Proposals, m \in Levels : j # k \/ m # l => Erased(abstained, k, l)[j][m] = abstained[j][m]
    BY <2>1, ErasedTyped, Zenon
  <2>4. /\ Pushed(disagree, k, l) \in [Proposals -> [Levels -> Nat]] /\ Pushed(disagree, k, l)[k][l] # 0
        /\ \A j \in Proposals, m \in Levels : j # k \/ m # l => Pushed(disagree, k, l)[j][m] = disagree[j][m]
    BY <2>2, PushedTyped, Zenon
  <2>5. QED  BY <1>1, <2>3, <2>4, Zenon
<1>4. \A i \in 1..Len(agree'[k][l]) : Valid(l, agree'[k][l][i]) => l \in standing'[k]
  BY <1>1, ErasedApprovalsStand
<1>5. standing' \in [Proposals -> SUBSET Levels] /\ UNCHANGED invalidated
  BY <1>i, <1>1 DEF ListsTyped, Said
<1>6. QED  BY <1>1, <1>2, <1>3, <1>4, <1>5, VoteKeeps

-----------------------------------------------------------------------------
(* Executing.                                                              *)
LEMMA RequestedLevels ==
  ASSUME MsigInv, NEW k \in Proposals
  PROVE  /\ Len(requested[k]) \in Nat
         /\ \A i \in 1..Len(requested[k]) : requested[k][i] \in LevelsIn(requested[k])
         /\ LevelsIn(requested[k]) \subseteq Levels
<1>1. requested[k] \in Seq(Levels)
  BY DEF MsigInv, RowsTyped
<1>2. Len(requested[k]) \in Nat /\ \A i \in 1..Len(requested[k]) : requested[k][i] \in Levels
  BY <1>1
<1>3. QED  BY <1>2 DEF LevelsIn

(* What exec finds silent are those that said nothing, and the entries it  *)
(* reports are those of the levels that were silent twice.                 *)
LEMMA SilentFacts ==
  ASSUME MsigInv, NEW k \in Proposals
  PROVE  /\ Silent(k) = SaidNothing(k) /\ Silent(k) \in SUBSET Levels
         /\ \A a : /\ {i \in Reported(k) : Actor(requested[k][i]) = a} = SilentTwice(k, a)
                  /\ Cardinality(SilentTwice(k, a)) \in Nat
<1>1. /\ ListsFollowStances /\ SilentAreRemembered
      /\ LevelsIn(requested[k]) \subseteq Levels /\ Len(requested[k]) \in Nat
      /\ \A i \in 1..Len(requested[k]) : requested[k][i] \in LevelsIn(requested[k])
  BY RequestedLevels DEF MsigInv
<1>2. Silent(k) = SaidNothing(k) /\ Silent(k) \in SUBSET Levels
  BY <1>1 DEF ListsFollowStances, Unlisted, Silent, SaidNothing
<1>3. \A i \in 1..Len(requested[k]) :
        i \in Reported(k) <=> requested[k][i] \in was_silent /\ stance[k][requested[k][i]] = "none"
  <2> SUFFICES ASSUME NEW i \in 1..Len(requested[k])
               PROVE  i \in Reported(k) <=> /\ requested[k][i] \in was_silent
                                           /\ stance[k][requested[k][i]] = "none"
    OBVIOUS
  <2>1. requested[k][i] \in Silent(k) <=> stance[k][requested[k][i]] = "none"
    BY <1>1, <1>2 DEF SaidNothing
  <2>2. CASE noted
    BY <1>1, <2>1, <2>2 DEF Reported, EntriesIn, SilentAreRemembered
  <2>3. CASE ~noted
    BY <1>1, <2>3 DEF Reported, SilentAreRemembered
  <2>4. QED  BY <2>2, <2>3
<1>4. Reported(k) \subseteq 1..Len(requested[k])
  BY DEF Reported, EntriesIn
<1>5. ASSUME NEW a
      PROVE  /\ {i \in Reported(k) : Actor(requested[k][i]) = a} = SilentTwice(k, a)
             /\ Cardinality(SilentTwice(k, a)) \in Nat
  <2>1. {i \in Reported(k) : Actor(requested[k][i]) = a} = SilentTwice(k, a)
    BY <1>3, <1>4 DEF SilentTwice
  <2>2. SilentTwice(k, a) \subseteq 1..Len(requested[k])
    BY DEF SilentTwice
  <2>3. IsFiniteSet(SilentTwice(k, a))
    <3>1. IsFiniteSet(1..Len(requested[k]))
      BY <1>1, FS_Interval
    <3>2. QED  BY <2>2, <3>1, FS_Subset
  <2>4. QED  BY <2>1, <2>3, FS_CardinalityType
<1>6. QED  BY <1>2, <1>5

LEMMA ExecStep ==
  ASSUME MsigInv, NEW k \in Proposals, Exec(k)
  PROVE  MsigInv'
<1>i. RowsTyped /\ ListsKept /\ PunishTyped /\ SilentAreRemembered
  BY DEF MsigInv, ListsKept
<1>1. RowsTyped'
  BY <1>i, MsigConstants DEF Exec, Gone, RowsTyped
<1>2. ListsKept'
  BY <1>i, BlankKeeps DEF Exec, Gone
<1>3. PunishTyped' /\ SilentAreRemembered'
  <2>1. CASE k \notin system
    BY <1>i, <2>1, PunishUntouched DEF Exec
  <2>2. CASE k \in system
    <3>1. /\ punished' = [a \in Actors |->
                 punished[a] + Cardinality({i \in Reported(k) : Actor(requested[k][i]) = a})]
          /\ noted' = TRUE /\ last_silent' = Silent(k) /\ was_silent' = SaidNothing(k)
      BY <2>2, Zenon DEF Exec
    <3>2. punished' \in [Actors -> Nat]
      <4>1. \A a \in Actors :
              /\ punished[a] \in Nat
              /\ Cardinality({i \in Reported(k) : Actor(requested[k][i]) = a}) \in Nat
        BY <1>i, SilentFacts DEF PunishTyped
      <4>2. QED  BY <3>1, <4>1
    <3>3. QED  BY <3>1, <3>2, SilentFacts DEF PunishTyped, SilentAreRemembered
  <2>3. QED  BY <2>1, <2>2
<1>4. QED  BY <1>1, <1>2, <1>3 DEF MsigInv, ListsKept

-----------------------------------------------------------------------------
LEMMA MsigStep == MsigInv /\ [MsigNext]_msigVars => MsigInv'
<1> SUFFICES ASSUME MsigInv, [MsigNext]_msigVars PROVE MsigInv'
  OBVIOUS
<1>1. CASE Tick
  BY <1>1, TickStep
<1>2. ASSUME NEW k \in Proposals, NEW levels \in Requests, NEW expires \in Time,
             NEW isSystem \in BOOLEAN, Propose(k, levels, expires, isSystem)
      PROVE  MsigInv'
  BY <1>2, ProposeStep
<1>3. ASSUME NEW k \in Proposals, NEW l \in Levels, Approve(k, l) \/ Abstain(k, l) \/ Unapprove(k, l)
      PROVE  MsigInv'
  BY <1>3, ApproveStep, AbstainStep, UnapproveStep
<1>4. ASSUME NEW k \in Proposals, NEW byProposer \in BOOLEAN, Cancel(k, byProposer) PROVE MsigInv'
  BY <1>4, CancelStep
<1>5. ASSUME NEW k \in Proposals, Exec(k) \/ DeferredDone(k) PROVE MsigInv'
  BY <1>5, ExecStep, DeferredDoneStep
<1>6. ASSUME NEW a \in Actors, Invalidate(a) PROVE MsigInv'
  BY <1>6, InvalidateStep
<1>7. CASE UNCHANGED msigVars
  <2>1. UNCHANGED <<now, open, expiration, system, requested, agree, abstained, disagree, invalidated,
                    deferred, punishVars, proposed, stance, standing>>
    BY <1>7 DEF msigVars, listVars
  <2>2. /\ RowsTyped /\ ListsTyped /\ PunishTyped /\ ListsFollowStances
        /\ ValidApprovalsStand /\ SilentAreRemembered
    BY DEF MsigInv
  <2>3. ListsTyped' /\ ListsFollowStances' /\ ValidApprovalsStand'
    BY <2>1, <2>2 DEF ListsTyped, ListsFollowStances, Unlisted, ValidApprovalsStand, Valid
  <2>4. QED  BY <2>1, <2>2, <2>3, RowsUntouched, PunishUntouched DEF MsigInv
<1>8. QED  BY <1>1, <1>2, <1>3, <1>4, <1>5, <1>6, <1>7 DEF MsigNext

THEOREM MsigInvariance == MsigSpec => []MsigInv
BY MsigInvInit, MsigStep, PTL DEF MsigSpec

(* Every variable keeps its type; every recorded approval is of the past.  *)
THEOREM MsigTypeCorrect == MsigSpec => []MsigTypeOK
<1>1. MsigInv => MsigTypeOK
  BY MsigTypes DEF MsigInv
<1>2. QED  BY <1>1, MsigInvariance, PTL

(* A level that took a stance is in a list, after any changes of mind.     *)
THEOREM VotersStayListed == MsigSpec => []VotersAreNotSilent
<1>1. MsigInv => VotersAreNotSilent
  <2> SUFFICES ASSUME MsigInv, NEW k \in open, NEW l \in Levels, stance[k][l] # "none"
               PROVE  agree[k][l] # << >> \/ abstained[k][l] > 0 \/ disagree[k][l] > 0
    BY DEF VotersAreNotSilent
  <2>1. k \in Proposals /\ ListsTyped /\ ListsFollowStances
    BY DEF MsigInv, RowsTyped
  <2>2. agree[k][l] # << >> \/ abstained[k][l] # 0 \/ disagree[k][l] # 0
    BY <2>1 DEF ListsFollowStances, Unlisted
  <2>3. abstained[k][l] \in Nat /\ disagree[k][l] \in Nat
    BY <2>1 DEF ListsTyped
  <2>4. QED  BY <2>2, <2>3
<1>2. QED  BY <1>1, MsigInvariance, PTL

(* Whatever the threshold, a proposal executes only on that many approvals *)
(* given to it and not invalidated since.                                  *)
THEOREM StandingApprovalsExecute == MsigSpec => OnlyStandingApprovalsExecute
<1>1. MsigInv /\ [MsigNext]_msigVars
        => [\A k \in Proposals : k \in deferred' \ deferred => Authorized(standing[k])]_msigVars
  <2> SUFFICES ASSUME MsigInv, MsigNext, NEW k \in Proposals, k \in deferred' \ deferred
               PROVE  Authorized(standing[k])
    OBVIOUS
  <2>1. Exec(k)
    BY DEF MsigNext, Tick, Propose, Approve, Abstain, Unapprove, Said, Cancel, Exec, DeferredDone, Invalidate
  <2>2. Provided(k) \subseteq standing[k] /\ standing[k] \subseteq Levels
    BY DEF MsigInv, ListsTyped, ValidApprovalsStand, Provided
  <2>3. IsFiniteSet(standing[k])
    BY <2>2, MsigConstants, FS_Subset
  <2>4. /\ Cardinality(Provided(k)) \in Nat /\ Cardinality(standing[k]) \in Nat
        /\ Cardinality(Provided(k)) <= Cardinality(standing[k])
    BY <2>2, <2>3, FS_Subset, FS_CardinalityType
  <2>5. Cardinality(Provided(k)) >= Threshold /\ Threshold \in Nat
    BY <2>1, MsigConstants DEF Exec, Authorized
  <2>6. QED  BY <2>4, <2>5 DEF Authorized
<1>2. QED  BY <1>1, MsigInvariance, PTL DEF MsigSpec, OnlyStandingApprovalsExecute

(* Executing a system proposal reports to limitbps, for each actor, as     *)
(* many entries of the requested vector as were silent now and on the      *)
(* system proposal before, neither more nor fewer; nothing else reports.   *)
THEOREM ReportsAreRight == MsigSpec => PunishedWereSilentTwice
<1> DEFINE executed == (deferred' \ deferred) \intersect system
           Right == /\ executed = {} => punished' = punished
                    /\ \A k \in executed, a \in Actors :
                         punished'[a] - punished[a] = Cardinality(SilentTwice(k, a))
<1>1. MsigInv /\ [MsigNext]_msigVars => [Right]_msigVars
  <2> SUFFICES ASSUME MsigInv, MsigNext PROVE Right
    OBVIOUS
  <2>1. ASSUME executed = {} PROVE punished' = punished
    <3>1. ASSUME NEW k \in Proposals, Exec(k) PROVE k \notin system
      BY <2>1, <3>1 DEF Exec
    <3>2. QED
      BY <3>1 DEF MsigNext, Tick, Propose, Approve, Abstain, Unapprove, Said, Cancel, Exec,
                  DeferredDone, Invalidate, punishVars
  <2>2. ASSUME NEW k \in executed, NEW a \in Actors
        PROVE  punished'[a] - punished[a] = Cardinality(SilentTwice(k, a))
    <3>1. k \in Proposals /\ Exec(k) /\ k \in system
      BY DEF MsigNext, Tick, Propose, Approve, Abstain, Unapprove, Said, Cancel, Exec,
             DeferredDone, Invalidate, MsigInv, RowsTyped
    <3>2. punished' = [b \in Actors |->
             punished[b] + Cardinality({i \in Reported(k) : Actor(requested[k][i]) = b})]
      BY <3>1, Zenon DEF Exec
    <3>3. punished'[a] =
             punished[a] + Cardinality({i \in Reported(k) : Actor(requested[k][i]) = a})
      BY <3>2, Zenon
    <3>4. punished'[a] = punished[a] + Cardinality(SilentTwice(k, a))
      BY <3>1, <3>3, SilentFacts, Zenon
    <3>5. punished[a] \in Nat /\ Cardinality(SilentTwice(k, a)) \in Nat
      BY <3>1, SilentFacts DEF MsigInv, PunishTyped
    <3>6. QED  BY <3>4, <3>5
  <2>3. QED  BY <2>1, <2>2
<1>2. QED  BY <1>1, MsigInvariance, PTL DEF MsigSpec, PunishedWereSilentTwice
=============================================================================
