------------------------------- MODULE Unregd -------------------------------
(***************************************************************************)
(* celes.unregd, over the RAM market it buys from: rows that put an amount *)
(* against an Ethereum address, and a registration that creates an account *)
(* for whoever signs with that address, buys it RAM, stakes part of the    *)
(* amount for it and sends it the rest.  That a signature and a public key *)
(* give an address is the chain's and the vendored code's business: here   *)
(* whoever registers has an address.                                       *)
(*                                                                         *)
(* A new row gets the id after the last, and a search by address finds the *)
(* first of them, so the table is the sequence of its rows in id order.    *)
(***************************************************************************)
EXTENDS RamMarket, SequencesExt

CONSTANTS
  Unreg,        \* the account of celes.unregd
  Addresses,    \* the addresses, and what rows say of them
  Amounts,
  MaxCeles,     \* values of max_celes_for_8k_of_ram
  Bytes,        \* the 8k of RAM that are bought
  Least,        \* the smallest amount that registers, kept liquid up to Mid
  Mid, MidFloat,   \* above Mid, MidFloat is kept liquid
  High, HighFloat, \* above High, HighFloat
  MaxPromised   \* bound on the sum of what was put against addresses

ASSUME UnregdAssumption ==
  /\ Unreg \in Existing /\ Amounts \subseteq Nat /\ MaxCeles \subseteq Nat
  /\ Bytes \in Nat \ {0} /\ {Least, Mid, MidFloat, High, HighFloat} \subseteq Nat
  /\ Least <= Mid /\ Mid <= High /\ MidFloat <= Mid /\ HighFloat <= High
  /\ MaxPromised \in Nat

VARIABLES
  addresses, \* the rows of addresses: ethaddress and balance
  max_celes, \* the row of settings, or 0
  staked,    \* net and cpu staked for an account by its registration
  promised,  \* history: what was put against addresses, less what was put again
  granted    \* history: what registrations staked and sent

unregdVars == <<addresses, max_celes, staked, promised, granted>>

UInit ==
  /\ RamInit
  /\ addresses = <<>>
  /\ max_celes = 0
  /\ staked = [a \in Accounts |-> 0]
  /\ promised = 0
  /\ granted = 0

\* the index of the first row of an address, and whether there is one
RowsOf(addr) == {i \in DOMAIN addresses : addresses[i].ethaddress = addr}

Find(addr) == CHOOSE i \in RowsOf(addr) : \A j \in RowsOf(addr) : i <= j

\* A mutant: the rows of the address all at once.
ErasedAll(i) == SelectSeq(addresses, LAMBDA r : r.ethaddress # addresses[i].ethaddress)

\* index.erase(itr)
Erased(i) == RemoveAt(addresses, i)

-----------------------------------------------------------------------------
\* add, through update_address
Add(addr, balance) ==
  /\ IF RowsOf(addr) = {}
     THEN /\ addresses' = Append(addresses, [ethaddress |-> addr, balance |-> balance])
          /\ promised' = promised + balance
     ELSE /\ addresses' = [addresses EXCEPT ![Find(addr)].balance = balance]
          /\ promised' = promised + balance - addresses[Find(addr)].balance
  /\ UNCHANGED <<max_celes, staked, granted, ramVars>>

\* nothing keeps the new address from having a row already
ChngAddress(old, new) ==
  /\ RowsOf(old) # {}
  /\ addresses' = [addresses EXCEPT ![Find(old)].ethaddress = new]
  /\ UNCHANGED <<max_celes, staked, promised, granted, ramVars>>

SetMaxCeles(max) ==
  /\ max_celes' = max
  /\ UNCHANGED <<addresses, staked, promised, granted, ramVars>>

\* split_snapshot_abp: what stays liquid, and half of the rest each for net and cpu
Floating(balance) ==
  IF balance > High THEN HighFloat ELSE IF balance > Mid THEN MidFloat ELSE Least

\* snapshot.hpp's buyrambytes: what those bytes would sell for, on a copy of the market.
\* The formulas of this convert differ from the system's, but the two steps come to the
\* same quotient, less what the truncation in between may cost.
SalePrice(bytes) == Converted(market, bytes)

\* regaccount and the actions it sends: newaccount, buyram, delegatebw as a gift and,
\* if anything is left, transfer
RegAccount(addr, a) ==
  /\ a \notin exists
  /\ RowsOf(addr) # {}
  /\ LET row == addresses[Find(addr)]
         floating == Floating(row.balance)
         to_stake == row.balance - floating
     IN /\ row.balance >= Least
        /\ to_stake > 0     \* delegatebw must stake a positive amount
        /\ \E price \in SalePrice(Bytes) :
             /\ price <= max_celes
             /\ \E d \in Purchases(Created(Db, a), Unreg, a, price) :
                  /\ row.balance <= d.liquid[Unreg]
                  /\ Commit(Staked([d EXCEPT !.liquid[Unreg] = @ - row.balance,
                                             !.liquid[a] = @ + floating], a))
        /\ staked' = [staked EXCEPT ![a] = @ + to_stake]
        /\ granted' = granted + row.balance
  /\ exists' = exists \cup {a}
  /\ addresses' = Erased(Find(addr))
  /\ UNCHANGED <<rate, managed, max_celes, promised>>

UNext ==
  \/ RamNext /\ UNCHANGED unregdVars
  \/ \E addr \in Addresses :
       \/ \E balance \in Amounts : promised + balance <= MaxPromised /\ Add(addr, balance)
       \/ \E new \in Addresses : ChngAddress(addr, new)
       \/ \E a \in Accounts : RegAccount(addr, a)
  \/ \E max \in MaxCeles : SetMaxCeles(max)

USpec == UInit /\ [][UNext]_<<ramVars, unregdVars>>

-----------------------------------------------------------------------------
\* Whatever addresses were changed and put twice, what was promised is in the table or
\* was granted, no row served two registrations, and no token was made or lost: what
\* accounts, celes.ram and celes.ramfee have and what was staked is what there was.
GrantsAddUp ==
  /\ promised = granted + AccountTotal([i \in DOMAIN addresses |-> addresses[i].balance],
                                       Len(addresses))
  /\ AccountTotal(liquid, N) + AccountTotal(staked, N) + held + fees
       = Tokens * Cardinality(Existing)
=============================================================================
