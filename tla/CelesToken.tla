----------------------------- MODULE CelesToken -----------------------------
(***************************************************************************)
(* The celes.token contract for one symbol: the currency_stats row of the  *)
(* symbol and one balance row per holder.  The tables are scoped by symbol *)
(* code, so symbols do not interact; a quantity of the wrong precision     *)
(* fails a check before anything is written.  Actions are atomic: a failed *)
(* check aborts the transaction, and is a disabled action here.            *)
(***************************************************************************)
EXTENDS Integers, AccountSums

CONSTANTS
  N,           \* accounts are 1..N, in name order
  Existing,    \* the names the chain knows as accounts (is_account)
  MaxAmount    \* asset::max_amount, the largest valid quantity

ASSUME TokenAssumption == /\ N \in Nat \ {0}
                          /\ Existing \subseteq 1..N
                          /\ MaxAmount \in Nat \ {0}

VARIABLES
  created,     \* the stats row exists
  issuer,      \* currency_stats.issuer
  max_supply,  \* currency_stats.max_supply
  supply,      \* currency_stats.supply
  rows,        \* the accounts with a row in the accounts table
  balance      \* account.balance of each row; 0 where there is no row

vars == <<created, issuer, max_supply, supply, rows, balance>>

Account == 1..N
Quantity == 1..MaxAmount

TypeOK == /\ created \in BOOLEAN
          /\ issuer \in 0..N
          /\ max_supply \in 0..MaxAmount
          /\ supply \in Int
          /\ rows \in SUBSET Existing
          /\ balance \in [Account -> Int]

Init == /\ created = FALSE
        /\ issuer = 0
        /\ max_supply = 0
        /\ supply = 0
        /\ rows = {}
        /\ balance = [a \in Account |-> 0]

-----------------------------------------------------------------------------
(* add_balance and sub_balance on the balance column.                      *)
Overwritten(b, owner, q) == [b EXCEPT ![owner] = q]
Credited(b, owner, q) == [b EXCEPT ![owner] = @ + q]
Debited(b, owner, q)  == [b EXCEPT ![owner] = @ - q]

(* sub_balance's checks: the row exists and covers the amount.             *)
HasRow(owner, q) == owner \in rows
Covers(owner, q) == /\ owner \in rows
                    /\ balance[owner] >= q

(* transfer's and open's check on the account that may get a row.          *)
IsAccount(a) == a \in Existing

Create(i, max) ==
  /\ ~created
  /\ created' = TRUE
  /\ issuer' = i
  /\ max_supply' = max
  /\ UNCHANGED <<supply, rows, balance>>

(* Tokens are issued to the issuer alone, whose authority implies that its *)
(* account exists.                                                         *)
Issue(q) ==
  /\ created
  /\ issuer \in Existing
  /\ q <= max_supply - supply
  /\ supply' = supply + q
  /\ rows' = rows \union {issuer}
  /\ balance' = Credited(balance, issuer, q)
  /\ UNCHANGED <<created, issuer, max_supply>>

Retire(q) ==
  /\ created
  /\ Covers(issuer, q)
  /\ supply' = supply - q
  /\ balance' = Debited(balance, issuer, q)
  /\ UNCHANGED <<created, issuer, max_supply, rows>>

Transfer(from, to, q) ==
  /\ created
  /\ from # to
  /\ IsAccount(to)
  /\ Covers(from, q)
  /\ rows' = rows \union {to}
  /\ balance' = Credited(Debited(balance, from, q), to, q)
  /\ UNCHANGED <<created, issuer, max_supply, supply>>

(* open on an account that has a row succeeds and changes nothing.         *)
Open(owner) ==
  /\ created
  /\ IsAccount(owner)
  /\ rows' = rows \union {owner}
  /\ UNCHANGED <<created, issuer, max_supply, supply, balance>>

Close(owner) ==
  /\ owner \in rows
  /\ balance[owner] = 0
  /\ rows' = rows \ {owner}
  /\ UNCHANGED <<created, issuer, max_supply, supply, balance>>

Next ==
  \/ \E i \in Account, max \in Quantity : Create(i, max)
  \/ \E q \in Quantity : Issue(q)
  \/ \E q \in Quantity : Retire(q)
  \/ \E from, to \in Account, q \in Quantity : Transfer(from, to, q)
  \/ \E owner \in Account : Open(owner)
  \/ \E owner \in Account : Close(owner)

Spec == Init /\ [][Next]_vars

-----------------------------------------------------------------------------
(* The holders' balances add up to the supply, whatever mix of issue,      *)
(* retire, transfer, open and close ran: issue and retire write the stats  *)
(* row and a balance row, transfer two balance rows, and close erases one. *)
SupplyIsHeld == supply = AccountTotal(balance, N)

(* No balance is negative and none exceeds max_supply, so the additions in *)
(* add_balance, which check nothing, cannot overflow.                      *)
BalancesBounded == /\ supply <= max_supply
                   /\ \A a \in Account : 0 <= balance[a] /\ balance[a] <= max_supply
=============================================================================
