--------------------------- MODULE StakeBandwidth ---------------------------
(***************************************************************************)
(* Staking for bandwidth in celesos.system: delegatebw and undelegatebw    *)
(* (both by way of changebw) and refund, in delegate_bandwidth.cpp.        *)
(* Staked tokens sit in the account celes.stake.  Unstaked tokens wait in  *)
(* a refund request; a deferred transaction is to call refund for its      *)
(* owner, who may also call it.                                            *)
(*                                                                         *)
(* celes.stake itself does not delegate here: for it the code skips the    *)
(* refunds and the transfer.  Resource limits, RAM and REX loans, which    *)
(* share the totals row, are left out, and so are votes: changing a stake  *)
(* changes none.                                                           *)
(***************************************************************************)
EXTENDS Integers, AccountSums

CONSTANTS
  N,            \* account names, ordered, are 1..N
  Liquid,       \* tokens each account starts with
  RefundDelay,  \* refund_delay_sec
  MaxStake,     \* bounds on the states explored: a quantity staked,
  MaxTime       \*   and the time

ASSUME StakeAssumption ==
  /\ N \in Nat /\ Liquid \in Nat /\ RefundDelay \in Nat
  /\ MaxStake \in Nat /\ MaxTime \in Nat

Name == 1..N
Kind == {"net", "cpu"}
Weights == [Kind -> Nat]
None == [k \in Kind |-> 0]

VARIABLES
  now,           \* current_time_point
  liquid,        \* balances in the token contract
  stake_balance, \* the balance of celes.stake
  del,           \* del_bandwidth tables: weights from one account to another
  totals,        \* userres: net_weight and cpu_weight of each account
  refunds,       \* refunds: net_amount and cpu_amount; both 0 is no row
  request_time,  \* refunds: request_time, kept when the row is erased
  due,           \* when the deferred refund of an account runs; 0 is none
  attempted      \* history: accounts whose refund a deferred call has tried

vars == <<now, liquid, stake_balance, del, totals, refunds, request_time, due, attempted>>

Sum(w) == w["net"] + w["cpu"]
HasRefund(a) == Sum(refunds[a]) > 0

TypeOK ==
  /\ now \in Nat
  /\ liquid \in [Name -> Nat]
  /\ stake_balance \in Nat
  /\ del \in [Name -> [Name -> Weights]]
  /\ totals \in [Name -> Weights]
  /\ refunds \in [Name -> Weights]
  /\ request_time \in [Name -> Nat]
  /\ due \in [Name -> Nat]
  /\ attempted \in SUBSET Name

Init ==
  /\ now = 1
  /\ liquid = [a \in Name |-> Liquid]
  /\ stake_balance = 0
  /\ del = [a \in Name |-> [b \in Name |-> None]]
  /\ totals = [a \in Name |-> None]
  /\ refunds = [a \in Name |-> None]
  /\ request_time = [a \in Name |-> 0]
  /\ due = [a \in Name |-> 0]
  /\ attempted = {}

-----------------------------------------------------------------------------
AtLeastZero(x) == IF x < 0 THEN 0 ELSE x

Plus(w, delta) == [k \in Kind |-> w[k] + delta[k]]

(* What is left of a refund after a change of the stake, and what of the   *)
(* change the refund could not cover.                                      *)
RefundAfter(refund, delta) == [k \in Kind |-> AtLeastZero(refund[k] - delta[k])]
Uncovered(refund, delta) == [k \in Kind |-> delta[k]]
Remainder(refund, delta) == [k \in Kind |-> AtLeastZero(delta[k] - refund[k])]

(* The time of a request, which any unstaking sets again.                  *)
FirstRequest(a, delta) == IF Sum(delta) < 0 /\ ~HasRefund(a) THEN now ELSE request_time[a]
RequestTime(a, delta) == IF Sum(delta) < 0 THEN now ELSE request_time[a]

Undelayed(a) == now
DueTime(a) == now + RefundDelay

(* The receiver of the weights; the totals row is the receiver's.          *)
TotalsOf(owner, receiver) == owner
TotalsRow(owner, receiver) == receiver

(* changebw; net and cpu deltas have the same sign.  With transfer the     *)
(* stake is the receiver's from the start, though the source pays.         *)
ChangeBw(source, receiver, delta, transfer) ==
  LET from == IF transfer THEN receiver ELSE source
      usesRefund == Sum(delta) < 0 \/ (~transfer /\ from = receiver)
      refund == IF usesRefund THEN RefundAfter(refunds[from], delta) ELSE refunds[from]
      paid   == IF usesRefund THEN Sum(Remainder(refunds[from], delta)) ELSE Sum(delta)
      row    == TotalsRow(from, receiver)
  IN
  /\ \A k \in Kind : del[from][receiver][k] + delta[k] >= 0
  /\ \A k \in Kind : totals[row][k] + delta[k] >= 0
  /\ paid <= liquid[source]
  /\ del' = [del EXCEPT ![from][receiver] = Plus(@, delta)]
  /\ totals' = [totals EXCEPT ![row] = Plus(@, delta)]
  /\ refunds' = [refunds EXCEPT ![from] = refund]
  /\ request_time' = [request_time EXCEPT ![from] = RequestTime(from, delta)]
  /\ due' = [due EXCEPT ![from] = IF usesRefund /\ Sum(refund) > 0 THEN DueTime(from) ELSE 0]
  /\ attempted' = IF usesRefund THEN attempted \ {from} ELSE attempted
  /\ liquid' = [liquid EXCEPT ![source] = @ - paid]
  /\ stake_balance' = stake_balance + paid
  /\ UNCHANGED now

DelegateBw(from, receiver, q, transfer) ==
  /\ Sum(q) > 0
  /\ transfer => from # receiver
  /\ ChangeBw(from, receiver, q, transfer)

UndelegateBw(from, receiver, q) ==
  /\ Sum(q) > 0
  /\ ChangeBw(from, receiver, [k \in Kind |-> -q[k]], FALSE)

(* refund's checks and effect.                                             *)
RefundIsDue(a) == HasRefund(a) /\ request_time[a] + RefundDelay <= now
PayRefund(a) ==
  /\ liquid' = [liquid EXCEPT ![a] = @ + Sum(refunds[a])]
  /\ stake_balance' = stake_balance - Sum(refunds[a])
  /\ refunds' = [refunds EXCEPT ![a] = None]
  /\ attempted' = attempted \ {a}

(* refund called by the owner: a deferred call stays in the chain.         *)
Refund(a) ==
  /\ RefundIsDue(a)
  /\ PayRefund(a)
  /\ UNCHANGED <<now, del, totals, request_time, due>>

(* The chain runs a deferred refund some time after its delay, if it can   *)
(* afford to, and in any case drops it.                                    *)
DeferredRefund(a) ==
  /\ due[a] > 0
  /\ due[a] <= now
  /\ due' = [due EXCEPT ![a] = 0]
  /\ \/ /\ RefundIsDue(a)
        /\ PayRefund(a)
     \/ /\ attempted' = attempted \union {b \in {a} : HasRefund(b)}
        /\ UNCHANGED <<liquid, stake_balance, refunds>>
  /\ UNCHANGED <<now, del, totals, request_time>>

Tick ==
  /\ now < MaxTime
  /\ now' = now + 1
  /\ UNCHANGED <<liquid, stake_balance, del, totals, refunds, request_time, due, attempted>>

Next ==
  \/ \E from, receiver \in Name, q \in [Kind -> 0..MaxStake], transfer \in BOOLEAN :
       DelegateBw(from, receiver, q, transfer)
  \/ \E from, receiver \in Name, q \in [Kind -> 0..MaxStake] : UndelegateBw(from, receiver, q)
  \/ \E a \in Name : Refund(a)
  \/ \E a \in Name : DeferredRefund(a)
  \/ Tick

Spec == Init /\ [][Next]_vars

-----------------------------------------------------------------------------
(* What an account has staked, to whomever.                                *)
StakedBy(a) == AccountTotal([b \in Name |-> Sum(del[a][b])], N)
Returning(a) == Sum(refunds[a])

(* celes.stake holds exactly the delegated weights and the refunds on      *)
(* their way, through stakes paid from refunds, gifts and cancelled calls. *)
StakeIsBacked ==
  stake_balance = AccountTotal([a \in Name |-> StakedBy(a) + Returning(a)], N)

(* The totals of an account are the weights delegated to it, by anybody.   *)
TotalsAreSums ==
  \A b \in Name, k \in Kind :
    totals[b][k] = AccountTotal([a \in Name |-> del[a][b][k]], N)

(* A deferred refund never comes too early for refund's check: it follows  *)
(* the latest request by the full delay.                                   *)
DeferredIsNotEarly ==
  \A a \in Name : due[a] > 0 /\ HasRefund(a) => request_time[a] + RefundDelay <= due[a]

(* Staking implements the vault: no account gains or loses tokens but by   *)
(* staking, unstaking and refunds, and no refund is early.                 *)
Vault == INSTANCE StakeVault WITH
  Accounts <- Name,
  Delay <- RefundDelay,
  staked <- [a \in Name |-> StakedBy(a)],
  returning <- [a \in Name |-> Returning(a)],
  unstaked_at <- request_time
VaultIsImplemented == Vault!Spec

(* "After the uninterrupted 3 day period passes, the system will attempt   *)
(* to automatically return the funds" (celesos.system.contracts.md.in): a  *)
(* pending refund has a deferred call to come, or it has been tried.  No   *)
(* run checks it and it does not hold: a delegation to another account     *)
(* cancels the deferred call.                                              *)
RefundsAreScheduled == \A a \in Name : HasRefund(a) => due[a] > 0 \/ a \in attempted
=============================================================================
