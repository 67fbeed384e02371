----------------------------- MODULE StakeVault -----------------------------
(***************************************************************************)
(* What staking promises, with neither tables nor deferred transactions:   *)
(* every account has liquid tokens, staked tokens and tokens on their way  *)
(* back; tokens go back to being liquid no sooner than Delay after the     *)
(* account last unstaked; nothing else moves tokens, and none are lost.    *)
(***************************************************************************)
EXTENDS Integers

CONSTANTS Accounts, Delay

VARIABLES
  now,        \* the time
  liquid,     \* tokens an account can spend
  staked,     \* tokens that are staked and its own
  returning,  \* tokens it has unstaked and not yet got back
  unstaked_at \* when it last unstaked

vars == <<now, liquid, staked, returning, unstaked_at>>

Init == /\ now \in Nat
        /\ liquid \in [Accounts -> Nat]
        /\ staked = [a \in Accounts |-> 0]
        /\ returning = [a \in Accounts |-> 0]
        /\ unstaked_at = [a \in Accounts |-> 0]

TimePasses == /\ now' > now
              /\ UNCHANGED <<liquid, staked, returning, unstaked_at>>

(* An owner's stake grows by q: r of it from what was on its way back to   *)
(* the owner, the rest paid by the owner or by a payer who gives it away.  *)
Stake(payer, owner, q, r) ==
  /\ r <= returning[owner]
  /\ q - r <= liquid[payer]
  /\ liquid' = [liquid EXCEPT ![payer] = @ - (q - r)]
  /\ staked' = [staked EXCEPT ![owner] = @ + q]
  /\ returning' = [returning EXCEPT ![owner] = @ - r]
  /\ UNCHANGED <<now, unstaked_at>>

Unstake(owner, q) ==
  /\ q <= staked[owner]
  /\ staked' = [staked EXCEPT ![owner] = @ - q]
  /\ returning' = [returning EXCEPT ![owner] = @ + q]
  /\ unstaked_at' = [unstaked_at EXCEPT ![owner] = now]
  /\ UNCHANGED <<now, liquid>>

Refund(owner) ==
  /\ unstaked_at[owner] + Delay <= now
  /\ liquid' = [liquid EXCEPT ![owner] = @ + returning[owner]]
  /\ returning' = [returning EXCEPT ![owner] = 0]
  /\ UNCHANGED <<now, staked, unstaked_at>>

Next ==
  \/ TimePasses
  \/ \E payer, owner \in Accounts : \E q \in 1..(liquid[payer] + returning[owner]) :
       \E r \in 0..q : Stake(payer, owner, q, r)
  \/ \E owner \in Accounts : \E q \in 1..staked[owner] : Unstake(owner, q)
  \/ \E owner \in Accounts : Refund(owner)

Spec == Init /\ [][Next]_vars
=============================================================================
