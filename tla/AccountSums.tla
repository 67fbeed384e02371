---------------------------- MODULE AccountSums ----------------------------
(***************************************************************************)
(* Sums over accounts.  An EOSIO account name is an ordered 64-bit number, *)
(* so the specifications number accounts 1..n; every conservation          *)
(* invariant of the contracts is a sum over them.  AccountTotal is written *)
(* as a recursive function, not as a RECURSIVE operator, so that           *)
(* AccountSumsTheorems can prove facts about it for every n.               *)
(***************************************************************************)
EXTENDS Integers

(* The sum f[1] + ... + f[n].                                              *)
AccountTotal(f, n) ==
  LET upTo[i \in 0..n] == IF i = 0 THEN 0 ELSE upTo[i-1] + f[i]
  IN  upTo[n]

=============================================================================
