------------------------------ MODULE Multisig ------------------------------
(***************************************************************************)
(* celesos.msig: proposals that other accounts approve, abstain from or    *)
(* reject, executed as deferred transactions once the chain finds the      *)
(* approvals sufficient.  After executing a transaction of the system      *)
(* account, the levels that said nothing are remembered, and those silent  *)
(* on two such proposals in a row are reported to the system contract's    *)
(* limitbps.                                                               *)
(*                                                                         *)
(* The list of requested levels is kept as it was passed, a level that is  *)
(* in it twice included.  A list of approvals is kept per level: only the  *)
(* order of one level's entries matters (an erase takes the first), and    *)
(* only the entries of the agreeing list have their times read.            *)
(***************************************************************************)
EXTENDS Integers, Sequences, FiniteSets

CONSTANTS
  Proposals,     \* pairs of a proposer and a proposal name
  Levels,        \* permission levels, as <<actor, permission>>
  Requests,      \* the vectors of levels that proposers pass
  Threshold,     \* how many levels the chain asks of a transaction
  MaxTime,       \* bounds on the states explored: times,
  MaxVotes,      \*   entries of one level in the lists of one proposal,
  MaxProposals   \*   and proposals made

ASSUME MsigAssumption ==
  /\ IsFiniteSet(Levels) /\ Requests \subseteq Seq(Levels)
  /\ Threshold \in Nat /\ MaxTime \in Nat \ {0} /\ MaxVotes \in Nat /\ MaxProposals \in Nat

Actor(l) == l[1]
Actors == {Actor(l) : l \in Levels}
Time == 1..MaxTime

VARIABLES
  now,          \* current_time_point
  open,         \* rows of the proposal table, and of the approvals table
  expiration,   \* expiration in the packed transaction of each
  system,       \* proposals whose transaction is the system account's
  requested,    \* requested_approvals of each, in order and with repetitions
  agree,        \* agree_approvals: the times of each level's entries
  abstained,    \* abstain_approvals: the number of each level's entries
  disagree,     \* disagree_approvals: the same
  invalidated,  \* invals: last_invalidation_time of each actor; 0 is no row
  noted,        \* there is a bppunish row
  last_silent,  \* its last_punish_bps
  deferred,     \* deferred transactions waiting in the chain
  punished,     \* times limitbps was called with each actor
  proposed,     \* number of proposals made
  stance,       \* history: what each level said last of each proposal
  standing,     \* history: levels that approved and did not invalidate since
  was_silent    \* history: levels with no stance at the last system exec

listVars == <<agree, abstained, disagree>>
punishVars == <<noted, last_silent, punished, was_silent>>
msigVars == <<now, open, expiration, system, requested, listVars, invalidated,
              deferred, punishVars, proposed, stance, standing>>

MsigTypeOK ==
  /\ now \in Time
  /\ open \in SUBSET Proposals
  /\ expiration \in [Proposals -> 0..MaxTime]
  /\ system \in SUBSET Proposals
  /\ requested \in [Proposals -> Seq(Levels)]
  /\ agree \in [Proposals -> [Levels -> Seq(1..now)]]
  /\ abstained \in [Proposals -> [Levels -> Nat]]
  /\ disagree \in [Proposals -> [Levels -> Nat]]
  /\ invalidated \in [Actors -> 0..now]
  /\ noted \in BOOLEAN
  /\ last_silent \in SUBSET Levels
  /\ deferred \in SUBSET Proposals
  /\ punished \in [Actors -> Nat]
  /\ proposed \in Nat
  /\ stance \in [Proposals -> [Levels -> {"none", "agree", "abstain", "disagree"}]]
  /\ standing \in [Proposals -> SUBSET Levels]
  /\ was_silent \in SUBSET Levels

NoTimes == [l \in Levels |-> << >>]
NoVotes == [l \in Levels |-> 0]
NoStance == [l \in Levels |-> "none"]

MsigInit ==
  /\ now = 1
  /\ open = {} /\ system = {} /\ deferred = {}
  /\ expiration = [k \in Proposals |-> 0]
  /\ requested = [k \in Proposals |-> << >>]
  /\ agree = [k \in Proposals |-> NoTimes]
  /\ abstained = [k \in Proposals |-> NoVotes]
  /\ disagree = [k \in Proposals |-> NoVotes]
  /\ invalidated = [a \in Actors |-> 0]
  /\ noted = FALSE /\ last_silent = {} /\ was_silent = {}
  /\ punished = [a \in Actors |-> 0]
  /\ proposed = 0
  /\ stance = [k \in Proposals |-> NoStance]
  /\ standing = [k \in Proposals |-> {}]

-----------------------------------------------------------------------------
(* The levels of a vector, which may hold one more than once.              *)
LevelsIn(vector) == {vector[i] : i \in 1..Len(vector)}

(* The chain's check_transaction_authorization takes what it is given for  *)
(* a set.                                                                  *)
Authorized(provided) == Cardinality(provided) >= Threshold

Tick == /\ now < MaxTime
        /\ now' = now + 1
        /\ UNCHANGED <<open, expiration, system, requested, listVars, invalidated,
                       deferred, punishVars, proposed, stance, standing>>

(* No votes on k, and no history of any.                                   *)
Blank(k) == /\ agree' = [agree EXCEPT ![k] = NoTimes]
            /\ abstained' = [abstained EXCEPT ![k] = NoVotes]
            /\ disagree' = [disagree EXCEPT ![k] = NoVotes]
            /\ stance' = [stance EXCEPT ![k] = NoStance]
            /\ standing' = [standing EXCEPT ![k] = {}]

(* The rows of k erased from both tables.                                  *)
Gone(k) == /\ open' = open \ {k}
           /\ expiration' = [expiration EXCEPT ![k] = 0]
           /\ system' = system \ {k}
           /\ requested' = [requested EXCEPT ![k] = << >>]
           /\ Blank(k)

(* propose stores every entry of the vector, whether repeated or not.      *)
Propose(k, levels, expires, isSystem) ==
  /\ expires >= now
  /\ k \notin open
  /\ Authorized(LevelsIn(levels))
  /\ proposed < MaxProposals
  /\ open' = open \union {k}
  /\ expiration' = [expiration EXCEPT ![k] = expires]
  /\ system' = IF isSystem THEN system \union {k} ELSE system \ {k}
  /\ requested' = [requested EXCEPT ![k] = levels]
  /\ proposed' = proposed + 1
  /\ Blank(k)
  /\ UNCHANGED <<now, invalidated, deferred, punishVars>>

-----------------------------------------------------------------------------
(* approve, abstain and unapprove add an entry to one list and erase the   *)
(* level's first entry, if there is one, from the other two.               *)
MayVote(k, l) == /\ k \in open
                 /\ l \in LevelsIn(requested[k])
                 /\ Len(agree[k][l]) + abstained[k][l] + disagree[k][l] < MaxVotes

Pushed(list, k, l) == [list EXCEPT ![k][l] = @ + 1]
Erased(list, k, l) == [list EXCEPT ![k][l] = IF @ > 0 THEN @ - 1 ELSE 0]
AgreeErased(k, l)  == [agree EXCEPT ![k][l] = IF @ # << >> THEN Tail(@) ELSE @]

Said(k, l, what) == /\ stance' = [stance EXCEPT ![k][l] = what]
                    /\ UNCHANGED <<now, open, expiration, system, requested, invalidated,
                                   deferred, punishVars, proposed>>

Approve(k, l) ==
  /\ MayVote(k, l)
  /\ agree' = [agree EXCEPT ![k][l] = Append(@, now)]
  /\ abstained' = Erased(abstained, k, l)
  /\ disagree' = Erased(disagree, k, l)
  /\ standing' = [standing EXCEPT ![k] = @ \union {l}]
  /\ Said(k, l, "agree")

Abstain(k, l) ==
  /\ MayVote(k, l)
  /\ abstained' = Pushed(abstained, k, l)
  /\ agree' = AgreeErased(k, l)
  /\ disagree' = Erased(disagree, k, l)
  /\ Said(k, l, "abstain")
  /\ UNCHANGED standing

UnapproveUnlisted(k, l) ==
  /\ MayVote(k, l)
  /\ agree' = AgreeErased(k, l)
  /\ abstained' = Erased(abstained, k, l)
  /\ Said(k, l, "disagree")
  /\ UNCHANGED <<disagree, standing>>
Unapprove(k, l) ==
  /\ MayVote(k, l)
  /\ disagree' = Pushed(disagree, k, l)
  /\ agree' = AgreeErased(k, l)
  /\ abstained' = Erased(abstained, k, l)
  /\ Said(k, l, "disagree")
  /\ UNCHANGED standing

(* The proposer may cancel at any time, others once it has expired.        *)
Cancel(k, byProposer) ==
  /\ k \in open
  /\ ~byProposer => expiration[k] < now
  /\ Gone(k)
  /\ UNCHANGED <<now, invalidated, deferred, punishVars, proposed>>

-----------------------------------------------------------------------------
(* exec.  An approval counts when its actor has not invalidated at its     *)
(* time or later.                                                          *)
NotYetStale(l, t) == invalidated[Actor(l)] <= t
Valid(l, t) == invalidated[Actor(l)] = 0 \/ invalidated[Actor(l)] < t

Provided(k) == {l \in Levels : \E i \in 1..Len(agree[k][l]) : Valid(l, agree[k][l][i])}

(* The requested levels that are in none of the lists, as the code finds   *)
(* them, and as they are by what was said.                                 *)
Silent(k) == {l \in LevelsIn(requested[k]) : /\ agree[k][l] = << >>
                                             /\ abstained[k][l] = 0
                                             /\ disagree[k][l] = 0}
SaidNothing(k) == {l \in LevelsIn(requested[k]) : stance[k][l] = "none"}

(* The entries of the vector to report: those of a level silent now and on *)
(* the last system proposal, each as often as it was requested.            *)
EntriesIn(k, levels) == {i \in 1..Len(requested[k]) : requested[k][i] \in levels}
AllSilent(k) == IF noted THEN EntriesIn(k, Silent(k)) ELSE {}
Reported(k) == IF noted THEN EntriesIn(k, Silent(k) \intersect last_silent) ELSE {}

Exec(k) ==
  /\ k \in open
  /\ expiration[k] >= now
  /\ Authorized(Provided(k))
  /\ k \notin deferred
  /\ deferred' = deferred \union {k}
  /\ IF k \in system
     THEN /\ punished' = [a \in Actors |->
                            punished[a] + Cardinality({i \in Reported(k) : Actor(requested[k][i]) = a})]
          /\ noted' = TRUE
          /\ last_silent' = Silent(k)
          /\ was_silent' = SaidNothing(k)
     ELSE UNCHANGED punishVars
  /\ Gone(k)
  /\ UNCHANGED <<now, invalidated, proposed>>

(* The chain runs a deferred transaction, or drops it.  Until then another *)
(* of the same sender id is refused.                                       *)
DeferredDone(k) ==
  /\ k \in deferred
  /\ deferred' = deferred \ {k}
  /\ UNCHANGED <<now, open, expiration, system, requested, listVars, invalidated,
                 punishVars, proposed, stance, standing>>

Invalidate(a) ==
  /\ invalidated' = [invalidated EXCEPT ![a] = now]
  /\ standing' = [k \in Proposals |-> {l \in standing[k] : Actor(l) # a}]
  /\ UNCHANGED <<now, open, expiration, system, requested, listVars,
                 deferred, punishVars, proposed, stance>>

MsigNext ==
  \/ Tick
  \/ \E k \in Proposals, levels \in Requests, expires \in Time, isSystem \in BOOLEAN :
       Propose(k, levels, expires, isSystem)
  \/ \E k \in Proposals, l \in Levels : Approve(k, l)
  \/ \E k \in Proposals, l \in Levels : Abstain(k, l)
  \/ \E k \in Proposals, l \in Levels : Unapprove(k, l)
  \/ \E k \in Proposals, byProposer \in BOOLEAN : Cancel(k, byProposer)
  \/ \E k \in Proposals : Exec(k)
  \/ \E k \in Proposals : DeferredDone(k)
  \/ \E a \in Actors : Invalidate(a)

MsigSpec == MsigInit /\ [][MsigNext]_msigVars

-----------------------------------------------------------------------------
(* A level that has taken a stance on an open proposal is in one of the    *)
(* lists, through any changes of mind: it is not taken for silent.         *)
VotersAreNotSilent ==
  \A k \in open, l \in Levels :
    stance[k][l] # "none" => agree[k][l] # << >> \/ abstained[k][l] > 0 \/ disagree[k][l] > 0

(* A proposal is executed only on enough approvals that were given to this *)
(* proposal, not to an earlier one of the same name, and not invalidated   *)
(* afterwards, be it in the same block.                                    *)
OnlyStandingApprovalsExecute ==
  [][\A k \in Proposals : k \in deferred' \ deferred => Authorized(standing[k])]_msigVars

(* What actor a is reported for when k is executed: the entries of the     *)
(* requested vector whose level is the actor's and said nothing, neither   *)
(* of k nor of the system proposal executed before.                        *)
SilentTwice(k, a) == {i \in 1..Len(requested[k]) :
                        /\ Actor(requested[k][i]) = a
                        /\ requested[k][i] \in was_silent
                        /\ stance[k][requested[k][i]] = "none"}

(* An exec of a system proposal names an actor to limitbps exactly once    *)
(* for each of those entries: nobody silent twice is spared, nobody else   *)
(* is named, a level requested twice counts twice.  No other step calls    *)
(* limitbps.                                                               *)
PunishedWereSilentTwice ==
  [][LET executed == (deferred' \ deferred) \intersect system
     IN /\ executed = {} => punished' = punished
        /\ \A k \in executed, a \in Actors :
             punished'[a] - punished[a] = Cardinality(SilentTwice(k, a))]_msigVars

(* "revokes the approval previously provided"                              *)
(* (celesos.msig.contracts.md.in): a level that said last that it does not *)
(* approve is not among the approvals.                                     *)
RevokedApprovalsAreGone ==
  \A k \in open, l \in Levels : stance[k][l] = "disagree" => agree[k][l] = << >>
=============================================================================
