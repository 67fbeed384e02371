----------------------------- MODULE WoodVoting -----------------------------
(***************************************************************************)
(* Voting by burning wood, in celesos.system: voting.cpp and the election  *)
(* part of onblock.  A voter submits a wood (a proof of work found for a   *)
(* recent forest block); the contract counts it for a producer, keeps a    *)
(* burn record so that the same wood is refused later, counts woods per    *)
(* (producer, block) so that they can be taken back when their block       *)
(* leaves the forest period, and counts woods per block, from which the    *)
(* next difficulty is computed.  All cleaning is done in slices of at most *)
(* CleanLimit rows, by whichever vote or block comes next.                 *)
(*                                                                         *)
(* Of the handlers that touch other components, this module has the voting *)
(* part: update_vote's two unpaid-wood counters are ProducerPay's, and so  *)
(* are the payments of onblock; they write none of the variables here.     *)
(***************************************************************************)
EXTENDS Integers, FiniteSets, AccountSums

CONSTANTS
  N,               \* account names, ordered, are 1..N; 0 is the empty name
  Candidates,      \* names that register as producers
  Owners,          \* names that own wood
  Proxies,         \* names that register as proxies
  Woods,           \* wood strings
  BP_COUNT,        \* size of a producer schedule
  ActiveCycle,     \* ACTIVE_NETWORK_CYCLE: full elections that activate the network
  SingingSep,      \* SINGING_TICKER_SEP: blocks between two elections
  PreClean,        \* blocks before an election in which it cleans ahead (30)
  CleanLimit,      \* rows cleaned by one vote or block (5)
  ForestPeriod,    \* forest_period_number(): blocks a wood stays valid
  ForestSpace,     \* forest_space_number(): blocks between two difficulties
  MaxBlock         \* bound on the block numbers explored

ASSUME VotingAssumption ==
  /\ N \in Nat /\ Candidates \subseteq 1..N /\ Owners \subseteq 1..N /\ Proxies \subseteq 1..N
  /\ BP_COUNT \in Nat \ {0} /\ ActiveCycle \in Nat \ {0}
  /\ SingingSep \in Nat \ {0} /\ PreClean \in Nat /\ CleanLimit \in Nat
  /\ ForestPeriod \in Nat /\ ForestSpace \in Nat \ {0, 1} /\ MaxBlock \in Nat

Name  == 1..N
Block == 1..MaxBlock
Vote  == [wood : Woods, block : Block, owner : Name, producer : Name]

VARIABLES
  head,            \* get_chain_head_num() while the current block executes
  registered,      \* owners of rows in the producers table; none is ever erased
  active,          \* producer_info.is_active
  valid_woods,     \* producer_info.valid_woods
  voters,          \* owners of rows in the voters table
  is_proxy,        \* voter_info.is_proxy
  proxy,           \* voter_info.proxy
  burninfos,       \* the woodburns table, as <<wood, block, owner>>
  prodstat,        \* woodbpblocks: .stat per producer and block; 0 is no row
  blockstat,       \* woodblocks: the blocks that have a row
  block_woods,     \* woodblocks: .stat
  suggested,       \* woodblocks: blocks whose .diff was computed by calc_diff
  last_schedule,   \* last_producer_schedule_block
  touch_count,     \* active_touch_count
  network_active,  \* is_network_active
  proposed,        \* producers last passed to set_proposed_producers
  total_wood,      \* total_wood
  counted          \* history: every vote that was ever counted

prodVars   == <<registered, active>>
proxyVars  == <<voters, is_proxy, proxy>>
blockVars  == <<blockstat, block_woods, suggested>>
chainVars  == <<last_schedule, touch_count, network_active, proposed>>
countVars  == <<valid_woods, prodstat, burninfos, total_wood, counted>>
vars == <<head, prodVars, proxyVars, blockVars, chainVars, countVars>>

TypeOK ==
  /\ head \in 0..MaxBlock
  /\ registered \in SUBSET Name
  /\ active \in SUBSET registered
  /\ valid_woods \in [Name -> Int]
  /\ voters \in SUBSET Name
  /\ is_proxy \in SUBSET voters
  /\ proxy \in [Name -> 0..N]
  /\ burninfos \in SUBSET (Woods \X Block \X Name)
  /\ prodstat \in [Name -> [Block -> Nat]]
  /\ blockstat \in SUBSET Block
  /\ block_woods \in [Block -> Nat]
  /\ suggested \in SUBSET blockstat
  /\ last_schedule \in 0..head
  /\ touch_count \in Nat
  /\ network_active \in BOOLEAN
  /\ proposed \in SUBSET Name
  /\ total_wood \in Nat
  /\ counted \in SUBSET Vote

Init ==
  /\ head = 0
  /\ registered = {} /\ active = {}
  /\ valid_woods = [p \in Name |-> 0]
  /\ voters = {} /\ is_proxy = {} /\ proxy = [a \in Name |-> 0]
  /\ burninfos = {}
  /\ prodstat = [p \in Name |-> [b \in Block |-> 0]]
  /\ blockstat = {} /\ block_woods = [b \in Block |-> 0] /\ suggested = {}
  /\ last_schedule = 0 /\ touch_count = 0 /\ network_active = FALSE /\ proposed = {}
  /\ total_wood = 0
  /\ counted = {}

-----------------------------------------------------------------------------
(* Registration.  Registering again reactivates; rows are never erased.    *)
RegProducer(p) ==
  /\ registered' = registered \union {p}
  /\ active' = active \union {p}
  /\ UNCHANGED <<head, proxyVars, blockVars, chainVars, countVars>>

(* unregprod by the producer, rmvproducer by the system account.           *)
UnregProd(p) ==
  /\ p \in registered
  /\ active' = active \ {p}
  /\ UNCHANGED <<head, registered, proxyVars, blockVars, chainVars, countVars>>

-----------------------------------------------------------------------------
(* Proxies.  Name 0 as a proxy is the empty name: no proxy.                *)
RegProxy(a, isproxy) ==
  /\ a \in voters => /\ isproxy # (a \in is_proxy)
                     /\ isproxy => proxy[a] = 0
  /\ voters' = voters \union {a}
  /\ is_proxy' = IF isproxy THEN is_proxy \union {a} ELSE is_proxy \ {a}
  /\ UNCHANGED <<head, prodVars, proxy, blockVars, chainVars, countVars>>

SetProxy(a, x) ==
  /\ a # x
  /\ x # 0 => x \in is_proxy
  /\ a \in voters
  /\ proxy[a] # x
  /\ proxy' = [proxy EXCEPT ![a] = x]
  /\ UNCHANGED <<head, prodVars, voters, is_proxy, blockVars, chainVars, countVars>>

(* Any other handler that emplaces a voters row (setacctram, setacctnet,   *)
(* setacctcpu): the row has no proxy and is no proxy.                      *)
OpenVoter(a) ==
  /\ a \notin voters
  /\ voters' = voters \union {a}
  /\ UNCHANGED <<head, prodVars, is_proxy, proxy, blockVars, chainVars, countVars>>

(* update_vote's check that voter may submit owner's wood.  When owner has *)
(* no voters row the code reads the proxy field of the end iterator: the   *)
(* comparison may come out either way.                                     *)
MayVoteFor(voter, owner) ==
  /\ IF owner \in voters THEN proxy[owner] = voter ELSE TRUE
  /\ voter \in is_proxy

-----------------------------------------------------------------------------
(* Cleaning.  Both tables are walked from their lowest block number; the   *)
(* rows that go are the first `limit` of those older than the period.      *)
(* Within one block the order is that of row ids, which any choice covers. *)
OutOfPeriod(b, block) == b + ForestPeriod < block

Slices(rows, blockOf(_), limit) ==
  {D \in SUBSET rows :
     /\ Cardinality(D) = IF Cardinality(rows) < limit THEN Cardinality(rows) ELSE limit
     /\ \A d \in D, r \in rows \ D : blockOf(d) <= blockOf(r)}

(* Slices of rows that clean_dirty_stat_producers may erase.  *)
StatSlices(stat, block) ==
  Slices({r \in Name \X Block : stat[r[1]][r[2]] > 0 /\ OutOfPeriod(r[2], block)},
         LAMBDA r : r[2], CleanLimit)

EarlyBurnSlices(burns, block, limit) ==
  Slices({r \in burns : r[2] + ForestPeriod <= block}, LAMBDA r : r[2], limit)
BurnSlices(burns, block, limit) ==
  Slices({r \in burns : OutOfPeriod(r[2], block)}, LAMBDA r : r[2], limit)

WithoutRows(stat, D) ==
  [p \in Name |-> [b \in Block |-> IF <<p, b>> \in D THEN 0 ELSE stat[p][b]]]

(* The producers lose the woods of the erased rows.                        *)
WoodsKept(woods, stat, D) == woods
WoodsAfter(woods, stat, D) ==
  [p \in Name |->
     woods[p] - AccountTotal([b \in Block |-> IF <<p, b>> \in D THEN stat[p][b] ELSE 0],
                             MaxBlock)]

-----------------------------------------------------------------------------
(* verify: the chain accepts a wood for a block of the current forest      *)
(* period (verify_wood, outside the contract), and no burn record says it  *)
(* has been used.                                                          *)
VerifyWood(b) == b <= head /\ ~OutOfPeriod(b, head)
Verify(wood, b, owner) == /\ <<wood, b, owner>> \notin burninfos
                          /\ VerifyWood(b)

(* A vote: count, record, then clean with one budget for both tables, the  *)
(* burn records getting what the statistics leave.                         *)
VoteProducer(voter, ownerArg, wood, b, p) ==
  LET owner == IF ownerArg # 0 THEN ownerArg ELSE voter
      woods == [valid_woods EXCEPT ![p] = @ + 1]
      stat  == [prodstat EXCEPT ![p][b] = @ + 1]
      burns == burninfos \union {<<wood, b, owner>>}
  IN
  /\ ownerArg # 0 /\ voter # ownerArg => MayVoteFor(voter, ownerArg)
  /\ Verify(wood, b, owner)
  /\ p \in active
  /\ total_wood' = total_wood + 1
  /\ counted' = counted \union {[wood |-> wood, block |-> b, owner |-> owner, producer |-> p]}
  /\ blockstat' = blockstat \union {b}
  /\ block_woods' = [block_woods EXCEPT ![b] = @ + 1]
  /\ IF head > ForestPeriod
     THEN \E D \in StatSlices(stat, head) :
            \E E \in BurnSlices(burns, head, CleanLimit - Cardinality(D)) :
              /\ prodstat' = WithoutRows(stat, D)
              /\ valid_woods' = WoodsAfter(woods, stat, D)
              /\ burninfos' = burns \ E
     ELSE prodstat' = stat /\ valid_woods' = woods /\ burninfos' = burns
  /\ UNCHANGED <<head, prodVars, proxyVars, suggested, chainVars>>

-----------------------------------------------------------------------------
(* The prototalvote index orders producers by by_votes, then by name.      *)
VotesOfAll(p, act, woods) == -woods[p]
ByVotes(p, act, woods) == IF p \in act THEN -woods[p] ELSE woods[p]

(* update_elected_producers walks the index and stops at the first         *)
(* producer that has no wood or is not active, or at BP_COUNT.             *)
TopProducers(woods) ==
  LET before(q, p) == \/ ByVotes(q, active, woods) < ByVotes(p, active, woods)
                      \/ ByVotes(q, active, woods) = ByVotes(p, active, woods) /\ q < p
      eligible(p)  == p \in active /\ woods[p] > 0
      ahead(p)     == {q \in registered : before(q, p)}
  IN  {p \in registered : /\ eligible(p)
                          /\ \A q \in ahead(p) : eligible(q)
                          /\ Cardinality(ahead(p)) < BP_COUNT}

UpdateElectedProducers(h, woods) ==
  LET top  == TopProducers(woods)
      full == Cardinality(top) >= BP_COUNT
      touches == IF network_active THEN touch_count
                 ELSE IF full THEN touch_count + 1 ELSE 0
  IN
  /\ last_schedule' = h
  /\ touch_count' = touches
  /\ network_active' = (network_active \/ touches >= ActiveCycle)
  /\ proposed' = IF network_active' /\ full THEN top ELSE proposed

(* calc_diff reads the rows of the last three difficulty blocks and writes *)
(* the row of this one; then rows too old for the next one are erased.     *)
HistoryKept(b, h) == b + 2 * ForestSpace >= h
InHistory(b, h) == b + 3 * ForestSpace >= h

UpdateDifficulty(h) ==
  IF h % ForestSpace = 1
  THEN LET kept == {b \in blockstat \union {h} : InHistory(b, h)}
       IN  /\ blockstat' = kept
           /\ suggested' = (suggested \union {h}) \intersect kept
           /\ block_woods' = [b \in Block |-> IF b \in kept THEN block_woods[b] ELSE 0]
  ELSE UNCHANGED blockVars

(* The block of the next election, guess_modify_block, as onblock computes *)
(* it when it cleans ahead.                                                *)
LateGuess(h) == last_schedule + SingingSep + PreClean
GuessModifyBlock(h) ==
  IF h > last_schedule + SingingSep THEN h ELSE last_schedule + SingingSep

(* onblock: difficulty, cleaning ahead of the election, election.          *)
OnBlock ==
  /\ head < MaxBlock
  /\ head' = head + 1
  /\ UpdateDifficulty(head')
  /\ IF last_schedule + SingingSep <= head' + PreClean - 1
     THEN \E D \in StatSlices(prodstat, GuessModifyBlock(head')) :
            /\ prodstat' = WithoutRows(prodstat, D)
            /\ valid_woods' = WoodsAfter(valid_woods, prodstat, D)
     ELSE UNCHANGED <<prodstat, valid_woods>>
  /\ IF head' - last_schedule >= SingingSep
     THEN UpdateElectedProducers(head', valid_woods')
     ELSE UNCHANGED chainVars
  /\ UNCHANGED <<prodVars, proxyVars, burninfos, total_wood, counted>>

Next ==
  \/ \E p \in Candidates : RegProducer(p)
  \/ \E p \in Candidates : UnregProd(p)
  \/ \E a \in Proxies, isproxy \in BOOLEAN : RegProxy(a, isproxy)
  \/ \E a \in Owners, x \in Proxies \union {0} : SetProxy(a, x)
  \/ \E a \in Owners : OpenVoter(a)
  \/ \E voter \in Owners \union Proxies, ownerArg \in Owners \union {0},
        wood \in Woods, b \in Block, p \in Candidates :
          /\ ownerArg = 0 => voter \in Owners
          /\ VoteProducer(voter, ownerArg, wood, b, p)
  \/ OnBlock

Spec == Init /\ [][Next]_vars

-----------------------------------------------------------------------------
(* A producer's valid woods are the woods of its remaining statistics rows *)
(* exactly: votes add to both, and every cleaning, by a vote or by a       *)
(* block, in any slice, takes the same amount from both.                   *)
ValidWoodsAreBacked == \A p \in Name : valid_woods[p] = AccountTotal(prodstat[p], MaxBlock)

(* No wood counts twice, however votes and the bounded cleaning of burn    *)
(* records interleave: a burn record outlives the wood's validity, so the  *)
(* number of increments is the number of distinct (wood, block, owner).    *)
NoWoodCountedTwice ==
  total_wood = Cardinality({<<v.wood, v.block, v.owner>> : v \in counted})

(* Cleaning, by votes and ahead of an election, never takes a wood that is *)
(* still valid at that election: all of those are in the statistics.       *)
LiveWoodsAreKept ==
  \A p \in Name, b \in Block :
    b + ForestPeriod >= last_schedule + SingingSep =>
      prodstat[p][b] = Cardinality({v \in counted : v.producer = p /\ v.block = b})

(* The rows the next difficulty is computed from are complete: every block *)
(* of the last three cycles still has the number of woods found for it,    *)
(* and the difficulty blocks among them their computed difficulty, though  *)
(* votes for old blocks create rows and difficulty blocks erase them.      *)
DifficultyHistoryIsExact ==
  \A b \in Block : b <= head /\ b + 3 * ForestSpace > head =>
    /\ block_woods[b] = Cardinality({v \in counted : v.block = b})
    /\ b % ForestSpace = 1 => b \in suggested

(* An election at which enough producers have wood, once the network is    *)
(* active or with this the last of the ActiveCycle such elections that     *)
(* activate it, proposes exactly the BP_COUNT active producers with most   *)
(* woods, the lower name first on a tie, whatever inactive producers hold. *)
Electable == {p \in active : valid_woods[p] > 0}
ElectionTakesTheMostVoted ==
  [][/\ last_schedule' # last_schedule
     /\ Cardinality(Electable') >= BP_COUNT
     /\ network_active \/ touch_count + 1 >= ActiveCycle
     => /\ network_active'
        /\ proposed' \subseteq Electable'
        /\ Cardinality(proposed') = BP_COUNT
        /\ \A p \in proposed', q \in Electable' \ proposed' :
             \/ valid_woods'[p] > valid_woods'[q]
             \/ valid_woods'[p] = valid_woods'[q] /\ p < q]_vars

=============================================================================
